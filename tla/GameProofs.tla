------------------------------ MODULE GameProofs ------------------------------
(***************************************************************************)
(* Proofs about Game, for any number of players and any figures.           *)
(***************************************************************************)
EXTENDS Game, TLAPS

LEMMA InitEstablishes == Init => GameInv
<1> SUFFICES ASSUME Init
             PROVE  GameInv
  OBVIOUS
<1> USE GameAssumption DEF Init
<1>1. TypeOK
  BY DEF TypeOK
<1>2. \A p \in Players : room[p] = Null /\ hp[p] > 0
  <2>1. MaxHp > 0
    OBVIOUS
  <2> QED
    BY <2>1
<1>3. RoomsPaired /\ GameOver
  BY <1>2 DEF RoomsPaired, GameOver
<1> QED
  BY <1>1, <1>2, <1>3 DEF GameInv

\* A potion drunk counts for more than the health it gives.
LEMMA PotionArithmetic ==
  ASSUME NEW e \in Nat, NEW n \in Nat, NEW h \in Nat, NEW g \in Nat,
         n > 0, g <= h + e
  PROVE  g + (e + 1) * (n - 1) < h + (e + 1) * n
<1>1. (e + 1) * (n - 1) = (e + 1) * n - (e + 1)
  OBVIOUS
<1>2. (e + 1) * n \in Nat
  OBVIOUS
<1> QED
  BY <1>1, <1>2

\* What a command does: the one who gives it lives, nobody but his opponent
\* loses health, and the two together have less left.
LEMMA PlayFacts ==
  ASSUME TypeOK, NEW p \in Players, NEW q \in Players, p # q,
         hp[p] > 0, hp[q] > 0, NEW cmd, play(p, q, cmd)
  PROVE  /\ hp' \in [Players -> 0 .. MaxHp]
         /\ mp' \in [Players -> 0 .. MaxMp]
         /\ hpPotion' \in [Players -> 0 .. Potions]
         /\ mpPotion' \in [Players -> 0 .. Potions]
         /\ hp'[p] > 0
         /\ \A x \in Players \ {p, q} : hp'[x] = hp[x]
         /\ Left(p)' + Left(q)' < Left(p) + Left(q)
<1> USE GameAssumption DEF TypeOK
<1> DEFINE weight == hpPotionEffect + 1
<1>1. /\ weight \in Nat
      /\ \A n \in 0 .. Potions : weight * n \in Nat
  OBVIOUS
<1>2. \A x \in Players :
        /\ hp[x] \in Nat /\ hp[x] <= MaxHp /\ mp[x] \in Nat /\ mp[x] <= MaxMp
        /\ hpPotion[x] \in Nat /\ hpPotion[x] <= Potions
        /\ mpPotion[x] \in Nat /\ mpPotion[x] <= Potions
        /\ weight * hpPotion[x] \in Nat
  BY <1>1
<1>3. ASSUME NEW d \in Nat \ {0}, hit(q, d),
             UNCHANGED <<hpPotion, mpPotion>>
      PROVE  /\ hp' \in [Players -> 0 .. MaxHp] /\ hp'[p] > 0
             /\ \A x \in Players \ {p, q} : hp'[x] = hp[x]
             /\ Left(p)' + Left(q)' < Left(p) + Left(q)
  <2>1. hp' = [hp EXCEPT ![q] = reduced(hp[q], d)]
    BY <1>3 DEF hit
  <2>2. reduced(hp[q], d) \in Nat /\ reduced(hp[q], d) < hp[q]
    BY <1>2 DEF reduced
  <2>3. hp'[q] < hp[q] /\ hp'[q] \in Nat /\ hp'[p] = hp[p]
    BY <2>1, <2>2
  <2>4. /\ hp' \in [Players -> 0 .. MaxHp]
        /\ \A x \in Players \ {p, q} : hp'[x] = hp[x]
    BY <1>2, <2>1, <2>2
  <2>5. /\ Left(p)' = Left(p)
        /\ Left(q)' = hp'[q] + weight * hpPotion[q] + mpPotion[q]
    BY <1>3, <2>3 DEF Left
  <2>6. Left(p) \in Nat /\ Left(q) = hp[q] + weight * hpPotion[q] + mpPotion[q]
    BY <1>2 DEF Left
  <2> HIDE DEF weight
  <2> QED
    BY <1>2, <2>3, <2>4, <2>5, <2>6
<1>4. CASE attack(p, q)
  BY <1>3, <1>4 DEF attack
<1>5. CASE magic(p, q)
  <2>1. mp' \in [Players -> 0 .. MaxMp]
    BY <1>2, <1>5 DEF magic
  <2> QED
    BY <1>3, <1>5, <2>1 DEF magic
<1>6. CASE drinkHp(p)
  <2>1. /\ hpPotion' = [hpPotion EXCEPT ![p] = hpPotion[p] - 1]
        /\ hpPotion[p] > 0
        /\ hp' = [hp EXCEPT ![p] = raised(hp[p], hpPotionEffect, MaxHp)]
        /\ UNCHANGED <<mp, mpPotion>>
    BY <1>6 DEF drinkHp, takesPotion
  <2>2. /\ raised(hp[p], hpPotionEffect, MaxHp) \in 1 .. MaxHp
        /\ raised(hp[p], hpPotionEffect, MaxHp) <= hp[p] + hpPotionEffect
    BY <1>2 DEF raised
  <2>3. /\ hp' \in [Players -> 0 .. MaxHp] /\ hp'[p] > 0
        /\ hp'[p] \in Nat /\ hp'[p] <= hp[p] + hpPotionEffect
        /\ \A x \in Players \ {p} : hp'[x] = hp[x]
    BY <1>2, <2>1, <2>2
  <2>4. /\ hpPotion' \in [Players -> 0 .. Potions]
        /\ hpPotion'[p] = hpPotion[p] - 1
        /\ \A x \in Players \ {p} : hpPotion'[x] = hpPotion[x]
    BY <1>2, <2>1
  <2>5. hp'[p] + weight * (hpPotion[p] - 1) < hp[p] + weight * hpPotion[p]
    BY <1>2, <2>1, <2>3, PotionArithmetic
  <2>6. weight * (hpPotion[p] - 1) \in Nat
    BY <1>1, <1>2, <2>1
  <2>7. /\ Left(p)' = hp'[p] + weight * (hpPotion[p] - 1) + mpPotion[p]
        /\ Left(q)' = Left(q)
    BY <2>1, <2>3, <2>4 DEF Left
  <2>8. Left(p) = hp[p] + weight * hpPotion[p] + mpPotion[p] /\ Left(q) \in Nat
    BY <1>2 DEF Left
  <2>9. Left(p)' + Left(q)' < Left(p) + Left(q)
    <3> HIDE DEF weight
    <3> QED
      BY <1>2, <2>3, <2>5, <2>6, <2>7, <2>8
  <2> QED
    BY <2>1, <2>3, <2>4, <2>9
<1>7. CASE drinkMp(p)
  <2>1. /\ mpPotion' = [mpPotion EXCEPT ![p] = mpPotion[p] - 1]
        /\ mpPotion[p] > 0
        /\ mp' = [mp EXCEPT ![p] = raised(mp[p], mpPotionEffect, MaxMp)]
        /\ UNCHANGED <<hp, hpPotion>>
    BY <1>7 DEF drinkMp
  <2>2. raised(mp[p], mpPotionEffect, MaxMp) \in 0 .. MaxMp
    BY <1>2 DEF raised
  <2>3. /\ mp' \in [Players -> 0 .. MaxMp]
        /\ mpPotion' \in [Players -> 0 .. Potions]
        /\ mpPotion'[p] = mpPotion[p] - 1 /\ mpPotion'[q] = mpPotion[q]
    BY <1>2, <2>1, <2>2
  <2>4. /\ Left(p)' = hp[p] + weight * hpPotion[p] + (mpPotion[p] - 1)
        /\ Left(q)' = Left(q)
    BY <2>1, <2>3 DEF Left
  <2>5. Left(p) = hp[p] + weight * hpPotion[p] + mpPotion[p] /\ Left(q) \in Nat
    BY <1>2 DEF Left
  <2>6. Left(p)' + Left(q)' < Left(p) + Left(q)
    <3> HIDE DEF weight
    <3> QED
      BY <1>2, <2>4, <2>5
  <2> QED
    BY <2>1, <2>3, <2>6
<1> QED
  BY <1>4, <1>5, <1>6, <1>7 DEF play

\* What a command leaves alone: p loses no health, and q neither gains any nor
\* loses magic or potions; nobody else is touched.
LEMMA PlayTouches ==
  ASSUME TypeOK, NEW p \in Players, NEW q \in Players, p # q, NEW cmd,
         play(p, q, cmd)
  PROVE  /\ hp'[p] >= hp[p] /\ hp'[q] <= hp[q]
         /\ \A x \in Players \ {p} :
              UNCHANGED <<mp[x], hpPotion[x], mpPotion[x]>>
         /\ \A x \in Players \ {p, q} : UNCHANGED figuresOf(x)
<1> USE GameAssumption DEF TypeOK
<1>1. \A x \in Players : hp[x] \in Nat /\ hp[x] <= MaxHp
  OBVIOUS
<1>2. /\ hp'[p] >= hp[p] /\ hp'[q] <= hp[q]
      /\ \A x \in Players \ {p, q} : hp'[x] = hp[x]
  <2>1. ASSUME NEW d \in Nat \ {0}, hit(q, d)
        PROVE  /\ hp'[p] >= hp[p] /\ hp'[q] <= hp[q]
               /\ \A x \in Players \ {p, q} : hp'[x] = hp[x]
    <3>1. hp' = [hp EXCEPT ![q] = reduced(hp[q], d)]
      BY <2>1 DEF hit
    <3>2. reduced(hp[q], d) \in Nat /\ reduced(hp[q], d) <= hp[q]
      BY <1>1 DEF reduced
    <3> QED
      BY <1>1, <3>1, <3>2
  <2>2. CASE drinkHp(p)
    <3>1. hp' = [hp EXCEPT ![p] = raised(hp[p], hpPotionEffect, MaxHp)]
      BY <2>2 DEF drinkHp
    <3>2. /\ raised(hp[p], hpPotionEffect, MaxHp) \in Nat
          /\ raised(hp[p], hpPotionEffect, MaxHp) >= hp[p]
      BY <1>1 DEF raised
    <3> QED
      BY <1>1, <3>1, <3>2
  <2>3. CASE drinkMp(p)
    BY <1>1, <2>3 DEF drinkMp
  <2> QED
    BY <2>1, <2>2, <2>3 DEF play, attack, magic
<1>3. \A x \in Players \ {p} : UNCHANGED <<mp[x], hpPotion[x], mpPotion[x]>>
  BY DEF play, attack, magic, drinkHp, drinkMp, takesPotion
<1> QED
  BY <1>2, <1>3 DEF figuresOf

LEMMA LeftIsNat ==
  ASSUME NEW p \in Players
  PROVE  (TypeOK => Left(p) \in Nat) /\ (TypeOK' => Left(p)' \in Nat)
<1> USE GameAssumption
<1>1. \A e, n, h, g \in Nat : h + (e + 1) * n + g \in Nat
  OBVIOUS
<1>2. TypeOK => hp[p] \in Nat /\ hpPotion[p] \in Nat /\ mpPotion[p] \in Nat
  BY DEF TypeOK
<1>3. TypeOK' => hp'[p] \in Nat /\ hpPotion'[p] \in Nat /\ mpPotion'[p] \in Nat
  BY DEF TypeOK
<1> QED
  BY <1>1, <1>2, <1>3 DEF Left

-----------------------------------------------------------------------------
(* Steps.                                                                  *)

\* A room and its two players.
LEMMA RoomFacts ==
  ASSUME GameInv, NEW p \in Players, room[p] # Null
  PROVE  /\ room[p] \in Players
         /\ p \in {room[p], p1[room[p]]}
         /\ rival(p) \in Players \ {p}
         /\ room[rival(p)] = room[p]
         /\ rival(rival(p)) = p
         /\ state_[p] # "kConnecting"
         /\ \A x \in Players : room[x] = room[p] => x \in {p, rival(p)}
<1> USE GameAssumption DEF GameInv
<1>1. room[p] \in Players
  BY DEF TypeOK
<1>2. /\ rival(p) \in Players \ {p} /\ room[rival(p)] = room[p]
      /\ rival(rival(p)) = p
  BY DEF RoomsPaired
<1>3. ASSUME NEW x \in Players, room[x] = room[p], x # p
      PROVE  x = rival(p)
  <2>1. rival(rival(x)) = x /\ room[rival(x)] = room[x]
    BY <1>3 DEF RoomsPaired
  <2> QED
    BY <1>2, <1>3, <2>1 DEF rival
<1>4. p \in {room[p], p1[room[p]]}
  BY <1>2 DEF rival
<1> QED
  BY <1>1, <1>2, <1>3, <1>4

\* The step of a command that is carried out, of p against q in room r: who
\* the two are, and what it changes.
LEMMA OnMessageFacts ==
  ASSUME GameInv, NEW p \in Players, NEW byte \in Bytes, onMessage(p, byte),
         NEW r, NEW q, r = room[p], q = opponentPlayer(r)
  PROVE  /\ r \in rooms_ /\ p = currentPlayer(r)
         /\ input' = [input EXCEPT ![p] = Null]
         /\ play(p, q, command(p, byte))
         /\ endTurn(r, p, q)
         /\ UNCHANGED <<waitingPlayer_, p1, room>>
         /\ r \in Players /\ r # Null /\ room[r] = r
         /\ q = rival(p) /\ ((r = p /\ p1[r] = q) \/ (r = q /\ p1[r] = p))
         /\ q \in Players /\ p # q /\ room[q] = r /\ rival(q) = p
         /\ state_[p] # "kConnecting" /\ state_[q] # "kConnecting"
         /\ \A x \in Players : room[x] = r => x \in {p, q}
         /\ hp[p] > 0 /\ hp[q] > 0
         /\ hp' \in [Players -> 0 .. MaxHp]
         /\ mp' \in [Players -> 0 .. MaxMp]
         /\ hpPotion' \in [Players -> 0 .. Potions]
         /\ mpPotion' \in [Players -> 0 .. Potions]
         /\ hp'[p] > 0
         /\ \A x \in Players \ {p, q} : hp'[x] = hp[x]
         /\ Left(p)' + Left(q)' < Left(p) + Left(q)
         /\ \/ /\ hp'[q] = 0
               /\ state_' = [state_ EXCEPT ![p] = shutdownOf(state_[p]),
                                           ![q] = shutdownOf(state_[q])]
               /\ rooms_' = rooms_ \ {r}
               /\ UNCHANGED currentTurn
            \/ /\ hp'[q] > 0
               /\ currentTurn' = [currentTurn EXCEPT ![r] = 1 - currentTurn[r]]
               /\ UNCHANGED <<state_, rooms_>>
<1> USE GameAssumption
<1>1. /\ r \in rooms_ /\ p = currentPlayer(r)
      /\ input' = [input EXCEPT ![p] = Null]
      /\ play(p, q, command(p, byte))
      /\ endTurn(r, p, q)
      /\ UNCHANGED <<waitingPlayer_, p1, room>>
  BY DEF onMessage, Accepted, lobby
<1>2. r \in Players /\ r # Null /\ room[r] = r
  BY <1>1 DEF GameInv, TypeOK, RoomsPaired
<1>3. q = rival(p) /\ ((r = p /\ p1[r] = q) \/ (r = q /\ p1[r] = p))
  <2>1. p \in {r, p1[r]}
    BY <1>2, RoomFacts
  <2>2. r # p1[r]
    BY <1>2, RoomFacts DEF rival
  <2> QED
    <3>1. currentTurn[r] \in {0, 1}
      BY <1>2 DEF GameInv, TypeOK
    <3>2. CASE currentTurn[r] = 0
      BY <1>1, <2>2, <3>2, Zenon DEF currentPlayer, opponentPlayer, rival
    <3>3. CASE currentTurn[r] = 1
      <4>1. currentTurn[r] # 0
        BY <3>3
      <4> QED
        BY <1>1, <2>2, <4>1, Zenon DEF currentPlayer, opponentPlayer, rival
    <3> QED
      BY <3>1, <3>2, <3>3
<1>4. /\ q \in Players /\ p # q /\ room[q] = r /\ rival(q) = p
      /\ state_[p] # "kConnecting" /\ state_[q] # "kConnecting"
      /\ \A x \in Players : room[x] = r => x \in {p, q}
  BY <1>2, <1>3, RoomFacts
<1>5. hp[p] > 0 /\ hp[q] > 0
  BY <1>1, <1>2, <1>4 DEF GameInv, GameOver
<1>6. /\ hp' \in [Players -> 0 .. MaxHp]
      /\ mp' \in [Players -> 0 .. MaxMp]
      /\ hpPotion' \in [Players -> 0 .. Potions]
      /\ mpPotion' \in [Players -> 0 .. Potions]
      /\ hp'[p] > 0
      /\ \A x \in Players \ {p, q} : hp'[x] = hp[x]
      /\ Left(p)' + Left(q)' < Left(p) + Left(q)
  <2>1. TypeOK
    BY DEF GameInv
  <2> QED
    BY <1>1, <1>4, <1>5, <2>1, PlayFacts, Zenon
<1>7. \/ /\ hp'[q] = 0
         /\ state_' = [state_ EXCEPT ![p] = shutdownOf(state_[p]),
                                     ![q] = shutdownOf(state_[q])]
         /\ rooms_' = rooms_ \ {r}
         /\ UNCHANGED currentTurn
      \/ /\ hp'[q] > 0
         /\ currentTurn' = [currentTurn EXCEPT ![r] = 1 - currentTurn[r]]
         /\ UNCHANGED <<state_, rooms_>>
  <2>1. hp'[p] \in Nat /\ hp'[q] \in Nat /\ r \in Players
    BY <1>2, <1>4, <1>6
  <2>2. dead(hp'[p]) \/ dead(hp'[q]) <=> hp'[q] = 0
    BY <1>6, <2>1 DEF dead
  <2> QED
    BY <1>1, <2>1, <2>2 DEF endTurn, shutsBoth
<1> QED
  BY <1>1, <1>2, <1>3, <1>4, <1>5, <1>6, <1>7

\* It keeps the invariant and uses something up.
LEMMA OnMessagePreserves ==
  ASSUME GameInv, NEW p \in Players, NEW byte \in Bytes, onMessage(p, byte),
         NEW r, NEW q, r = room[p], q = opponentPlayer(r)
  PROVE  GameInv' /\ TurnsUseUp
<1> USE GameAssumption
<1>1. /\ r \in rooms_ /\ p = currentPlayer(r)
      /\ input' = [input EXCEPT ![p] = Null]
      /\ play(p, q, command(p, byte))
      /\ endTurn(r, p, q)
      /\ UNCHANGED <<waitingPlayer_, p1, room>>
  BY OnMessageFacts
<1>2. r \in Players /\ r # Null /\ room[r] = r
  BY OnMessageFacts
<1>3. q = rival(p) /\ ((r = p /\ p1[r] = q) \/ (r = q /\ p1[r] = p))
  BY OnMessageFacts
<1>4. /\ q \in Players /\ p # q /\ room[q] = r /\ rival(q) = p
      /\ state_[p] # "kConnecting" /\ state_[q] # "kConnecting"
      /\ \A x \in Players : room[x] = r => x \in {p, q}
  BY OnMessageFacts
<1>5. hp[p] > 0 /\ hp[q] > 0
  BY OnMessageFacts
<1>6. /\ hp' \in [Players -> 0 .. MaxHp]
      /\ mp' \in [Players -> 0 .. MaxMp]
      /\ hpPotion' \in [Players -> 0 .. Potions]
      /\ mpPotion' \in [Players -> 0 .. Potions]
      /\ hp'[p] > 0
      /\ \A x \in Players \ {p, q} : hp'[x] = hp[x]
      /\ Left(p)' + Left(q)' < Left(p) + Left(q)
  BY OnMessageFacts
<1>7. \/ /\ hp'[q] = 0
         /\ state_' = [state_ EXCEPT ![p] = shutdownOf(state_[p]),
                                     ![q] = shutdownOf(state_[q])]
         /\ rooms_' = rooms_ \ {r}
         /\ UNCHANGED currentTurn
      \/ /\ hp'[q] > 0
         /\ currentTurn' = [currentTurn EXCEPT ![r] = 1 - currentTurn[r]]
         /\ UNCHANGED <<state_, rooms_>>
  BY OnMessageFacts
<1>8. \A x \in Players :
        /\ state_'[x] = "kConnecting" <=> state_[x] = "kConnecting"
        /\ state_'[x] \in {"kConnecting", "kConnected", "kDisconnecting",
                           "kDisconnected"}
  BY <1>4, <1>7 DEF GameInv, TypeOK, shutdownOf
<1>9. TypeOK'
  <2>1. state_' \in [Players -> {"kConnecting", "kConnected", "kDisconnecting",
                                 "kDisconnected"}]
    BY <1>7, <1>8 DEF GameInv, TypeOK
  <2>2. currentTurn' \in [Players -> {0, 1}]
    BY <1>7 DEF GameInv, TypeOK
  <2> QED
    BY <1>1, <1>6, <1>7, <2>1, <2>2 DEF GameInv, TypeOK
<1>10. RoomsPaired'
  <2>1. \A x \in Players : rival(x)' = rival(x)
    BY <1>1 DEF rival
  <2>2. \A x \in Players : room[x] # Null =>
          /\ rival(x)' \in Players \ {x}
          /\ room'[rival(x)'] = room'[x]
          /\ (rival(rival(x)))' = x
    BY <1>1 DEF rival, GameInv, RoomsPaired
  <2>3. rooms_' \subseteq rooms_
    BY <1>7
  <2> QED
    BY <1>1, <1>8, <2>2, <2>3 DEF GameInv, RoomsPaired
<1>11. GameOver'
  <2>1. SUFFICES ASSUME NEW x \in Players, room[x] # Null
                 PROVE  IF room[x] \in rooms_'
                        THEN hp'[x] > 0
                        ELSE /\ hp'[x] = 0 <=> hp'[rival(x)] > 0
                             /\ state_'[x]
                                  \in {"kDisconnecting", "kDisconnected"}
    BY <1>1 DEF GameOver, rival
  <2>2. CASE room[x] = r
    <3>1. x \in {p, q} /\ rival(x) \in {p, q} /\ rival(x) # x
      BY <1>3, <1>4, <2>1, <2>2
    <3>2. CASE hp'[q] = 0
      <4>1. room[x] \notin rooms_'
        BY <1>7, <2>2, <3>2
      <4>2. state_'[x] \in {"kDisconnecting", "kDisconnected"}
        BY <1>4, <1>7, <3>1, <3>2 DEF GameInv, TypeOK, shutdownOf
      <4> QED
        BY <1>3, <1>4, <1>6, <3>1, <3>2, <4>1, <4>2
    <3>3. CASE hp'[q] > 0
      <4>1. hp'[x] > 0
        BY <1>6, <3>1, <3>3
      <4>2. room[x] \in rooms_'
        <5>1. hp'[q] # 0
          BY <3>3
        <5> QED
          <6>1. rooms_' = rooms_
            BY <1>7, <5>1
          <6> QED
            BY <1>1, <2>2, <6>1
      <4> QED
        BY <4>1, <4>2
    <3> QED
      BY <1>4, <1>6, <3>2, <3>3
  <2>3. CASE room[x] # r
    <3>1. x \notin {p, q} /\ rival(x) \notin {p, q} /\ rival(x) \in Players
      BY <1>4, <2>1, <2>3, RoomFacts
    <3>2. /\ state_'[x] = state_[x] /\ hp'[x] = hp[x]
          /\ hp'[rival(x)] = hp[rival(x)]
      BY <1>6, <1>7, <3>1 DEF GameInv, TypeOK
    <3>3. room[x] \in rooms_' <=> room[x] \in rooms_
      BY <1>7, <2>3
    <3> QED
      BY <2>1, <3>2, <3>3 DEF GameInv, GameOver
  <2> QED
    BY <2>2, <2>3
<1>12. \A x \in Players :
         /\ state_'[x] = "kConnecting" => room'[x] = Null
         /\ room'[x] = Null => hp'[x] > 0
  <2>1. \A x \in Players : room[x] = Null => x \notin {p, q}
    BY <1>2, <1>4
  <2> QED
    BY <1>1, <1>6, <1>8, <2>1 DEF GameInv
<1>13. waitingPlayer_' # Null => state_'[waitingPlayer_'] # "kConnecting"
  BY <1>1, <1>8 DEF GameInv, TypeOK
<1>14. ASSUME NEW s \in rooms_,
              s \notin rooms_' \/ currentTurn'[s] # currentTurn[s]
       PROVE  Left(s)' + Left(p1[s])' < Left(s) + Left(p1[s])
  <2>1. s = r
    BY <1>7, <1>14 DEF GameInv, TypeOK
  <2>2. (s = p /\ p1[s] = q) \/ (s = q /\ p1[s] = p)
    BY <1>3, <2>1
  <2>3. /\ Left(p)' + Left(q)' = Left(q)' + Left(p)'
        /\ Left(p) + Left(q) = Left(q) + Left(p)
    <3>1. /\ Left(p)' \in Nat /\ Left(q)' \in Nat
          /\ Left(p) \in Nat /\ Left(q) \in Nat
      BY <1>4, <1>9, LeftIsNat DEF GameInv
    <3> QED
      BY <3>1
  <2>4. p1'[s] = p1[s]
    BY <1>1
  <2>5. CASE s = p /\ p1[s] = q
    BY <1>6, <2>4, <2>5 DEF Left
  <2>6. CASE s = q /\ p1[s] = p
    BY <1>6, <2>3, <2>4, <2>6 DEF Left
  <2> QED
    BY <2>2, <2>5, <2>6
<1> QED
  BY <1>9, <1>10, <1>11, <1>12, <1>13, <1>14 DEF GameInv, TurnsUseUp

\* The steps that carry no command out.
NoCommand(p) ==
  \/ waits(p) \/ joins(p) \/ leaves(p)
  \/ \E byte \in Bytes : onMessageOutside(p, byte) \/ onMessageRefused(p, byte)

\* They keep the invariant and nobody gains or loses anything.
LEMMA OtherStepsPreserve ==
  ASSUME GameInv, NEW p \in Players, NoCommand(p)
  PROVE  /\ GameInv'
         /\ UNCHANGED <<currentTurn, figures>> /\ rooms_ \subseteq rooms_'
<1> USE GameAssumption
<1> DEFINE Same == UNCHANGED <<rooms_, currentTurn, p1, room, figures>>
<1>1. ASSUME Same, UNCHANGED <<waitingPlayer_, state_>>,
             input' \in [Players -> Bytes \cup {Null}]
      PROVE  GameInv'
  <2>1. TypeOK'
    BY <1>1 DEF GameInv, TypeOK, figures
  <2>2. RoomsPaired' /\ GameOver'
    BY <1>1 DEF GameInv, RoomsPaired, GameOver, rival, figures
  <2> QED
    BY <1>1, <2>1, <2>2 DEF GameInv, figures
<1>2. ASSUME NEW byte \in Bytes,
             onMessageOutside(p, byte) \/ onMessageRefused(p, byte)
      PROVE  GameInv' /\ Same
  <2>1. Same /\ UNCHANGED <<waitingPlayer_, state_>>
    BY <1>2 DEF onMessageOutside, onMessageRefused, lobby
  <2>2. input' \in [Players -> Bytes \cup {Null}]
    BY <1>2 DEF onMessageOutside, onMessageRefused, command, GameInv, TypeOK
  <2> QED
    BY <1>1, <2>1, <2>2
<1>3. CASE waits(p)
  <2>1. /\ Same /\ waitingPlayer_' = p
        /\ state_' = [state_ EXCEPT ![p] = "kConnected"]
    BY <1>3 DEF waits
  <2>2. room[p] = Null /\ p # Null /\ waitingPlayer_ = Null
    BY <1>3 DEF waits, GameInv
  <2>3. TypeOK'
    BY <1>3 DEF waits, GameInv, TypeOK, figures
  <2>4. RoomsPaired'
    BY <2>1, <2>2 DEF GameInv, RoomsPaired, TypeOK, rival
  <2>5. GameOver'
    BY <2>1, <2>2 DEF GameInv, GameOver, TypeOK, rival, figures
  <2> QED
    BY <2>1, <2>2, <2>3, <2>4, <2>5 DEF GameInv, TypeOK, figures
<1>4. CASE joins(p)
  <2> PICK w : w = waitingPlayer_
    OBVIOUS
  <2>1. /\ w \in Players \ {p} /\ room[p] = Null /\ room[w] = Null
        /\ hp[p] > 0 /\ hp[w] > 0
        /\ state_[p] = "kConnecting" /\ state_[w] # "kConnecting"
    BY <1>4 DEF joins, GameInv, TypeOK, RoomsPaired
  <2>2. /\ rooms_' = rooms_ \cup {p}
        /\ p1' = [p1 EXCEPT ![p] = w]
        /\ room' = [room EXCEPT ![p] = p, ![w] = p]
        /\ waitingPlayer_' = Null
        /\ state_' = [state_ EXCEPT ![p] = "kConnected"]
        /\ UNCHANGED <<input, currentTurn, figures>>
    BY <1>4 DEF joins, nobodyWaits
  <2>3. TypeOK'
    BY <2>1, <2>2 DEF GameInv, TypeOK, figures
  <2>4. /\ room'[p] = p /\ room'[w] = p /\ p1'[p] = w
        /\ rival(p)' = w /\ rival(w)' = p
    <3>1. room'[p] = p /\ room'[w] = p /\ p1'[p] = w
      BY <2>1, <2>2 DEF GameInv, TypeOK
    <3> QED
      BY <2>1, <3>1 DEF rival
  <2>5. ASSUME NEW x \in Players \ {p, w}
        PROVE  /\ room'[x] = room[x] /\ state_'[x] = state_[x]
               /\ room[x] # Null =>
                    /\ room[x] # p
                    /\ rival(x)' = rival(x)
                    /\ rival(x) \in Players \ {p, w, x}
                    /\ room[rival(x)] = room[x]
                    /\ rival(rival(x)) = x
    <3>1. room'[x] = room[x] /\ state_'[x] = state_[x] /\ p1'[x] = p1[x]
      BY <2>1, <2>2 DEF GameInv, TypeOK
    <3>2. ASSUME room[x] # Null
          PROVE  /\ rival(x) \in Players \ {p, w, x}
                 /\ room[rival(x)] = room[x]
                 /\ rival(rival(x)) = x
                 /\ room[x] # p
      <4>1. /\ rival(x) \in Players \ {x} /\ room[rival(x)] = room[x]
            /\ rival(rival(x)) = x
        BY <3>2 DEF GameInv, RoomsPaired
      <4>2. rival(x) # p /\ rival(x) # w
        BY <2>1, <3>2, <4>1
      <4> QED
        BY <4>1, <4>2 DEF rival
    <3> QED
      BY <3>1, <3>2 DEF rival
  <2>6. RoomsPaired'
    <3>1. ASSUME NEW x \in Players, room'[x] # Null
          PROVE  /\ rival(x)' \in Players \ {x}
                 /\ room'[rival(x)'] = room'[x]
                 /\ (rival(rival(x)))' = x
      <4>1. CASE x \in {p, w}
        BY <2>1, <2>4, <4>1 DEF rival
      <4>2. CASE x \notin {p, w}
        <5>1. /\ room[x] # Null /\ rival(x)' = rival(x)
              /\ rival(x) \in Players \ {p, w, x}
          BY <2>5, <3>1, <4>2
        <5>2. room'[rival(x)] = room[x] /\ room'[x] = room[x]
          BY <2>5, <4>2, <5>1
        <5>3. (rival(rival(x)))' = rival(rival(x))
          BY <2>2, <5>1, <5>2, <2>1, <4>2, <2>5 DEF rival, GameInv, TypeOK
        <5> QED
          BY <2>5, <4>2, <5>1, <5>2, <5>3
      <4> QED
        BY <4>1, <4>2
    <3>2. rooms_' \subseteq {x \in Players : room'[x] = x}
      <4>1. ASSUME NEW x \in rooms_
            PROVE  x \in Players /\ room'[x] = x
        BY <2>1, <2>5 DEF GameInv, RoomsPaired
      <4> QED
        BY <2>2, <2>4, <4>1
    <3>3. ASSUME NEW x \in Players, state_'[x] # "kConnecting"
          PROVE  room'[x] = Null <=> waitingPlayer_' = x
      <4>1. CASE x \in {p, w}
        BY <2>1, <2>2, <2>4, <4>1
      <4>2. CASE x \notin {p, w}
        BY <2>2, <2>5, <3>3, <4>2 DEF GameInv, RoomsPaired
      <4> QED
        BY <4>1, <4>2
    <3> QED
      BY <3>1, <3>2, <3>3 DEF RoomsPaired
  <2>7. GameOver'
    <3>1. ASSUME NEW x \in Players, room'[x] # Null
          PROVE  IF room'[x] \in rooms_'
                 THEN hp[x] > 0
                 ELSE /\ hp[x] = 0 <=> hp[rival(x)'] > 0
                      /\ state_'[x] \in {"kDisconnecting", "kDisconnected"}
      <4>1. CASE x \in {p, w}
        BY <2>1, <2>2, <2>4, <4>1
      <4>2. CASE x \notin {p, w}
        <5>1. /\ room[x] # Null /\ room'[x] = room[x] /\ rival(x)' = rival(x)
              /\ state_'[x] = state_[x] /\ room[x] # p
          BY <2>5, <3>1, <4>2
        <5> QED
          BY <2>2, <5>1 DEF GameInv, GameOver
      <4> QED
        BY <4>1, <4>2
    <3> QED
      BY <2>2, <3>1 DEF GameOver, figures
  <2>8. \A x \in Players :
          /\ state_'[x] = "kConnecting" => room'[x] = Null
          /\ room'[x] = Null => hp'[x] > 0
    BY <2>1, <2>2, <2>4, <2>5 DEF GameInv, figures, TypeOK
  <2> QED
    BY <2>2, <2>3, <2>6, <2>7, <2>8 DEF GameInv
<1>5. CASE leaves(p)
  <2>1. Same /\ UNCHANGED waitingPlayer_
        /\ state_[p] \in {"kConnected", "kDisconnecting"}
        /\ state_' = [state_ EXCEPT ![p] = "kDisconnected"]
    BY <1>5 DEF leaves, Receiving, lobby
  <2>2. TypeOK'
    BY <1>5 DEF leaves, lobby, GameInv, TypeOK, figures
  <2>3. \A x \in Players :
          /\ state_'[x] = "kConnecting" <=> state_[x] = "kConnecting"
          /\ state_[x] \in {"kDisconnecting", "kDisconnected"}
             => state_'[x] \in {"kDisconnecting", "kDisconnected"}
    BY <2>1 DEF GameInv, TypeOK
  <2>4. RoomsPaired'
    BY <2>1, <2>3 DEF GameInv, RoomsPaired, rival
  <2>5. GameOver'
    BY <2>1, <2>3 DEF GameInv, GameOver, rival, figures
  <2> QED
    BY <2>1, <2>2, <2>3, <2>4, <2>5 DEF GameInv, TypeOK, figures
<1>6. UNCHANGED <<currentTurn, figures>> /\ rooms_ \subseteq rooms_'
  BY <1>2 DEF waits, joins, leaves, NoCommand
<1> QED
  BY <1>2, <1>3, <1>4, <1>5, <1>6 DEF NoCommand

-----------------------------------------------------------------------------
(* Theorems.                                                               *)

\* GameInv is inductive, and a step that ends a turn or a game has used up
\* something of what the two players had left.
LEMMA StepPreserves ==
  ASSUME GameInv, [Next]_vars
  PROVE  GameInv' /\ TurnsUseUp
<1>1. ASSUME NEW p \in Players, NoCommand(p)
      PROVE  GameInv' /\ UNCHANGED currentTurn /\ rooms_ \subseteq rooms_'
  BY <1>1, OtherStepsPreserve
<1>2. CASE UNCHANGED vars
  <2>1. TypeOK' /\ UNCHANGED currentTurn /\ UNCHANGED rooms_
    BY <1>2 DEF GameInv, TypeOK, vars, lobby, figures
  <2>2. GameInv'
    BY <1>2
    DEF vars, lobby, figures, GameInv, TypeOK, RoomsPaired, GameOver, rival
  <2> QED
    BY <2>1, <2>2 DEF TurnsUseUp
<1>3. ASSUME NEW p \in Players, NEW byte \in Bytes, onMessage(p, byte)
      PROVE  GameInv' /\ TurnsUseUp
  BY <1>3, OnMessagePreserves
<1>4. CASE Next
  <2>1. PICK p \in Players :
          \/ NoCommand(p)
          \/ \E byte \in Bytes : onMessage(p, byte)
    BY <1>4 DEF Next, NoCommand
  <2>2. CASE \E byte \in Bytes : onMessage(p, byte)
    BY <1>3, <2>2
  <2> QED
    BY <1>1, <2>1, <2>2 DEF TurnsUseUp
<1> QED
  BY <1>2, <1>4

\* A step that carries no command out gives nobody another game.
LEMMA OtherStepsKeepGames ==
  ASSUME GameInv, NEW p \in Players, NoCommand(p),
         NEW x \in Players
  PROVE  KeepsGame(x)
<1> USE GameAssumption
<1> SUFFICES ASSUME room[x] # Null  PROVE KeepsGame(x)
  BY DEF KeepsGame
<1>1. CASE joins(p)
  <2>1. /\ rooms_' = rooms_ \cup {p}
        /\ p1' = [p1 EXCEPT ![p] = waitingPlayer_]
        /\ room' = [room EXCEPT ![p] = p, ![waitingPlayer_] = p]
        /\ waitingPlayer_ # Null /\ state_[p] = "kConnecting"
    BY <1>1 DEF joins
  <2>2. /\ waitingPlayer_ \in Players
        /\ room[waitingPlayer_] = Null /\ room[p] = Null
    BY <2>1 DEF GameInv, TypeOK, RoomsPaired
  <2>3. x # p /\ x # waitingPlayer_
    BY <2>2
  <2>4. room[x] # p
    <3>1. rival(x) \in Players /\ room[rival(x)] = room[x]
      BY RoomFacts
    <3> QED
      BY <2>2, <2>3, <3>1 DEF rival
  <2>5. room'[x] = room[x] /\ p1'[x] = p1[x]
    BY <2>1, <2>2, <2>3 DEF GameInv, TypeOK
  <2> QED
    BY <2>1, <2>4, <2>5 DEF rival, KeepsGame
<1>2. CASE ~joins(p)
  <2>1. UNCHANGED <<room, p1, rooms_>>
    BY <1>2
    DEF NoCommand, waits, leaves, onMessageOutside, onMessageRefused, lobby
  <2> QED
    BY <2>1 DEF rival, KeepsGame
<1> QED
  BY <1>1, <1>2

\* A command that is carried out touches the two players of one room, each as
\* his turn allows.
LEMMA OnMessageTakesTurn ==
  ASSUME GameInv, NEW p \in Players, NEW byte \in Bytes, onMessage(p, byte),
         NEW x \in Players
  PROVE  ActsInTurn(x) /\ KeepsGame(x)
<1> DEFINE r == room[p]
           q == opponentPlayer(r)
<1>1. /\ r \in rooms_ /\ p = currentPlayer(r) /\ play(p, q, command(p, byte))
      /\ UNCHANGED <<p1, room>> /\ q \in Players /\ p # q /\ r \in Players
      /\ room[q] = r /\ \A y \in Players : room[y] = r => y \in {p, q}
  BY OnMessageFacts
<1>2. \/ rooms_' = rooms_ \ {r}
      \/ /\ rooms_' = rooms_
         /\ currentTurn' = [currentTurn EXCEPT ![r] = 1 - currentTurn[r]]
  BY OnMessageFacts
<1>3. currentTurn \in [Players -> {0, 1}] /\ hp[x] \in Nat /\ TypeOK
  BY GameAssumption DEF GameInv, TypeOK
<1>4. room[p] = r
  OBVIOUS
<1> HIDE DEF r, q
<1>5. r \in rooms_ \ rooms_' \/ currentTurn'[r] # currentTurn[r]
  BY <1>1, <1>2, <1>3
<1>6. /\ hp'[p] >= hp[p] /\ hp'[q] <= hp[q]
      /\ \A y \in Players \ {p} :
           UNCHANGED <<mp[y], hpPotion[y], mpPotion[y]>>
      /\ \A y \in Players \ {p, q} : UNCHANGED figuresOf(y)
  BY <1>1, <1>3, PlayTouches
<1>7. KeepsGame(x)
  BY <1>1, <1>2 DEF KeepsGame, rival
<1>8. CASE room[x] = r
  BY <1>1, <1>4, <1>5, <1>6, <1>7, <1>8 DEF ActsInTurn
<1>9. CASE room[x] # r
  <2>1. UNCHANGED figuresOf(x)
    BY <1>1, <1>4, <1>6, <1>9
  <2>2. hp'[x] = hp[x] /\ UNCHANGED <<mp[x], hpPotion[x], mpPotion[x]>>
    BY <2>1 DEF figuresOf
  <2> QED
    BY <1>3, <1>7, <2>1, <2>2 DEF ActsInTurn
<1> QED
  BY <1>7, <1>8, <1>9

\* The same of every step.
LEMMA StepIsTurn ==
  ASSUME GameInv, Next, NEW x \in Players
  PROVE  ActsInTurn(x) /\ KeepsGame(x)
<1>1. ASSUME NEW p \in Players, NoCommand(p)
      PROVE  ActsInTurn(x) /\ KeepsGame(x)
  <2>1. UNCHANGED figures
    BY <1>1, OtherStepsPreserve
  <2>2. UNCHANGED figuresOf(x) /\ hp'[x] = hp[x] /\ hp[x] \in Nat
    BY <2>1, GameAssumption DEF figures, figuresOf, GameInv, TypeOK
  <2>3. UNCHANGED <<mp[x], hpPotion[x], mpPotion[x]>>
    BY <2>1 DEF figures
  <2>4. KeepsGame(x)
    BY <1>1, OtherStepsKeepGames
  <2> QED
    BY <2>2, <2>3, <2>4 DEF ActsInTurn
<1> QED
  BY <1>1, OnMessageTakesTurn DEF Next, NoCommand

\* The invariant holds in every reachable state, for any number of players and
\* any figures (game.cc:83-315).
THEOREM Invariance == Spec => []GameInv
<1>1. GameInv /\ [Next]_vars => GameInv'
  BY StepPreserves
<1> QED
  BY InitEstablishes, <1>1, PTL DEF Spec

\* Health, magic and potions stay within their limits, and the lobby and the
\* rooms are as declared (game.cc:25-68, 232-239).
THEOREM TypeCorrect == Spec => []TypeOK
<1>1. GameInv => TypeOK
  BY DEF GameInv
<1> QED
  BY Invariance, <1>1, PTL

\* However many players come and leave, in whatever order, rooms are pairs and
\* only one player waits (game.cc:289-313).
THEOREM Paired == Spec => []RoomsPaired
<1>1. GameInv => RoomsPaired
  BY DEF GameInv
<1> QED
  BY Invariance, <1>1, PTL

\* A room is played in while both of its players live, and is closed with
\* exactly one of them dead (game.cc:154-187, 282-287).
THEOREM OverWhenDead == Spec => []GameOver
<1>1. GameInv => GameOver
  BY DEF GameInv
<1> QED
  BY Invariance, <1>1, PTL

\* Whatever the damage, the potions and their effects: a turn uses something
\* up, so a game ends after a bounded number of turns (game.cc:86-167).
THEOREM Progress == Spec => GameProgress
<1>1. GameInv /\ [Next]_vars => [TurnsUseUp]_vars
  BY StepPreserves
<1> QED
  BY Invariance, <1>1, PTL DEF Spec, GameProgress

\* A player does nothing out of his turn and takes one turn at a time, whatever
\* arrives from whom (game.cc:91-185, 259-285).
THEOREM InTurn == Spec => PlayedInTurn
<1>1. GameInv /\ [Next]_vars => [\A p \in Players : ActsInTurn(p)]_vars
  BY StepIsTurn
<1> QED
  BY Invariance, <1>1, PTL DEF Spec, PlayedInTurn

\* A player is in one game, with one opponent, and a game that is over is not
\* taken up again (game.cc:279-309).
THEOREM OneGame == Spec => OneGameEach
<1>1. GameInv /\ [Next]_vars => [\A p \in Players : KeepsGame(p)]_vars
  BY StepIsTurn
<1> QED
  BY Invariance, <1>1, PTL DEF Spec, OneGameEach
================================================================================

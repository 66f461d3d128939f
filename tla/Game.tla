--------------------------------- MODULE Game ---------------------------------
(***************************************************************************)
(* The game server of src/example/game.cc on its one loop: connections     *)
(* become players, players are put into rooms two by two, and a room takes *)
(* the first byte of each message as a command until one player is dead.   *)
(* Handlers run one after another, so each is one step.  Texts sent to the *)
(* players are left out.                                                   *)
(***************************************************************************)
EXTENDS Integers

CONSTANTS
  Players,         \* one for each connection
  Null,
  MaxHp, MaxMp,    \* the limits, with which a player starts
  NormalDamage, MagicDamage,  \* what randomNum may return
  MagicCost,
  hpPotionEffect, mpPotionEffect,
  Potions          \* of each kind, to start with

ASSUME GameAssumption ==
  /\ Null \notin Players
  /\ {MaxHp, MagicCost} \subseteq Nat \ {0}
  /\ {MaxMp, hpPotionEffect, mpPotionEffect, Potions} \subseteq Nat
  /\ NormalDamage \cup MagicDamage \subseteq Nat \ {0}

VARIABLES
  state_,          \* of each connection
  input,           \* the first byte waiting in its inputBuffer_, or Null
  waitingPlayer_,
  rooms_,          \* a room is known by p2, whose arrival creates it
  p1,              \* of each room
  currentTurn,     \* of each room
  room,            \* of each player: the weak_ptr
  hp, mp, hpPotion, mpPotion

figures == <<hp, mp, hpPotion, mpPotion>>
lobby == <<waitingPlayer_, p1, room>>
vars == <<state_, input, rooms_, currentTurn, lobby, figures>>

\* The commands, and any other byte.
Bytes == {"a", "b", "h", "m", "other"}

TypeOK ==
  /\ state_ \in [Players -> {"kConnecting", "kConnected", "kDisconnecting",
                             "kDisconnected"}]
  /\ input \in [Players -> Bytes \cup {Null}]
  /\ waitingPlayer_ \in Players \cup {Null}
  /\ rooms_ \subseteq Players
  /\ p1 \in [Players -> Players \cup {Null}]
  /\ currentTurn \in [Players -> {0, 1}]
  /\ room \in [Players -> Players \cup {Null}]
  /\ hp \in [Players -> 0 .. MaxHp]
  /\ mp \in [Players -> 0 .. MaxMp]
  /\ hpPotion \in [Players -> 0 .. Potions]
  /\ mpPotion \in [Players -> 0 .. Potions]

Init ==
  /\ state_ = [p \in Players |-> "kConnecting"]
  /\ input = [p \in Players |-> Null]
  /\ waitingPlayer_ = Null
  /\ rooms_ = {}
  /\ p1 = [p \in Players |-> Null]
  /\ currentTurn = [p \in Players |-> 0]
  /\ room = [p \in Players |-> Null]
  /\ hp = [p \in Players |-> MaxHp]
  /\ mp = [p \in Players |-> MaxMp]
  /\ hpPotion = [p \in Players |-> Potions]
  /\ mpPotion = [p \in Players |-> Potions]

-----------------------------------------------------------------------------
(* GameRoom.                                                               *)

currentPlayer(r) == IF currentTurn[r] = 0 THEN p1[r] ELSE r
opponentPlayer(r) == IF currentTurn[r] = 0 THEN r ELSE p1[r]

\* What is left of n when d is taken, and what n becomes when d is added,
\* up to the limit.
\* Mutant: std::max is missing.
minus(n, d) == n - d
reduced(n, d) == IF d < n THEN n - d ELSE 0
raised(n, d, limit) == IF n + d < limit THEN n + d ELSE limit

dead(health) == health <= 0
hit(q, d) == hp' = [hp EXCEPT ![q] = reduced(@, d)]

\* Mutant: the potion stays.
keepsPotion(p) == UNCHANGED hpPotion
takesPotion(p) == hpPotion' = [hpPotion EXCEPT ![p] = @ - 1]

\* The effect of a command of p against q.
attack(p, q) ==
  /\ \E d \in NormalDamage : hit(q, d)
  /\ UNCHANGED <<mp, hpPotion, mpPotion>>

magic(p, q) ==
  /\ mp[p] >= MagicCost
  /\ mp' = [mp EXCEPT ![p] = @ - MagicCost]
  /\ \E d \in MagicDamage : hit(q, d)
  /\ UNCHANGED <<hpPotion, mpPotion>>

drinkHp(p) ==
  /\ hpPotion[p] > 0
  /\ takesPotion(p)
  /\ hp' = [hp EXCEPT ![p] = raised(@, hpPotionEffect, MaxHp)]
  /\ UNCHANGED <<mp, mpPotion>>

drinkMp(p) ==
  /\ mpPotion[p] > 0
  /\ mpPotion' = [mpPotion EXCEPT ![p] = @ - 1]
  /\ mp' = [mp EXCEPT ![p] = raised(@, mpPotionEffect, MaxMp)]
  /\ UNCHANGED <<hp, hpPotion>>

play(p, q, cmd) ==
  \/ cmd = "a" /\ attack(p, q)
  \/ cmd = "b" /\ magic(p, q)
  \/ cmd = "h" /\ drinkHp(p)
  \/ cmd = "m" /\ drinkMp(p)

\* shutdown() of both connections, of which one may be gone.
shutdownOf(s) == IF s = "kConnected" THEN "kDisconnecting" ELSE s

\* Mutant: only the loser's connection is shut down.
shutsLoser(p, q) == state_' = [state_ EXCEPT ![q] = shutdownOf(@)]
shutsBoth(p, q) ==
  state_' = [state_ EXCEPT ![p] = shutdownOf(@), ![q] = shutdownOf(@)]

\* After a command that was carried out: checkGameOver, upon which onMessage
\* takes the room off the list, or switchTurn.
endTurn(r, p, q) ==
  \/ /\ dead(hp'[p]) \/ dead(hp'[q])
     /\ shutsBoth(p, q)
     /\ rooms_' = rooms_ \ {r}
     /\ UNCHANGED currentTurn
  \/ /\ ~dead(hp'[p]) /\ ~dead(hp'[q])
     /\ currentTurn' = [currentTurn EXCEPT ![r] = 1 - @]
     /\ UNCHANGED <<state_, rooms_>>

-----------------------------------------------------------------------------
(* GameServer.                                                             *)

\* The commands a room carries out; the others it answers and forgets.
Accepted(p, cmd) ==
  /\ p = currentPlayer(room[p])
  /\ \/ cmd = "a"
     \/ cmd = "b" /\ mp[p] >= MagicCost
     \/ cmd = "h" /\ hpPotion[p] > 0
     \/ cmd = "m" /\ mpPotion[p] > 0

\* A message that begins with "byte" joins what the buffer holds, of which
\* the first byte is the command and the rest is thrown away.
command(p, byte) == IF input[p] = Null THEN byte ELSE input[p]

Receiving(p) == state_[p] \in {"kConnected", "kDisconnecting"}

\* onMessage, for a player without a room: the message stays in the buffer.
onMessageOutside(p, byte) ==
  /\ Receiving(p)
  /\ room[p] \notin rooms_
  /\ input' = [input EXCEPT ![p] = command(p, byte)]
  /\ UNCHANGED <<state_, rooms_, currentTurn, lobby, figures>>

\* For a player in a room: the command is carried out, or not.
onMessageRefused(p, byte) ==
  /\ Receiving(p)
  /\ room[p] \in rooms_
  /\ ~Accepted(p, command(p, byte))
  /\ input' = [input EXCEPT ![p] = Null]
  /\ UNCHANGED <<state_, rooms_, currentTurn, lobby, figures>>

onMessage(p, byte) ==
  /\ Receiving(p)
  /\ room[p] \in rooms_
  /\ Accepted(p, command(p, byte))
  /\ input' = [input EXCEPT ![p] = Null]
  /\ LET q == opponentPlayer(room[p])
     IN play(p, q, command(p, byte)) /\ endTurn(room[p], p, q)
  /\ UNCHANGED lobby

\* onConnection, up: the new player waits,
waits(p) ==
  /\ state_[p] = "kConnecting"
  /\ waitingPlayer_ = Null
  /\ waitingPlayer_' = p
  /\ state_' = [state_ EXCEPT ![p] = "kConnected"]
  /\ UNCHANGED <<input, rooms_, p1, currentTurn, room, figures>>

\* or plays with the one that waits, gone or not.
\* Mutant: waitingPlayer_ is not reset.
staysWaiting == UNCHANGED waitingPlayer_
nobodyWaits == waitingPlayer_' = Null

joins(p) ==
  /\ state_[p] = "kConnecting"
  /\ waitingPlayer_ # Null
  /\ rooms_' = rooms_ \cup {p}
  /\ p1' = [p1 EXCEPT ![p] = waitingPlayer_]
  /\ room' = [room EXCEPT ![p] = p, ![waitingPlayer_] = p]
  /\ nobodyWaits
  /\ state_' = [state_ EXCEPT ![p] = "kConnected"]
  /\ UNCHANGED <<input, currentTurn, figures>>

\* onConnection, down: only a line in the log.
leaves(p) ==
  /\ Receiving(p)
  /\ state_' = [state_ EXCEPT ![p] = "kDisconnected"]
  /\ UNCHANGED <<input, rooms_, currentTurn, lobby, figures>>

Next ==
  \E p \in Players :
    \/ waits(p)
    \/ joins(p)
    \/ leaves(p)
    \/ \E byte \in Bytes :
         \/ onMessageOutside(p, byte)
         \/ onMessageRefused(p, byte)
         \/ onMessage(p, byte)

Spec == Init /\ [][Next]_vars

-----------------------------------------------------------------------------
(* Properties.                                                             *)

\* The other player of p's room.
rival(p) == IF room[p] = p THEN p1[p] ELSE room[p]

\* Players are paired: two different players share a room, which both point
\* to; nobody gets into a second one, and only one who came alone waits, in
\* whatever order players come and leave (game.cc:289-313).
RoomsPaired ==
  /\ \A p \in Players : room[p] # Null =>
       /\ rival(p) \in Players \ {p}
       /\ room[rival(p)] = room[p]
       /\ rival(rival(p)) = p
  /\ rooms_ \subseteq {p \in Players : room[p] = p}
  /\ \A p \in Players : state_[p] # "kConnecting" =>
       (room[p] = Null <=> waitingPlayer_ = p)

\* The game is over when a player's health is 0, and not before: in a room on
\* the list both players live; in one that was taken off exactly one does, and
\* both connections are closing or closed, so no room is played on with
\* (game.cc:22-23, 86-90, 154-187, 282-287).
GameOver ==
  \A p \in Players : room[p] # Null =>
    IF room[p] \in rooms_
    THEN hp[p] > 0
    ELSE /\ hp[p] = 0 <=> hp[rival(p)] > 0
         /\ state_[p] \in {"kDisconnecting", "kDisconnected"}

\* After any message, arrival or departure, rooms, health and the one who waits
\* fit together; who has not come or has no room yet is unharmed and has not
\* been paired (game.cc:83-190, 259-315).
GameInv ==
  /\ TypeOK
  /\ RoomsPaired
  /\ GameOver
  /\ waitingPlayer_ # Null => state_[waitingPlayer_] # "kConnecting"
  /\ \A p \in Players :
       /\ state_[p] = "kConnecting" => room[p] = Null
       /\ room[p] = Null => hp[p] > 0

\* Every command that is carried out brings the end of the game nearer, since
\* potions run out: no game goes on for ever while commands are given, and the
\* number of turns is bounded by what the players start with
\* (game.cc:86-167).
Left(p) == hp[p] + (hpPotionEffect + 1) * hpPotion[p] + mpPotion[p]

TurnsUseUp ==
  \A r \in rooms_ :
    (r \notin rooms_' \/ currentTurn'[r] # currentTurn[r])
    => Left(r)' + Left(p1[r])' < Left(r) + Left(p1[r])

GameProgress == [][TurnsUseUp]_vars

\* Only the player whose turn it is acts, and once: outside a room on the list
\* nothing happens to anybody; inside, the one who waits for his turn keeps his
\* magic and potions and may only lose health, the other loses none, and
\* whatever happens to either ends the turn, or the game, in the same step
\* (game.cc:91-185, 259-285).
figuresOf(p) == <<hp[p], mp[p], hpPotion[p], mpPotion[p]>>

ActsInTurn(p) ==
  /\ \/ UNCHANGED figuresOf(p)
     \/ room[p] \in rooms_ \ rooms_'
     \/ room[p] \in rooms_ /\ currentTurn'[room[p]] # currentTurn[room[p]]
  /\ room[p] \in rooms_ =>
       IF p = currentPlayer(room[p])
       THEN hp'[p] >= hp[p]
       ELSE hp'[p] <= hp[p] /\ UNCHANGED <<mp[p], hpPotion[p], mpPotion[p]>>

PlayedInTurn == [][\A p \in Players : ActsInTurn(p)]_vars

\* A player has one game: once in a room he never gets another one, nor another
\* opponent, and a room that was taken off the list does not come back
\* (game.cc:279-309).
KeepsGame(p) ==
  room[p] # Null =>
    /\ room'[p] = room[p] /\ rival(p)' = rival(p)
    /\ room[p] \notin rooms_ => room[p] \notin rooms_'

OneGameEach == [][\A p \in Players : KeepsGame(p)]_vars
===============================================================================

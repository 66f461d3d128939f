----------------------------- MODULE OutputProofs -----------------------------
(***************************************************************************)
(* Proofs about Output, for any sizes of the buffer, any bytes and any     *)
(* strings sent.  What append and retrieve do to the readable bytes is     *)
(* taken from BufferProofs.                                                *)
(***************************************************************************)
EXTENDS Output, SequenceTheorems, TLAPS

BP == INSTANCE BufferProofs WITH
  ExtraBuf <- 0, MaxReadable <- MaxAccepted, buf <- outputBuffer_

\* The operators BufferProofs speaks of are the ones Output uses.
LEMMA SameOperators ==
  /\ \A b : BP!Valid(b) <=> B!Valid(b)
  /\ \A b : BP!Contents(b) = B!Contents(b)
  /\ \A b : BP!readableBytes(b) = B!readableBytes(b)
  /\ \A b, n : BP!retrieve(b, n) = B!retrieve(b, n)
  /\ \A b, d : BP!append(b, d) = B!append(b, d)
<1> USE DEF BP!writableBytes, B!writableBytes, BP!readableBytes,
        B!readableBytes, BP!Contents, B!Contents, BP!perpendableBytes,
        B!perpendableBytes
<1>1. \A b : BP!Valid(b) <=> B!Valid(b)
  BY DEF B!Valid, BP!Valid, B!Buffers, BP!Buffers
<1>2. \A b, n : BP!retrieve(b, n) = B!retrieve(b, n)
  BY DEF B!retrieve, BP!retrieve, B!retrieveAll, BP!retrieveAll
<1>3. \A v, at, d : BP!Copied(v, at, d) = B!Copied(v, at, d)
  BY DEF B!Copied, BP!Copied
<1>4. \A v, n : BP!Resized(v, n) = B!Resized(v, n)
  BY DEF B!Resized, BP!Resized
<1>5. \A b, n : BP!makeSpace(b, n) = B!makeSpace(b, n)
  BY <1>3, <1>4
     DEF B!makeSpace, BP!makeSpace, BP!mustGrow, B!mustGrow, BP!movedDown,
         B!movedDown
<1>6. \A b, d : BP!append(b, d) = B!append(b, d)
  BY <1>3, <1>5
     DEF BP!append, B!append, BP!written, B!written,
         BP!ensureWriteableBytes, B!ensureWriteableBytes
<1> QED
  BY <1>1, <1>2, <1>6

\* The assumptions of Output are those of Buffer.
LEMMA BufferConstants ==
  /\ kCheapPrepend \in Nat /\ kInitiaSize \in Nat /\ MaxAccepted \in Nat
  /\ highWaterMark_ \in Nat /\ 0 \in Nat
  /\ Zero \in Bytes /\ Data \subseteq Seq(Bytes)
  BY OutputAssumption

\* The readable bytes of a valid buffer.
LEMMA PendingFacts ==
  ASSUME NEW b, B!Valid(b)
  PROVE  /\ B!Contents(b) \in Seq(Bytes)
         /\ Len(B!Contents(b)) \in Nat
         /\ Len(B!Contents(b)) = B!readableBytes(b)
         /\ B!Contents(b) = <<>> <=> B!readableBytes(b) = 0
<1>1. BP!Valid(b)
  BY SameOperators
<1>2. /\ BP!Contents(b) \in Seq(Bytes)
      /\ Len(BP!Contents(b)) = b.writeIndex_ - b.readerIndex_
  BY <1>1, BufferConstants, BP!ContentsFacts, Zenon
<1>3. B!Contents(b) \in Seq(Bytes) /\ Len(B!Contents(b)) = B!readableBytes(b)
  BY <1>2, SameOperators DEF B!readableBytes
<1> QED
  BY <1>3, EmptySeq, LenProperties

\* append adds d at the end.
LEMMA AppendFacts ==
  ASSUME NEW b, B!Valid(b), NEW d \in Seq(Bytes)
  PROVE  /\ B!Valid(B!append(b, d))
         /\ B!Contents(B!append(b, d)) = B!Contents(b) \o d
<1>1. BP!Valid(b)
  BY SameOperators
<1>2. LET e == BP!append(b, d)
      IN BP!Valid(e) /\ BP!Contents(e) = BP!Contents(b) \o d
  BY <1>1, BufferConstants, BP!AppendFacts, Zenon
<1> QED
  BY <1>2, SameOperators

\* retrieve takes len bytes, or all there are.
LEMMA RetrieveFacts ==
  ASSUME NEW b, B!Valid(b), NEW len \in Nat
  PROVE  /\ B!Valid(B!retrieve(b, len))
         /\ B!Contents(B!retrieve(b, len)) =
              IF len < Len(B!Contents(b))
              THEN SubSeq(B!Contents(b), len + 1, Len(B!Contents(b)))
              ELSE <<>>
<1>1. BP!Valid(b)
  BY SameOperators
<1>2. /\ BP!Valid(BP!retrieve(b, len))
      /\ len < BP!readableBytes(b) =>
           BP!Contents(BP!retrieve(b, len))
             = SubSeq(BP!Contents(b), len + 1, Len(BP!Contents(b)))
      /\ len >= BP!readableBytes(b) =>
           BP!Contents(BP!retrieve(b, len)) = <<>>
  BY <1>1, BufferConstants, BP!RetrieveFacts, Zenon
<1> QED
  BY <1>2, SameOperators, PendingFacts

\* Concatenation of strings of bytes.
LEMMA Regroup ==
  \A s, t, u \in Seq(Bytes) : (s \o t) \o u = s \o (t \o u)
<1> SUFFICES ASSUME NEW s \in Seq(Bytes), NEW t \in Seq(Bytes),
                    NEW u \in Seq(Bytes)
             PROVE  (s \o t) \o u = s \o (t \o u)
  OBVIOUS
<1> QED
  BY ConcatAssociative

\* A string is what is taken of it and the rest.
LEMMA Split ==
  ASSUME NEW d \in Seq(Bytes), NEW n \in 0 .. Len(d)
  PROVE  /\ Upto(d, n) \in Seq(Bytes)
         /\ From(d, n) \in Seq(Bytes)
         /\ Len(From(d, n)) = Len(d) - n
         /\ Upto(d, n) \o From(d, n) = d
<1>1. Len(d) \in Nat
  BY LenProperties
<1>2. /\ Upto(d, n) \in Seq(Bytes) /\ Len(Upto(d, n)) = n
      /\ \A i \in 1 .. n : Upto(d, n)[i] = d[i]
  BY <1>1, SubSeqProperties DEF Upto
<1>3. /\ From(d, n) \in Seq(Bytes) /\ Len(From(d, n)) = Len(d) - n
      /\ \A i \in 1 .. Len(d) - n : From(d, n)[i] = d[n + i]
  BY <1>1, SubSeqProperties DEF From
<1>4. Upto(d, n) \o From(d, n) = d
  <2>1. /\ 1 \in 1 .. Len(d) + 1 /\ n \in 1 - 1 .. Len(d)
        /\ Len(d) \in n .. Len(d)
    BY <1>1
  <2>2. SubSeq(d, 1, n) \o SubSeq(d, n + 1, Len(d)) = SubSeq(d, 1, Len(d))
    BY <2>1, ConcatAdjacentSubSeq, Zenon
  <2> QED
    BY <2>2, SubSeqFull, Zenon DEF Upto, From
<1> QED
  BY <1>2, <1>3, <1>4

\* What is taken of a string.
LEMMA UptoFacts ==
  ASSUME NEW d \in Seq(Bytes), NEW n \in 0 .. Len(d)
  PROVE  /\ Upto(d, n) \in Seq(Bytes) /\ Len(Upto(d, n)) = n
         /\ \A i \in 1 .. n : Upto(d, n)[i] = d[i]
<1>1. Len(d) \in Nat
  BY LenProperties
<1> QED
  BY <1>1, SubSeqProperties DEF Upto

-----------------------------------------------------------------------------
(* The inductive invariant.                                                *)

LEMMA InitEstablishes == Init => OutputInv
<1> SUFFICES ASSUME Init
             PROVE  OutputInv
  OBVIOUS
<1> USE BufferConstants DEF Init
<1>1. B!Valid(outputBuffer_)
  <2>1. B!NewBuffer.buffer_ \in Seq(Bytes)
        /\ Len(B!NewBuffer.buffer_) = kCheapPrepend + kInitiaSize
    BY DEF B!NewBuffer
  <2> QED
    BY <2>1 DEF B!Valid, B!Buffers, B!NewBuffer
<1>2. Pending = <<>>
  <2>1. B!readableBytes(outputBuffer_) = 0
    BY DEF B!readableBytes, B!NewBuffer
  <2> QED
    BY <1>1, <2>1, PendingFacts DEF Pending
<1>3. isWriting \in BOOLEAN /\ fin \in BOOLEAN /\ broken \in BOOLEAN
      /\ warned \in BOOLEAN
  BY Zenon
<1>4. <<>> \in Seq(Bytes) /\ <<>> \o <<>> = <<>>
  BY EmptySeq, ConcatEmptySeq
<1> QED
  BY <1>1, <1>2, <1>3, <1>4
     DEF OutputInv, TypeOK, ArmedWhilePending, ConsumedInOrder,
         FinExactly, WireIntact

\* What keepRest does: rest is appended, EPOLLOUT stays in step, and a warning
\* is given at the mark or above it only.
LEMMA KeepRestFacts ==
  ASSUME OutputInv, NEW rest \in Seq(Bytes), keepRest(rest)
  PROVE  /\ B!Valid(outputBuffer_') /\ Pending' = Pending \o rest
         /\ isWriting' \in BOOLEAN /\ (isWriting' <=> Pending' # <<>>)
         /\ warned' \in BOOLEAN
         /\ warned' => Len(Pending') >= highWaterMark_
<1> USE BufferConstants DEF OutputInv, TypeOK
<1>1. /\ Pending \in Seq(Bytes) /\ Len(Pending) \in Nat
      /\ Len(Pending) = B!readableBytes(outputBuffer_)
  BY PendingFacts DEF Pending
<1>2. Len(rest) \in Nat
  BY LenProperties
<1>3. B!Valid(outputBuffer_') /\ Pending' = Pending \o rest
  <2>1. CASE rest = <<>>
    <3>1. Pending \o rest = Pending
      BY <1>1, <2>1, ConcatEmptySeq
    <3> QED
      BY <2>1, <3>1 DEF keepRest, Pending
  <2>2. CASE rest # <<>>
    BY <2>2, AppendFacts DEF keepRest, Pending
  <2> QED
    BY <2>1, <2>2
<1>4. Len(Pending') = Len(Pending) + Len(rest)
  BY <1>1, <1>3, ConcatProperties
<1>5. isWriting' = (isWriting \/ rest # <<>>)
  BY DEF keepRest, armEpollout
<1>6. isWriting' \in BOOLEAN
  BY <1>5, Zenon
<1>7. isWriting' <=> Pending' # <<>>
  <2>1. Pending \o rest = <<>> <=> Pending = <<>> /\ rest = <<>>
    BY <1>1, ConcatEqualIffEmpty
  <2> QED
    BY <1>3, <1>5, <2>1, Zenon DEF ArmedWhilePending
<1>8. warned' = (warned \/ /\ Len(Pending') > highWaterMark_
                           /\ Len(Pending) < highWaterMark_)
  BY <1>1, <1>2, <1>4 DEF keepRest, crossesMark
<1>9. warned' \in BOOLEAN
  BY <1>8, Zenon
<1>10. warned' => Len(Pending') >= highWaterMark_
  BY <1>1, <1>2, <1>4, <1>8
<1> QED
  BY <1>3, <1>6, <1>7, <1>9, <1>10

\* What write() is given is bytes of the vector, the readable ones first.
LEMMA OfferedFacts ==
  ASSUME NEW b, B!Valid(b), NEW n \in 1 .. Len(B!offered(b))
  PROVE  /\ Upto(B!offered(b), n) \in Seq(Bytes)
         /\ Len(Upto(B!offered(b), n)) = n
         /\ n <= Len(B!Contents(b)) =>
              Upto(B!offered(b), n) = Upto(B!Contents(b), n)
<1>1. /\ b.buffer_ \in Seq(Bytes) /\ b.readerIndex_ \in Nat
      /\ b.writeIndex_ \in Nat /\ Len(b.buffer_) \in Nat
      /\ b.readerIndex_ <= b.writeIndex_ /\ b.writeIndex_ <= Len(b.buffer_)
  BY LenProperties DEF B!Valid, B!Buffers
<1>2. \A i \in b.readerIndex_ + 1 ..
               b.readerIndex_ + (Len(b.buffer_) - b.writeIndex_) :
        b.buffer_[i] \in Bytes
  BY <1>1
<1>3. ASSUME NEW m \in Nat, \A i \in b.readerIndex_ + 1 .. m :
                               b.buffer_[i] \in Bytes
      PROVE  LET s == SubSeq(b.buffer_, b.readerIndex_ + 1, m)
             IN /\ s \in Seq(Bytes)
                /\ \A i \in 1 .. Len(s) : s[i] = b.buffer_[b.readerIndex_ + i]
  <2> DEFINE s == SubSeq(b.buffer_, b.readerIndex_ + 1, m)
  <2>1. b.readerIndex_ + 1 \in Int /\ m \in Int
    BY <1>1
  <2>2. /\ s \in Seq(Bytes)
        /\ Len(s) = IF b.readerIndex_ + 1 <= m
                    THEN m - (b.readerIndex_ + 1) + 1 ELSE 0
        /\ \A i \in 1 .. m - (b.readerIndex_ + 1) + 1 :
             s[i] = b.buffer_[(b.readerIndex_ + 1) + i - 1]
    BY <1>3, <2>1, SubSeqProperties
  <2>3. \A i \in 1 .. Len(s) : i \in 1 .. m - (b.readerIndex_ + 1) + 1
    BY <1>1, <2>2
  <2>4. \A i \in 1 .. Len(s) :
          (b.readerIndex_ + 1) + i - 1 = b.readerIndex_ + i
    BY <1>1
  <2> HIDE DEF s
  <2>5. \A i \in 1 .. Len(s) : s[i] = b.buffer_[b.readerIndex_ + i]
    BY <2>2, <2>3, <2>4
  <2> QED
    BY <2>2, <2>5 DEF s
<1>4. /\ B!offered(b) \in Seq(Bytes)
      /\ \A i \in 1 .. Len(B!offered(b)) :
           B!offered(b)[i] = b.buffer_[b.readerIndex_ + i]
  <2>1. b.readerIndex_ + (Len(b.buffer_) - b.writeIndex_) \in Nat
    BY <1>1
  <2> QED
    BY <1>2, <1>3, <2>1 DEF B!offered, B!writableBytes
<1>5. /\ B!Contents(b) \in Seq(Bytes)
      /\ \A i \in 1 .. Len(B!Contents(b)) :
           B!Contents(b)[i] = b.buffer_[b.readerIndex_ + i]
  <2>1. \A i \in b.readerIndex_ + 1 .. b.writeIndex_ : b.buffer_[i] \in Bytes
    BY <1>1
  <2> QED
    BY <1>1, <1>3, <2>1 DEF B!Contents
<1>6. Upto(B!offered(b), n) \in Seq(Bytes) /\ Len(Upto(B!offered(b), n)) = n
  BY <1>4, UptoFacts
<1>7. ASSUME n <= Len(B!Contents(b))
      PROVE  Upto(B!offered(b), n) = Upto(B!Contents(b), n)
  <2>1. n \in Nat /\ Len(B!Contents(b)) \in Nat /\ Len(B!offered(b)) \in Nat
    BY <1>4, <1>5, LenProperties
  <2>2. n \in 0 .. Len(B!Contents(b)) /\ n \in 0 .. Len(B!offered(b))
    BY <1>7, <2>1
  <2>3. /\ Upto(B!Contents(b), n) \in Seq(Bytes)
        /\ Len(Upto(B!Contents(b), n)) = n
        /\ \A i \in 1 .. n : Upto(B!Contents(b), n)[i] = B!Contents(b)[i]
    BY <1>5, <2>2, UptoFacts
  <2>4. \A i \in 1 .. n : Upto(B!offered(b), n)[i] = B!offered(b)[i]
    BY <1>4, <2>2, UptoFacts
  <2>5. \A i \in 1 .. n :
          i \in 1 .. Len(B!Contents(b)) /\ i \in 1 .. Len(B!offered(b))
    BY <2>1, <2>2
  <2>6. \A i \in 1 .. n : Upto(B!offered(b), n)[i] = Upto(B!Contents(b), n)[i]
    BY <1>4, <1>5, <2>3, <2>4, <2>5
  <2> QED
    BY <1>6, <2>3, <2>6, SeqEqual
<1> QED
  BY <1>6, <1>7

\* Writing x where y is counted keeps the wire intact, if x differs from y
\* only by being longer.
LEMMA WireKept ==
  ASSUME NEW w \in Seq(Bytes), NEW t \in Seq(Bytes),
         NEW x \in Seq(Bytes), NEW y \in Seq(Bytes),
         Len(w) >= Len(t), Len(w) = Len(t) => w = t,
         Len(x) >= Len(y), Len(x) = Len(y) => x = y
  PROVE  /\ Len(w \o x) >= Len(t \o y)
         /\ Len(w \o x) = Len(t \o y) => w \o x = t \o y
<1>1. /\ Len(w) \in Nat /\ Len(t) \in Nat /\ Len(x) \in Nat /\ Len(y) \in Nat
      /\ Len(w \o x) = Len(w) + Len(x) /\ Len(t \o y) = Len(t) + Len(y)
  BY LenProperties, ConcatProperties
<1> QED
  BY <1>1

LEMMA SendPreserves ==
  ASSUME OutputInv, NEW d \in Data, send(d)
  PROVE  OutputInv'
<1>0. taken \in Seq(Bytes)
  BY DEF OutputInv, TypeOK
<1> USE BufferConstants DEF OutputInv, TypeOK, send
<1>1. d \in Seq(Bytes)
  OBVIOUS
<1>2. Len(d) \in Nat
  BY <1>1, LenProperties
<1>3. PICK n \in Direct(d) :
        /\ taken' = taken \o Upto(d, n)
        /\ wire' = wire \o Upto(d, n)
        /\ keepRest(From(d, n))
  BY Zenon
<1>4. n \in 0 .. Len(d)
  BY <1>2, <1>3 DEF Direct
<1>5. /\ Upto(d, n) \in Seq(Bytes) /\ From(d, n) \in Seq(Bytes)
      /\ Upto(d, n) \o From(d, n) = d
  BY <1>1, <1>4, Split
<1>6. /\ B!Valid(outputBuffer_') /\ Pending' = Pending \o From(d, n)
      /\ isWriting' \in BOOLEAN /\ (isWriting' <=> Pending' # <<>>)
      /\ warned' \in BOOLEAN
      /\ warned' => Len(Pending') >= highWaterMark_
  BY <1>3, <1>5, KeepRestFacts, Zenon
<1>7. Pending \in Seq(Bytes)
  BY PendingFacts DEF Pending
<1>8. accepted' = taken' \o Pending'
  <2>1. CASE writesDirectly
    <3>1. Pending = <<>>
      BY <2>1, PendingFacts DEF writesDirectly, Pending
    <3>2. Pending' = From(d, n)
      BY <1>5, <1>6, <3>1, ConcatEmptySeq
    <3>3. accepted = taken
      BY <3>1, ConcatEmptySeq DEF ConsumedInOrder
    <3>4. taken \o d = (taken \o Upto(d, n)) \o From(d, n)
      <4>1. (taken \o Upto(d, n)) \o From(d, n)
              = taken \o (Upto(d, n) \o From(d, n))
        BY <1>0, <1>5, Regroup, Zenon
      <4> QED
        BY <1>5, <4>1, Zenon
    <3> QED
      BY <1>3, <3>2, <3>3, <3>4
  <2>2. CASE ~writesDirectly
    <3>1. n = 0
      BY <1>3, <2>2 DEF Direct
    <3>2. Upto(d, n) = <<>> /\ From(d, n) = d
      BY <1>1, <1>2, <3>1, SubSeqEmpty, SubSeqFull DEF Upto, From
    <3>3. taken' = taken
      BY <1>3, <3>2, ConcatEmptySeq
    <3>4. (taken \o Pending) \o d = taken \o (Pending \o d)
      BY <1>1, <1>7, <1>0, Regroup, Zenon
    <3> QED
      BY <1>6, <3>2, <3>3, <3>4 DEF ConsumedInOrder
  <2> QED
    BY <2>1, <2>2
<1>9. TypeOK'
  <2>1. {accepted', taken', wire'} \subseteq Seq(Bytes)
    BY <1>1, <1>3, <1>5, ConcatProperties
  <2> QED
    BY <1>6, <2>1
<1>10. ~fin' /\ state_' = "kConnected"
  BY DEF FinExactly
<1>11. WireIntact'
  <2>1. /\ Len(Upto(d, n)) >= Len(Upto(d, n)) /\ wire \in Seq(Bytes)
        /\ Len(wire) >= Len(taken) /\ (Len(wire) = Len(taken) => wire = taken)
    BY <1>5, LenProperties DEF WireIntact
  <2>2. /\ Len(wire \o Upto(d, n)) >= Len(taken \o Upto(d, n))
        /\ Len(wire \o Upto(d, n)) = Len(taken \o Upto(d, n)) =>
             wire \o Upto(d, n) = taken \o Upto(d, n)
    BY <1>0, <1>5, <2>1, WireKept
  <2> QED
    BY <1>3, <2>2 DEF WireIntact
<1> QED
  BY <1>6, <1>8, <1>9, <1>10, <1>11
     DEF ArmedWhilePending, ConsumedInOrder, FinExactly, WireIntact

LEMMA SendBrokenPreserves ==
  ASSUME OutputInv, NEW d \in Data, sendBroken(d)
  PROVE  OutputInv'
<1>0. taken \in Seq(Bytes)
  BY DEF OutputInv, TypeOK
<1> USE BufferConstants DEF OutputInv, TypeOK, sendBroken
<1>1. d \in Seq(Bytes)
  OBVIOUS
<1>2. CASE writesDirectly
  <2>1. Pending' = Pending
    BY <1>2 DEF Pending
  <2> QED
    BY <1>2, <2>1
       DEF ArmedWhilePending, ConsumedInOrder, FinExactly, WireIntact
<1>3. CASE ~writesDirectly
  <2>1. /\ B!Valid(outputBuffer_') /\ Pending' = Pending \o d
        /\ isWriting' \in BOOLEAN /\ (isWriting' <=> Pending' # <<>>)
        /\ warned' \in BOOLEAN
        /\ warned' => Len(Pending') >= highWaterMark_
    BY <1>1, <1>3, KeepRestFacts, Zenon
  <2>2. Pending \in Seq(Bytes)
    BY PendingFacts DEF Pending
  <2>3. accepted' = taken' \o Pending'
    <3>1. (taken \o Pending) \o d = taken \o (Pending \o d)
      BY <1>0, <1>1, <2>2, Regroup, Zenon
    <3> QED
      BY <1>3, <2>1, <3>1 DEF ConsumedInOrder
  <2>4. accepted' \in Seq(Bytes)
    BY <1>1, <1>3, ConcatProperties
  <2>5. ~fin' /\ state_' = "kConnected"
    BY DEF FinExactly
  <2> QED
    BY <1>3, <2>1, <2>3, <2>4, <2>5
       DEF ArmedWhilePending, ConsumedInOrder, FinExactly, WireIntact
<1> QED
  BY <1>2, <1>3

LEMMA ShutdownPreserves ==
  ASSUME OutputInv, shutdown
  PROVE  OutputInv'
<1> USE DEF OutputInv, TypeOK, shutdown
<1>1. Pending' = Pending
  BY DEF Pending
<1>2. fin' = (fin \/ ~isWriting)
  BY DEF shutdownInLoop
<1>3. fin' \in BOOLEAN
  BY <1>2, Zenon
<1>4. fin' <=> Pending = <<>>
  BY <1>2, Zenon DEF ArmedWhilePending, FinExactly
<1> QED
  BY <1>1, <1>3, <1>4
     DEF ArmedWhilePending, ConsumedInOrder, FinExactly, WireIntact

LEMMA WrotePreserves ==
  ASSUME OutputInv, NEW n \in 1 .. Len(B!offered(outputBuffer_)), Wrote(n)
  PROVE  OutputInv'
<1> USE BufferConstants DEF OutputInv, TypeOK
<1>0. taken \in Seq(Bytes) /\ wire \in Seq(Bytes)
  BY DEF OutputInv, TypeOK
<1> DEFINE read == IF n < Len(Pending) THEN n ELSE Len(Pending)
<1>1. /\ outputBuffer_' = B!retrieve(outputBuffer_, n)
      /\ wire' = wire \o Upto(B!offered(outputBuffer_), n)
      /\ warned' = (warned /\ B!readableBytes(outputBuffer_') >= highWaterMark_)
      /\ UNCHANGED <<state_, broken, accepted>>
      /\ taken' = taken \o Upto(Pending, B!readableBytes(outputBuffer_)
                                          - B!readableBytes(outputBuffer_'))
  BY DEF Wrote, retrieved
<1>2. n \in Nat
  <2>1. n \in Int /\ n >= 1
    OBVIOUS
  <2> QED
    BY <2>1
<1>3. /\ Pending \in Seq(Bytes) /\ Len(Pending) \in Nat
  BY PendingFacts DEF Pending
<1>4. /\ B!Valid(outputBuffer_')
      /\ Pending' = IF n < Len(Pending)
                    THEN SubSeq(Pending, n + 1, Len(Pending)) ELSE <<>>
  BY <1>1, <1>2, RetrieveFacts DEF Pending
<1>5. /\ Pending' \in Seq(Bytes) /\ Len(Pending') \in Nat
      /\ Len(Pending') = B!readableBytes(outputBuffer_')
      /\ (Pending' = <<>> <=> B!readableBytes(outputBuffer_') = 0)
  BY <1>4, PendingFacts DEF Pending
<1>6. read \in 0 .. Len(Pending)
  BY <1>2, <1>3
<1>7. /\ Upto(Pending, read) \in Seq(Bytes)
      /\ Upto(Pending, read) \o From(Pending, read) = Pending
  BY <1>3, <1>6, Split
<1>8. Pending' = From(Pending, read) /\ Len(Pending') <= Len(Pending)
  <2>1. CASE n < Len(Pending)
    <3>1. read = n
      BY <2>1
    <3>2. Len(From(Pending, read)) = Len(Pending) - read
      BY <1>3, <1>6, Split
    <3>3. Pending' = From(Pending, read)
      BY <1>4, <2>1, <3>1 DEF From
    <3>4. Len(Pending) - n <= Len(Pending)
      BY <1>2, <1>3
    <3>5. Len(Pending') = Len(Pending) - n
      BY <3>1, <3>2, <3>3
    <3> QED
      BY <3>3, <3>4, <3>5
  <2>2. CASE ~(n < Len(Pending))
    BY <1>3, <1>4, <1>5, <2>2, SubSeqEmpty DEF From
  <2> QED
    BY <2>1, <2>2
<1>9. taken' = taken \o Upto(Pending, read)
  <2>1. Len(Pending) = B!readableBytes(outputBuffer_)
    BY PendingFacts DEF Pending
  <2>2. Len(Pending') = Len(Pending) - read
    BY <1>3, <1>6, <1>8, Split
  <2>3. Len(Pending) - Len(Pending') = read
    BY <1>3, <1>5, <1>6, <2>2
  <2> QED
    BY <1>1, <1>5, <2>1, <2>3
<1> HIDE DEF read
<1>10. accepted' = taken' \o Pending'
  <2>1. taken \o Pending = (taken \o Upto(Pending, read)) \o Pending'
    <3>1. From(Pending, read) \in Seq(Bytes)
      BY <1>3, <1>6, Split
    <3>2. (taken \o Upto(Pending, read)) \o From(Pending, read)
            = taken \o (Upto(Pending, read) \o From(Pending, read))
      BY <1>0, <1>7, <3>1, Regroup, Zenon
    <3> QED
      BY <1>7, <1>8, <3>2, Zenon
  <2> QED
    BY <1>1, <1>9, <2>1 DEF ConsumedInOrder
<1>11. /\ isWriting' \in BOOLEAN /\ (isWriting' <=> Pending' # <<>>)
       /\ fin' \in BOOLEAN
       /\ fin' => Pending' = <<>> /\ state_' = "kDisconnecting"
       /\ state_' = "kDisconnecting" /\ Pending' = <<>> => fin'
  <2>1. CASE Pending' = <<>>
    <3>1. isWriting' = FALSE /\ finishShutdown
      BY <1>5, <2>1 DEF Wrote, retrieved
    <3>2. fin' = IF state_ = "kDisconnecting" THEN TRUE ELSE fin
      BY <3>1 DEF finishShutdown, shutdownInLoop
    <3>3. fin => state_ = "kDisconnecting"
      BY DEF FinExactly
    <3> QED
      BY <1>1, <2>1, <3>1, <3>2, <3>3
  <2>2. CASE Pending' # <<>>
    <3>1. UNCHANGED <<isWriting, fin>>
      BY <1>5, <2>2 DEF Wrote, retrieved
    <3>2. Pending # <<>>
      <4>1. Len(Pending') # 0
        BY <1>5, <2>2, EmptySeq
      <4>2. Len(Pending) # 0
        BY <1>3, <1>5, <1>8, <4>1
      <4> QED
        BY <4>2
    <3>3. isWriting /\ ~fin
      BY <3>2 DEF ArmedWhilePending, FinExactly
    <3> QED
      BY <2>2, <3>1, <3>3
  <2> QED
    BY <2>1, <2>2
<1>12. /\ warned' \in BOOLEAN
       /\ warned' => Len(Pending') >= highWaterMark_
  <2>1. warned' = (warned /\ Len(Pending') >= highWaterMark_)
    BY <1>1, <1>5
  <2> QED
    BY <2>1, Zenon
<1>13. WireIntact'
  <2> DEFINE x == Upto(B!offered(outputBuffer_), n)
             y == Upto(Pending, read)
  <2>1. /\ x \in Seq(Bytes) /\ Len(x) = n
        /\ n <= Len(Pending) => x = Upto(Pending, n)
    BY OfferedFacts DEF Pending
  <2>2. y \in Seq(Bytes) /\ Len(y) = read
    BY <1>3, <1>6, UptoFacts
  <2>3. read = IF n < Len(Pending) THEN n ELSE Len(Pending)
    BY DEF read
  <2>4. Len(x) >= Len(y) /\ (Len(x) = Len(y) => x = y)
    BY <1>2, <1>3, <2>1, <2>2, <2>3
  <2>5. Len(wire) >= Len(taken) /\ (Len(wire) = Len(taken) => wire = taken)
    BY DEF WireIntact
  <2>6. wire' = wire \o x /\ taken' = taken \o y
    BY <1>1, <1>9
  <2> HIDE DEF x, y
  <2>7. /\ Len(wire \o x) >= Len(taken \o y)
        /\ Len(wire \o x) = Len(taken \o y) => wire \o x = taken \o y
    BY <1>0, <2>1, <2>2, <2>4, <2>5, WireKept
  <2> QED
    BY <2>6, <2>7 DEF WireIntact
<1>14. TypeOK'
  <2>1. Upto(B!offered(outputBuffer_), n) \in Seq(Bytes)
    BY OfferedFacts
  <2>2. taken' \in Seq(Bytes) /\ wire' \in Seq(Bytes)
    BY <1>0, <1>1, <1>7, <1>9, <2>1, ConcatProperties
  <2> QED
    BY <1>1, <1>4, <1>11, <1>12, <2>2
<1> QED
  BY <1>10, <1>11, <1>12, <1>13, <1>14
     DEF ArmedWhilePending, ConsumedInOrder, FinExactly, WireIntact

\* Every step keeps the invariant.
LEMMA StepPreserves == OutputInv /\ [Next]_vars => OutputInv'
<1> SUFFICES ASSUME OutputInv, [Next]_vars
             PROVE  OutputInv'
  OBVIOUS
<1>1. CASE handleWrite
  BY <1>1, WrotePreserves DEF handleWrite
<1>2. CASE Reset
  <2>1. Pending' = Pending
    BY <1>2 DEF Reset, Pending
  <2> QED
    BY <1>2, <2>1
       DEF OutputInv, TypeOK, Reset, ArmedWhilePending, ConsumedInOrder,
           FinExactly, WireIntact
<1>3. CASE UNCHANGED vars
  <2>1. Pending' = Pending
    BY <1>3 DEF vars, Pending
  <2> QED
    BY <1>3, <2>1
       DEF vars, OutputInv, TypeOK, ArmedWhilePending, ConsumedInOrder,
           FinExactly, WireIntact
<1> QED
  BY <1>1, <1>2, <1>3, SendPreserves, SendBrokenPreserves, ShutdownPreserves
     DEF Next

\* The inductive invariant: the bytes are accounted for, and EPOLLOUT, the
\* half-close and the warning are in step with them.
THEOREM Invariance == Spec => []OutputInv
<1> QED
  BY StepPreserves, InitEstablishes, PTL DEF Spec

\* The variables of Output keep their types.
THEOREM TypeCorrect == Spec => []TypeOK
<1>1. OutputInv => TypeOK
  BY DEF OutputInv
<1> QED
  BY <1>1, Invariance, PTL

\* EPOLLOUT is registered exactly while output waits.
THEOREM ArmedExactly == Spec => []ArmedWhilePending
<1>1. OutputInv => ArmedWhilePending
  BY DEF OutputInv
<1> QED
  BY <1>1, Invariance, PTL

\* A direct write never overtakes what is buffered.
THEOREM InOrder == Spec => []ConsumedInOrder
<1>1. OutputInv => ConsumedInOrder
  BY DEF OutputInv
<1> QED
  BY <1>1, Invariance, PTL

\* The half-close comes after the last byte, and as soon as there is none.
THEOREM FinIsExact == Spec => []FinExactly
<1>1. OutputInv => FinExactly
  BY DEF OutputInv
<1> QED
  BY <1>1, Invariance, PTL

\* Wrong bytes go out only in addition to the right ones.
THEOREM WrongOnlyInExcess == Spec => []WireIntact
<1>1. OutputInv => WireIntact
  BY DEF OutputInv
<1> QED
  BY <1>1, Invariance, PTL
================================================================================

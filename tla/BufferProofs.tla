----------------------------- MODULE BufferProofs -----------------------------
(***************************************************************************)
(* Proofs about Buffer for every reserve, initial size, extrabuf and set   *)
(* of byte strings: what each member function does to the readable bytes,  *)
(* the invariants, and that a Buffer implements ByteQueue.                 *)
(***************************************************************************)
EXTENDS Buffer, SequenceTheorems, TLAPS

-----------------------------------------------------------------------------
(* The helpers on vectors.                                                 *)

\* std::copy of a string that fits overwrites its target and nothing else.
LEMMA CopiedFacts ==
  ASSUME NEW v \in Seq(Bytes), NEW d \in Seq(Bytes), NEW at \in Nat,
         at + Len(d) <= Len(v)
  PROVE  /\ Copied(v, at, d) \in Seq(Bytes)
         /\ Len(Copied(v, at, d)) = Len(v)
         /\ \A i \in 1 .. Len(v) :
              Copied(v, at, d)[i] =
                IF i \in at + 1 .. at + Len(d) THEN d[i - at] ELSE v[i]
<1>1. Len(v) \in Nat /\ Len(d) \in Nat
  BY LenProperties
<1>2. \A i \in 1 .. Len(v) :
        (IF i \in at + 1 .. at + Len(d) THEN d[i - at] ELSE v[i]) \in Bytes
  BY <1>1, ElementOfSeq
<1> QED
  BY <1>1, <1>2 DEF Copied

\* resize() to a larger size keeps the elements.
LEMMA ResizedFacts ==
  ASSUME NEW v \in Seq(Bytes), NEW size \in Nat, Len(v) <= size
  PROVE  /\ Resized(v, size) \in Seq(Bytes)
         /\ Len(Resized(v, size)) = size
         /\ \A i \in 1 .. Len(v) : Resized(v, size)[i] = v[i]
<1>1. Len(v) \in Nat
  BY LenProperties
<1>2. \A i \in 1 .. size : (IF i <= Len(v) THEN v[i] ELSE Zero) \in Bytes
  BY <1>1, ElementOfSeq, BufferAssumption
<1> QED
  BY <1>1, <1>2 DEF Resized

\* The readable bytes, one by one.
LEMMA ContentsFacts ==
  ASSUME NEW b, Valid(b)
  PROVE  /\ Contents(b) \in Seq(Bytes)
         /\ Len(Contents(b)) = b.writeIndex_ - b.readerIndex_
         /\ \A i \in 1 .. b.writeIndex_ - b.readerIndex_ :
              Contents(b)[i] = b.buffer_[b.readerIndex_ + i]
<1> DEFINE m == b.readerIndex_ + 1
           n == b.writeIndex_
<1>1. /\ b.buffer_ \in Seq(Bytes) /\ b.readerIndex_ \in Nat
      /\ b.writeIndex_ \in Nat /\ Len(b.buffer_) \in Nat
      /\ b.readerIndex_ <= b.writeIndex_ /\ b.writeIndex_ <= Len(b.buffer_)
  BY LenProperties DEF Valid, Buffers
<1>2. m \in Int /\ n \in Int
  BY <1>1
<1>3. \A i \in m .. n : b.buffer_[i] \in Bytes
  BY <1>1, ElementOfSeq
<1>4. /\ SubSeq(b.buffer_, m, n) \in Seq(Bytes)
      /\ Len(SubSeq(b.buffer_, m, n)) = IF m <= n THEN n - m + 1 ELSE 0
      /\ \A i \in 1 .. n - m + 1 : SubSeq(b.buffer_, m, n)[i] = b.buffer_[m + i - 1]
  BY <1>2, <1>3, SubSeqProperties
<1>5. ASSUME NEW i \in 1 .. n - b.readerIndex_
      PROVE  Contents(b)[i] = b.buffer_[b.readerIndex_ + i]
  <2>1. i \in 1 .. n - m + 1 /\ m + i - 1 = b.readerIndex_ + i
    BY <1>1, <1>5
  <2>2. Contents(b)[i] = b.buffer_[m + i - 1]
    BY <1>4, <2>1 DEF Contents
  <2> QED
    BY <2>1, <2>2
<1>6. (IF m <= n THEN n - m + 1 ELSE 0) = n - b.readerIndex_
  BY <1>1
<1> QED
  BY <1>4, <1>5, <1>6 DEF Contents

\* Two buffers with the same number of readable bytes and the same bytes have
\* the same contents.
LEMMA SameContents ==
  ASSUME NEW b, NEW e, Valid(b), Valid(e),
         e.writeIndex_ - e.readerIndex_ = b.writeIndex_ - b.readerIndex_,
         \A i \in 1 .. b.writeIndex_ - b.readerIndex_ :
           e.buffer_[e.readerIndex_ + i] = b.buffer_[b.readerIndex_ + i]
  PROVE  Contents(e) = Contents(b)
  BY ContentsFacts, SeqEqual

-----------------------------------------------------------------------------
(* The member functions.                                                   *)

\* retrieve(len) takes the first len bytes away, or all there are.
LEMMA RetrieveFacts ==
  ASSUME NEW b, Valid(b), NEW len \in Nat
  PROVE  /\ Valid(retrieve(b, len))
         /\ len < readableBytes(b) =>
              Contents(retrieve(b, len))
                = SubSeq(Contents(b), len + 1, Len(Contents(b)))
         /\ len >= readableBytes(b) => Contents(retrieve(b, len)) = <<>>
         /\ readableBytes(retrieve(b, len)) <= readableBytes(b)
         /\ retrieve(b, len).buffer_ = b.buffer_
<1> USE BufferAssumption
<1>1. /\ b.buffer_ \in Seq(Bytes) /\ b.readerIndex_ \in Nat
      /\ b.writeIndex_ \in Nat /\ Len(b.buffer_) \in Nat
      /\ kCheapPrepend <= b.readerIndex_
      /\ b.readerIndex_ <= b.writeIndex_ /\ b.writeIndex_ <= Len(b.buffer_)
  BY LenProperties DEF Valid, Buffers
<1>2. CASE len < readableBytes(b)
  <2> DEFINE e == retrieve(b, len)
  <2>1. /\ e \in Buffers
        /\ e.buffer_ = b.buffer_ /\ e.writeIndex_ = b.writeIndex_
        /\ e.readerIndex_ = b.readerIndex_ + len
    BY <1>1, <1>2 DEF retrieve, Valid, Buffers
  <2>2. Valid(e)
    BY <1>1, <1>2, <2>1 DEF Valid, readableBytes
  <2> HIDE DEF e
  <2>3. /\ Contents(b) \in Seq(Bytes)
        /\ Len(Contents(b)) = b.writeIndex_ - b.readerIndex_
        /\ \A i \in 1 .. b.writeIndex_ - b.readerIndex_ :
             Contents(b)[i] = b.buffer_[b.readerIndex_ + i]
    BY ContentsFacts
  <2>4. /\ Contents(e) \in Seq(Bytes)
        /\ Len(Contents(e)) = e.writeIndex_ - e.readerIndex_
        /\ \A i \in 1 .. e.writeIndex_ - e.readerIndex_ :
             Contents(e)[i] = e.buffer_[e.readerIndex_ + i]
    BY <2>2, ContentsFacts
  <2> DEFINE n == Len(Contents(b))
             rest == SubSeq(Contents(b), len + 1, n)
  <2>5. len + 1 \in Int /\ n \in Int /\ n \in Nat
    BY <1>1, <2>3
  <2>6. \A i \in len + 1 .. n : Contents(b)[i] \in Bytes
    BY <1>1, <2>3, ElementOfSeq
  <2>7. /\ rest \in Seq(Bytes)
        /\ Len(rest) = IF len + 1 <= n THEN n - (len + 1) + 1 ELSE 0
        /\ \A i \in 1 .. n - (len + 1) + 1 :
             rest[i] = Contents(b)[(len + 1) + i - 1]
    BY <2>5, <2>6, SubSeqProperties
  <2>8. Contents(e) = rest
    <3>1. Len(Contents(e)) = Len(rest)
      <4>1. len + 1 <= n /\ n = b.writeIndex_ - b.readerIndex_
        BY <1>1, <1>2, <2>3 DEF readableBytes
      <4>2. n - (len + 1) + 1 = e.writeIndex_ - e.readerIndex_
        BY <1>1, <2>1, <4>1
      <4>3. Len(rest) = n - (len + 1) + 1
        BY <2>7, <4>1
      <4> QED
        BY <2>4, <4>2, <4>3
    <3>2. ASSUME NEW i \in 1 .. Len(Contents(e))
          PROVE  Contents(e)[i] = rest[i]
      <4>1. /\ i \in Nat /\ i \in 1 .. n - (len + 1) + 1
            /\ (len + 1) + i - 1 = len + i
            /\ len + i \in 1 .. n
        BY <1>1, <1>2, <2>1, <2>3, <2>4, <3>2 DEF readableBytes
      <4>2. rest[i] = Contents(b)[len + i]
        BY <2>7, <4>1
      <4>3. Contents(b)[len + i] = b.buffer_[b.readerIndex_ + (len + i)]
        BY <2>3, <4>1
      <4>4. Contents(e)[i] = b.buffer_[(b.readerIndex_ + len) + i]
        BY <2>1, <2>4, <3>2
      <4>5. (b.readerIndex_ + len) + i = b.readerIndex_ + (len + i)
        BY <1>1, <4>1
      <4> QED
        BY <4>2, <4>3, <4>4, <4>5
    <3> QED
      BY <2>4, <2>7, <3>1, <3>2, SeqEqual
  <2>9. readableBytes(e) <= readableBytes(b)
    BY <1>1, <2>1 DEF readableBytes
  <2> QED
    BY <1>1, <1>2, <2>1, <2>2, <2>8, <2>9 DEF e, readableBytes
<1>3. CASE ~(len < readableBytes(b))
  <2> DEFINE e == retrieve(b, len)
  <2>1. /\ e \in Buffers
        /\ e.buffer_ = b.buffer_
        /\ e.writeIndex_ = kCheapPrepend /\ e.readerIndex_ = kCheapPrepend
    BY <1>1, <1>3 DEF retrieve, retrieveAll, Valid, Buffers
  <2>2. Valid(e)
    BY <1>1, <2>1 DEF Valid
  <2>3. Contents(e) = <<>>
    BY <2>1, SubSeqEmpty DEF Contents
  <2>4. readableBytes(e) <= readableBytes(b)
    BY <1>1, <2>1 DEF readableBytes
  <2> QED
    BY <1>3, <2>1, <2>2, <2>3, <2>4
<1> QED
  BY <1>2, <1>3

\* A string that fits, put at the write index, follows the contents.
LEMMA WrittenFacts ==
  ASSUME NEW b, Valid(b), NEW d \in Seq(Bytes), Len(d) <= writableBytes(b)
  PROVE  /\ Valid(written(b, d))
         /\ Contents(written(b, d)) = Contents(b) \o d
         /\ Len(written(b, d).buffer_) = Len(b.buffer_)
         /\ written(b, d).readerIndex_ = b.readerIndex_
         /\ written(b, d).writeIndex_ = b.writeIndex_ + Len(d)
<1> USE BufferAssumption
<1> DEFINE e == written(b, d)
           r == b.readerIndex_
           w == b.writeIndex_
<1>1. /\ b.buffer_ \in Seq(Bytes) /\ r \in Nat /\ w \in Nat
      /\ Len(b.buffer_) \in Nat /\ Len(d) \in Nat
      /\ kCheapPrepend <= r /\ r <= w /\ w <= Len(b.buffer_)
      /\ w + Len(d) <= Len(b.buffer_)
  BY LenProperties DEF Valid, Buffers, writableBytes
<1>2. /\ Copied(b.buffer_, w, d) \in Seq(Bytes)
      /\ Len(Copied(b.buffer_, w, d)) = Len(b.buffer_)
      /\ \A i \in 1 .. Len(b.buffer_) :
           Copied(b.buffer_, w, d)[i] =
             IF i \in w + 1 .. w + Len(d) THEN d[i - w] ELSE b.buffer_[i]
  BY <1>1, CopiedFacts
<1>3. /\ e.buffer_ = Copied(b.buffer_, w, d)
      /\ e.readerIndex_ = r
      /\ e.writeIndex_ = w + Len(d)
      /\ e \in Buffers
  <2> DEFINE c == Copied(b.buffer_, w, d)
             n == w + Len(d)
  <2>1. c \in Seq(Bytes) /\ n \in Nat
    BY <1>1, <1>2
  <2>2. e = [b EXCEPT !.buffer_ = c, !.writeIndex_ = n]
    BY DEF written
  <2> HIDE DEF c, n, e
  <2>3. b \in Buffers
    BY DEF Valid
  <2>4. /\ e.buffer_ = c /\ e.readerIndex_ = r /\ e.writeIndex_ = n
        /\ e \in Buffers
    BY <2>1, <2>2, <2>3 DEF Buffers
  <2> QED
    BY <2>4 DEF c, n
<1>4. Valid(e)
  BY <1>1, <1>2, <1>3 DEF Valid
<1> HIDE DEF e
<1>5. /\ Contents(b) \in Seq(Bytes)
      /\ Len(Contents(b)) = w - r
      /\ \A i \in 1 .. w - r : Contents(b)[i] = b.buffer_[r + i]
  BY ContentsFacts
<1>6. /\ Contents(e) \in Seq(Bytes)
      /\ Len(Contents(e)) = e.writeIndex_ - e.readerIndex_
      /\ \A i \in 1 .. e.writeIndex_ - e.readerIndex_ :
           Contents(e)[i] = e.buffer_[e.readerIndex_ + i]
  BY <1>4, ContentsFacts
<1>7. /\ Contents(b) \o d \in Seq(Bytes)
      /\ Len(Contents(b) \o d) = Len(Contents(b)) + Len(d)
      /\ \A i \in 1 .. Len(Contents(b)) + Len(d) : (Contents(b) \o d)[i] =
           IF i <= Len(Contents(b)) THEN Contents(b)[i]
           ELSE d[i - Len(Contents(b))]
  BY <1>5, ConcatProperties
<1>8. ASSUME NEW i \in 1 .. Len(Contents(e))
      PROVE  Contents(e)[i] = (Contents(b) \o d)[i]
  <2>1. /\ i \in Nat /\ i \in 1 .. Len(Contents(b)) + Len(d)
        /\ r + i \in 1 .. Len(b.buffer_)
    <3>1. Len(Contents(e)) = (w - r) + Len(d)
      BY <1>1, <1>3, <1>6
    <3> QED
      <4>1. i \in 1 .. (w - r) + Len(d)
        BY <1>8, <3>1
      <4>2. Len(Contents(b)) + Len(d) = (w - r) + Len(d)
        BY <1>5
      <4>3. i \in Nat /\ 1 <= i /\ i <= (w - r) + Len(d)
        BY <1>1, <4>1
      <4>4. r + i \in Nat /\ 1 <= r + i
        BY <1>1, <4>3
      <4>5. r + i <= w + Len(d)
        BY <1>1, <4>3
      <4>6. r + i \in 1 .. Len(b.buffer_)
        BY <1>1, <4>4, <4>5
      <4> QED
        BY <4>1, <4>2, <4>3, <4>6
  <2>2. Contents(e)[i] = Copied(b.buffer_, w, d)[r + i]
    BY <1>3, <1>6, <1>8
  <2>3. CASE i <= w - r
    <3>1. r + i \notin w + 1 .. w + Len(d) /\ i \in 1 .. w - r
      BY <1>1, <2>1, <2>3
    <3>2. Contents(e)[i] = b.buffer_[r + i]
      BY <1>2, <2>1, <2>2, <3>1
    <3>3. (Contents(b) \o d)[i] = Contents(b)[i]
      BY <1>5, <1>7, <2>1, <2>3
    <3> QED
      BY <1>5, <3>1, <3>2, <3>3
  <2>4. CASE ~(i <= w - r)
    <3>1. r + i \in w + 1 .. w + Len(d) /\ (r + i) - w = i - (w - r)
      <4>1. i <= (w - r) + Len(d)
        BY <1>5, <2>1
      <4> QED
        BY <1>1, <2>1, <2>4, <4>1
    <3>2. Contents(e)[i] = d[(r + i) - w]
      BY <1>2, <2>1, <2>2, <3>1
    <3>3. (Contents(b) \o d)[i] = d[i - (w - r)]
      BY <1>5, <1>7, <2>1, <2>4
    <3> QED
      BY <3>1, <3>2, <3>3
  <2> QED
    BY <2>3, <2>4
<1>9. Len(Contents(e)) = Len(Contents(b) \o d)
  BY <1>1, <1>3, <1>5, <1>6, <1>7
<1>10. Contents(e) = Contents(b) \o d
  BY <1>6, <1>7, <1>8, <1>9, SeqEqual
<1> QED
  BY <1>2, <1>3, <1>4, <1>10 DEF e

\* Moving the readable bytes down keeps them and makes room for len bytes.
LEMMA MovedFacts ==
  ASSUME NEW b, Valid(b), NEW len \in Nat, ~mustGrow(b, len)
  PROVE  /\ Valid(movedDown(b))
         /\ Contents(movedDown(b)) = Contents(b)
         /\ len <= writableBytes(movedDown(b))
         /\ readableBytes(movedDown(b)) = readableBytes(b)
         /\ Len(movedDown(b).buffer_) = Len(b.buffer_)
<1> USE BufferAssumption
<1> DEFINE e == movedDown(b)
           r == b.readerIndex_
           w == b.writeIndex_
<1>1. /\ b.buffer_ \in Seq(Bytes) /\ r \in Nat /\ w \in Nat
      /\ Len(b.buffer_) \in Nat
      /\ kCheapPrepend <= r /\ r <= w /\ w <= Len(b.buffer_)
      /\ ~(Len(b.buffer_) - w + r < len + kCheapPrepend)
  BY LenProperties
     DEF Valid, Buffers, mustGrow, writableBytes, perpendableBytes
<1>2. /\ Contents(b) \in Seq(Bytes)
      /\ Len(Contents(b)) = w - r
      /\ \A i \in 1 .. w - r : Contents(b)[i] = b.buffer_[r + i]
  BY ContentsFacts
<1>3. kCheapPrepend + Len(Contents(b)) <= Len(b.buffer_)
  BY <1>1, <1>2
<1>4. /\ Copied(b.buffer_, kCheapPrepend, Contents(b)) \in Seq(Bytes)
      /\ Len(Copied(b.buffer_, kCheapPrepend, Contents(b))) = Len(b.buffer_)
      /\ \A i \in 1 .. Len(b.buffer_) :
           Copied(b.buffer_, kCheapPrepend, Contents(b))[i] =
             IF i \in kCheapPrepend + 1 .. kCheapPrepend + Len(Contents(b))
             THEN Contents(b)[i - kCheapPrepend] ELSE b.buffer_[i]
  <2>1. kCheapPrepend \in Nat
    OBVIOUS
  <2>2. b.buffer_ \in Seq(Bytes) /\ Contents(b) \in Seq(Bytes)
    BY <1>1, <1>2
  <2> QED
    BY <1>3, <2>1, <2>2, CopiedFacts
<1>5. /\ e.buffer_ = Copied(b.buffer_, kCheapPrepend, Contents(b))
      /\ e.readerIndex_ = kCheapPrepend
      /\ e.writeIndex_ = kCheapPrepend + (w - r)
      /\ e \in Buffers
  BY <1>1, <1>4 DEF movedDown, readableBytes, Buffers
<1>6. Valid(e)
  BY <1>1, <1>2, <1>3, <1>4, <1>5 DEF Valid
<1> HIDE DEF e
<1>7. \A i \in 1 .. w - r : e.buffer_[e.readerIndex_ + i] = b.buffer_[r + i]
  <2> TAKE i \in 1 .. w - r
  <2>1. /\ kCheapPrepend + i \in 1 .. Len(b.buffer_)
        /\ kCheapPrepend + i
             \in kCheapPrepend + 1 .. kCheapPrepend + Len(Contents(b))
        /\ (kCheapPrepend + i) - kCheapPrepend = i
    BY <1>1, <1>2, <1>3
  <2>2. e.buffer_[kCheapPrepend + i] = Contents(b)[i]
    BY <1>4, <1>5, <2>1
  <2> QED
    BY <1>2, <1>5, <2>2
<1>8. e.writeIndex_ - e.readerIndex_ = w - r
  BY <1>1, <1>5
<1>9. Contents(e) = Contents(b)
  BY <1>6, <1>7, <1>8, SameContents
<1>10. len <= writableBytes(e)
  BY <1>1, <1>4, <1>5 DEF writableBytes
<1> QED
  BY <1>4, <1>5, <1>6, <1>8, <1>9, <1>10 DEF e, readableBytes

\* Growing the vector keeps the readable bytes and makes room for len bytes.
LEMMA GrownFacts ==
  ASSUME NEW b, Valid(b), NEW len \in Nat, writableBytes(b) < len
  PROVE  LET e == [b EXCEPT !.buffer_ = Resized(b.buffer_, len + b.writeIndex_)]
         IN /\ Valid(e)
            /\ Contents(e) = Contents(b)
            /\ len <= writableBytes(e)
            /\ readableBytes(e) = readableBytes(b)
            /\ Len(e.buffer_) = len + b.writeIndex_
<1> USE BufferAssumption
<1> DEFINE e == [b EXCEPT !.buffer_ = Resized(b.buffer_, len + b.writeIndex_)]
           r == b.readerIndex_
           w == b.writeIndex_
<1>1. /\ b.buffer_ \in Seq(Bytes) /\ r \in Nat /\ w \in Nat
      /\ Len(b.buffer_) \in Nat
      /\ kCheapPrepend <= r /\ r <= w /\ w <= Len(b.buffer_)
      /\ Len(b.buffer_) <= len + w /\ len + w \in Nat
  BY LenProperties DEF Valid, Buffers, writableBytes
<1>2. /\ Resized(b.buffer_, len + w) \in Seq(Bytes)
      /\ Len(Resized(b.buffer_, len + w)) = len + w
      /\ \A i \in 1 .. Len(b.buffer_) :
           Resized(b.buffer_, len + w)[i] = b.buffer_[i]
  BY <1>1, ResizedFacts
<1>3. /\ e.buffer_ = Resized(b.buffer_, len + w)
      /\ e.readerIndex_ = r /\ e.writeIndex_ = w
      /\ e \in Buffers
  BY <1>1, <1>2 DEF Valid, Buffers
<1>4. Valid(e)
  BY <1>1, <1>2, <1>3 DEF Valid
<1> HIDE DEF e
<1>5. \A i \in 1 .. w - r : e.buffer_[e.readerIndex_ + i] = b.buffer_[r + i]
  <2> TAKE i \in 1 .. w - r
  <2>1. r + i \in 1 .. Len(b.buffer_)
    BY <1>1
  <2> QED
    BY <1>2, <1>3, <2>1
<1>6. Contents(e) = Contents(b)
  BY <1>3, <1>4, <1>5, SameContents
<1>7. len <= writableBytes(e)
  BY <1>1, <1>2, <1>3 DEF writableBytes
<1> QED
  BY <1>2, <1>3, <1>4, <1>6, <1>7 DEF e, readableBytes

\* What the bound on the vector's size needs of one growth.
LEMMA GrowthArithmetic ==
  ASSUME NEW r \in Nat, NEW w \in Nat, NEW size \in Nat, NEW len \in Nat,
         NEW k \in Nat, NEW max \in Nat,
         r <= w, w <= size, size - w < len, size - w + r < len + k,
         (w - r) + len <= max
  PROVE  len + w < k + 2 * max
<1>1. r < len + k
  OBVIOUS
<1>2. len + w < len + (w - r) + len + k
  BY <1>1
<1> QED
  BY <1>2

\* ensureWriteableBytes(len) keeps the readable bytes, makes room for len
\* bytes, and grows the vector no further than the backlog accounts for.
LEMMA EnsureFacts ==
  ASSUME NEW b, Valid(b), NEW len \in Nat
  PROVE  LET e == ensureWriteableBytes(b, len)
         IN /\ Valid(e)
            /\ Contents(e) = Contents(b)
            /\ len <= writableBytes(e)
            /\ readableBytes(e) = readableBytes(b)
            /\ Grown(b) /\ readableBytes(b) + len <= MaxReadable => Grown(e)
<1> USE BufferAssumption
<1> DEFINE e == ensureWriteableBytes(b, len)
<1>1. /\ b.buffer_ \in Seq(Bytes) /\ b.readerIndex_ \in Nat
      /\ b.writeIndex_ \in Nat /\ Len(b.buffer_) \in Nat
      /\ b.readerIndex_ <= b.writeIndex_ /\ b.writeIndex_ <= Len(b.buffer_)
  BY LenProperties DEF Valid, Buffers
<1>2. CASE ~(writableBytes(b) < len)
  <2>1. e = b
    BY <1>2 DEF ensureWriteableBytes
  <2>2. len <= writableBytes(b)
    BY <1>1, <1>2 DEF writableBytes
  <2> QED
    BY <2>1, <2>2
<1>3. CASE writableBytes(b) < len /\ ~mustGrow(b, len)
  <2>1. e = movedDown(b)
    BY <1>3 DEF ensureWriteableBytes, makeSpace
  <2> HIDE DEF e
  <2>2. /\ Valid(e) /\ Contents(e) = Contents(b) /\ len <= writableBytes(e)
        /\ readableBytes(e) = readableBytes(b)
        /\ Len(e.buffer_) = Len(b.buffer_)
    BY <1>3, <2>1, MovedFacts
  <2>3. Grown(b) => Grown(e)
    BY <2>2 DEF Grown
  <2> QED
    BY <2>2, <2>3 DEF e
<1>4. CASE writableBytes(b) < len /\ mustGrow(b, len)
  <2>1. e = [b EXCEPT !.buffer_ = Resized(b.buffer_, len + b.writeIndex_)]
    BY <1>4 DEF ensureWriteableBytes, makeSpace
  <2> HIDE DEF e
  <2>2. /\ Valid(e) /\ Contents(e) = Contents(b) /\ len <= writableBytes(e)
        /\ readableBytes(e) = readableBytes(b)
        /\ Len(e.buffer_) = len + b.writeIndex_
    BY <1>4, <2>1, GrownFacts
  <2>3. readableBytes(b) + len <= MaxReadable
          => len + b.writeIndex_ < kCheapPrepend + 2 * MaxReadable
    BY <1>1, <1>4, GrowthArithmetic
       DEF mustGrow, writableBytes, perpendableBytes, readableBytes
  <2>4. readableBytes(b) + len <= MaxReadable => Grown(e)
    BY <2>2, <2>3 DEF Grown
  <2> QED
    BY <2>2, <2>4 DEF e
<1> QED
  BY <1>2, <1>3, <1>4

\* append(d) puts d behind the readable bytes.
LEMMA AppendFacts ==
  ASSUME NEW b, Valid(b), NEW d \in Seq(Bytes)
  PROVE  LET e == append(b, d)
         IN /\ Valid(e)
            /\ Contents(e) = Contents(b) \o d
            /\ readableBytes(e) = readableBytes(b) + Len(d)
            /\ Grown(b) /\ readableBytes(b) + Len(d) <= MaxReadable => Grown(e)
<1> DEFINE e == append(b, d)
           m == ensureWriteableBytes(b, Len(d))
<1>1. Len(d) \in Nat
  BY LenProperties
<1>2. /\ Valid(m)
      /\ Contents(m) = Contents(b)
      /\ Len(d) <= writableBytes(m)
      /\ readableBytes(m) = readableBytes(b)
      /\ Grown(b) /\ readableBytes(b) + Len(d) <= MaxReadable => Grown(m)
  BY <1>1, EnsureFacts
<1>3. e = written(m, d)
  BY DEF append
<1> HIDE DEF m, e
<1>4. /\ Valid(e)
      /\ Contents(e) = Contents(m) \o d
      /\ Len(e.buffer_) = Len(m.buffer_)
      /\ e.readerIndex_ = m.readerIndex_
      /\ e.writeIndex_ = m.writeIndex_ + Len(d)
  BY <1>2, <1>3, WrittenFacts
<1>5. m.readerIndex_ \in Nat /\ m.writeIndex_ \in Nat
  BY <1>2 DEF Valid, Buffers
<1>6. readableBytes(e) = readableBytes(m) + Len(d)
  BY <1>1, <1>4, <1>5 DEF readableBytes
<1>7. Grown(m) => Grown(e)
  BY <1>4 DEF Grown
<1> QED
  BY <1>2, <1>4, <1>6, <1>7 DEF e

\* readFd puts what readv returned behind the readable bytes, though part of
\* it went through extrabuf.
LEMMA ReadFdFacts ==
  ASSUME NEW b, Valid(b), NEW d \in Seq(Bytes)
  PROVE  LET e == readFd(b, d)
         IN /\ Valid(e)
            /\ Contents(e) = Contents(b) \o d
            /\ readableBytes(e) = readableBytes(b) + Len(d)
            /\ Grown(b) /\ readableBytes(b) + Len(d) <= MaxReadable => Grown(e)
<1> DEFINE e == readFd(b, d)
           k == writableBytes(b)
<1>1. /\ Len(d) \in Nat /\ k \in Nat
      /\ b.readerIndex_ \in Nat /\ b.writeIndex_ \in Nat
      /\ Contents(b) \in Seq(Bytes)
  BY LenProperties, ContentsFacts DEF Valid, Buffers, writableBytes
<1>2. CASE Len(d) <= k
  <2>1. e = written(b, d)
    BY <1>2 DEF readFd
  <2> HIDE DEF e
  <2>2. /\ Valid(e) /\ Contents(e) = Contents(b) \o d
        /\ Len(e.buffer_) = Len(b.buffer_)
        /\ e.readerIndex_ = b.readerIndex_
        /\ e.writeIndex_ = b.writeIndex_ + Len(d)
    BY <1>2, <2>1, WrittenFacts
  <2>3. readableBytes(e) = readableBytes(b) + Len(d)
    BY <1>1, <2>2 DEF readableBytes
  <2>4. Grown(b) => Grown(e)
    BY <2>2 DEF Grown
  <2> QED
    BY <2>2, <2>3, <2>4 DEF e
<1>3. CASE ~(Len(d) <= k)
  <2> DEFINE p == SubSeq(d, 1, k)
             q == SubSeq(d, k + 1, Len(d))
             m == written(b, p)
  <2>1. /\ p \in Seq(Bytes) /\ Len(p) = k
        /\ q \in Seq(Bytes) /\ Len(q) = Len(d) - k
    <3>1. \A i \in 1 .. Len(d) : d[i] \in Bytes
      BY ElementOfSeq
    <3>2. \A i \in 1 .. k : d[i] \in Bytes
      BY <1>1, <1>3, <3>1
    <3>3. \A i \in k + 1 .. Len(d) : d[i] \in Bytes
      BY <1>1, <3>1
    <3>4. 1 \in Int /\ k \in Int /\ k + 1 \in Int /\ Len(d) \in Int
      BY <1>1
    <3>5. p \in Seq(Bytes) /\ Len(p) = IF 1 <= k THEN k - 1 + 1 ELSE 0
      BY <3>2, <3>4, SubSeqProperties
    <3>6. /\ q \in Seq(Bytes)
          /\ Len(q) = IF k + 1 <= Len(d) THEN Len(d) - (k + 1) + 1 ELSE 0
      BY <3>3, <3>4, SubSeqProperties
    <3>7. (IF 1 <= k THEN k - 1 + 1 ELSE 0) = k
      BY <1>1
    <3>8. (IF k + 1 <= Len(d) THEN Len(d) - (k + 1) + 1 ELSE 0) = Len(d) - k
      BY <1>1, <1>3
    <3> QED
      BY <3>5, <3>6, <3>7, <3>8
  <2>2. d = p \o q
    <3>1. 1 \in 1 .. Len(d) + 1 /\ k \in 1 - 1 .. Len(d)
          /\ Len(d) \in k .. Len(d)
      BY <1>1, <1>3
    <3>2. SubSeq(d, 1, Len(d)) = p \o q
      BY <3>1, ConcatAdjacentSubSeq
    <3> QED
      BY <3>2, SubSeqFull
  <2>3. e = append(m, q)
    BY <1>3 DEF readFd
  <2> HIDE DEF e, p, q
  <2>4. Len(p) <= writableBytes(b)
    BY <1>1, <2>1
  <2>5. /\ Valid(m) /\ Contents(m) = Contents(b) \o p
        /\ Len(m.buffer_) = Len(b.buffer_)
        /\ m.readerIndex_ = b.readerIndex_
        /\ m.writeIndex_ = b.writeIndex_ + Len(p)
    BY <2>1, <2>4, WrittenFacts
  <2> HIDE DEF m
  <2>6. readableBytes(m) = readableBytes(b) + k
    BY <1>1, <2>1, <2>5 DEF readableBytes
  <2>7. Grown(b) => Grown(m)
    BY <2>5 DEF Grown
  <2>8. /\ Valid(e) /\ Contents(e) = Contents(m) \o q
        /\ readableBytes(e) = readableBytes(m) + Len(q)
        /\ Grown(m) /\ readableBytes(m) + Len(q) <= MaxReadable => Grown(e)
    BY <2>1, <2>3, <2>5, AppendFacts
  <2>9. Contents(e) = Contents(b) \o d
    <3>1. (Contents(b) \o p) \o q = Contents(b) \o (p \o q)
      <4>1. /\ Contents(b) \in Seq(Bytes)
            /\ p \in Seq(Bytes) /\ q \in Seq(Bytes)
        BY <1>1, <2>1
      <4>2. \A s, t, u \in Seq(Bytes) : (s \o t) \o u = s \o (t \o u)
        BY ConcatAssociative
      <4> QED
        BY <4>1, <4>2, Zenon
    <3> QED
      BY <2>2, <2>5, <2>8, <3>1
  <2>10. readableBytes(b) \in Int
    BY <1>1 DEF readableBytes
  <2>11. readableBytes(m) + Len(q) = readableBytes(b) + Len(d)
    BY <1>1, <2>1, <2>6, <2>10
  <2> QED
    BY <2>7, <2>8, <2>9, <2>11 DEF e
<1> QED
  BY <1>2, <1>3

-----------------------------------------------------------------------------
(* The invariants.                                                         *)

\* A new buffer satisfies the invariant.
LEMMA InitEstablishes == Init => BufferInv
<1> SUFFICES ASSUME Init
             PROVE  BufferInv
  OBVIOUS
<1> USE BufferAssumption DEF Init, NewBuffer
<1>1. /\ buf.readerIndex_ = kCheapPrepend /\ buf.writeIndex_ = kCheapPrepend
      /\ buf.buffer_ \in Seq(Bytes)
      /\ Len(buf.buffer_) = kCheapPrepend + kInitiaSize
  OBVIOUS
<1>2. Valid(buf)
  BY <1>1 DEF Valid, Buffers
<1>3. readableBytes(buf) <= MaxReadable
  BY <1>1 DEF readableBytes
<1>4. Grown(buf)
  BY <1>1 DEF Grown
<1> QED
  BY <1>2, <1>3, <1>4 DEF BufferInv, TypeOK, GrowthBounded

\* append, readFd and retrieve keep the invariant.
LEMMA StepPreserves == BufferInv /\ [Next]_buf => BufferInv'
<1> SUFFICES ASSUME BufferInv, [Next]_buf
             PROVE  BufferInv'
  OBVIOUS
<1> USE BufferAssumption DEF BufferInv, TypeOK, GrowthBounded
<1>1. readableBytes(buf) \in Nat
  BY DEF Valid, Buffers, readableBytes
<1>2. ASSUME NEW d \in Data, AppendTo(d)
      PROVE  BufferInv'
  <2>1. d \in Seq(Bytes)
    BY <1>2
  <2> QED
    BY <1>2, <2>1, AppendFacts DEF AppendTo, Fits
<1>3. ASSUME NEW d \in Data, ReadFd(d)
      PROVE  BufferInv'
  <2>1. d \in Seq(Bytes)
    BY <1>3
  <2> QED
    BY <1>3, <2>1, ReadFdFacts DEF ReadFd, Fits
<1>4. ASSUME NEW len \in Nat, buf' = retrieve(buf, len)
      PROVE  BufferInv'
  <2>1. /\ Valid(buf') /\ buf'.buffer_ = buf.buffer_
        /\ readableBytes(buf') <= readableBytes(buf)
    BY <1>4, RetrieveFacts
  <2>2. readableBytes(buf') \in Int
    BY <2>1 DEF Valid, Buffers, readableBytes
  <2>3. readableBytes(buf') <= MaxReadable
    BY <1>1, <2>1, <2>2
  <2>4. Grown(buf')
    BY <2>1 DEF Grown
  <2> QED
    BY <2>1, <2>3, <2>4
<1>5. ASSUME NEW len \in 0 .. MaxReadable + 1, Retrieve(len)
      PROVE  BufferInv'
  BY <1>4, <1>5 DEF Retrieve
<1>6. CASE retrieveAllAsString
  BY <1>1, <1>4, <1>6 DEF retrieveAllAsString
<1>7. CASE UNCHANGED buf
  BY <1>7 DEF Valid, Buffers, Grown, readableBytes
<1> QED
  BY <1>2, <1>3, <1>5, <1>6, <1>7 DEF Next

\* BufferInv holds in every reachable state, for any sizes, bytes and strings
\* (buffer.h:34-108, buffer.cc:13-46).
THEOREM Invariance == Spec => []BufferInv
<1> QED
  BY InitEstablishes, StepPreserves, PTL DEF Spec

\* The indices stay in order and inside the vector.
THEOREM TypeCorrect == Spec => []TypeOK
<1>1. BufferInv => TypeOK
  BY DEF BufferInv
<1> QED
  BY <1>1, Invariance, PTL

\* A buffer that is never emptied stays below twice its largest backlog.
THEOREM MemoryBounded == Spec => []GrowthBounded
<1>1. BufferInv => GrowthBounded
  BY DEF BufferInv
<1> QED
  BY <1>1, Invariance, PTL

\* makeSpace only ever moves bytes to a lower address.
THEOREM MovesDown == Spec => []MovesToLowerAddress
<1>1. BufferInv => MovesToLowerAddress
  BY BufferAssumption
     DEF BufferInv, TypeOK, Valid, Buffers, MovesToLowerAddress, mustGrow,
         writableBytes, perpendableBytes
<1> QED
  BY <1>1, Invariance, PTL

-----------------------------------------------------------------------------
(* Refinement.                                                             *)

\* A new buffer is an empty queue.
LEMMA QueueInit == Init => Queue!Init
  BY BufferAssumption, SubSeqEmpty
     DEF Init, NewBuffer, Queue!Init, Contents

\* append and readFd put their bytes, retrieve takes some.
LEMMA QueueStep == BufferInv /\ [Next]_buf => [Queue!Next]_(Contents(buf))
<1> SUFFICES ASSUME BufferInv, [Next]_buf
             PROVE  Queue!Next \/ Contents(buf)' = Contents(buf)
  OBVIOUS
<1> USE BufferAssumption DEF BufferInv, TypeOK
<1>1. readableBytes(buf) \in Nat /\ Len(Contents(buf)) = readableBytes(buf)
  BY ContentsFacts DEF Valid, Buffers, readableBytes
<1>2. ASSUME NEW d \in Data, AppendTo(d)
      PROVE  Queue!Put(d)
  <2>1. d \in Seq(Bytes)
    BY <1>2
  <2> QED
    BY <1>2, <2>1, AppendFacts DEF AppendTo, Queue!Put
<1>3. ASSUME NEW d \in Data, ReadFd(d)
      PROVE  Queue!Put(d)
  <2>1. d \in Seq(Bytes)
    BY <1>3
  <2> QED
    BY <1>3, <2>1, ReadFdFacts DEF ReadFd, Queue!Put
<1>4. ASSUME NEW len \in Nat, buf' = retrieve(buf, len)
      PROVE  \E n \in 0 .. Len(Contents(buf)) : Queue!Take(n)
  <2>1. CASE len < readableBytes(buf)
    <3>1. Queue!Take(len)
      BY <1>4, <2>1, RetrieveFacts DEF Queue!Take
    <3> QED
      BY <1>1, <2>1, <3>1
  <2>2. CASE ~(len < readableBytes(buf))
    <3> DEFINE n == Len(Contents(buf))
    <3>1. Contents(buf)' = <<>>
      BY <1>1, <1>4, <2>2, RetrieveFacts
    <3>2. SubSeq(Contents(buf), n + 1, n) = <<>>
      BY <1>1, SubSeqEmpty
    <3>3. Queue!Take(n)
      BY <3>1, <3>2 DEF Queue!Take
    <3> QED
      BY <1>1, <3>3
  <2> QED
    BY <2>1, <2>2
<1>5. ASSUME NEW len \in 0 .. MaxReadable + 1, Retrieve(len)
      PROVE  Queue!Next
  BY <1>4, <1>5 DEF Retrieve, Queue!Next
<1>6. CASE retrieveAllAsString
  BY <1>1, <1>4, <1>6 DEF retrieveAllAsString, Queue!Next
<1>7. CASE UNCHANGED buf
  BY <1>7 DEF Contents
<1> QED
  BY <1>2, <1>3, <1>5, <1>6, <1>7 DEF Next, Queue!Next

\* Buffer implements ByteQueue.
THEOREM ImplementsQueue == Spec => QueueSpec
<1> QED
  BY QueueInit, QueueStep, Invariance, PTL DEF Spec, QueueSpec, Queue!Spec
==============================================================================

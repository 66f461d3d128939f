-------------------------------- MODULE Buffer --------------------------------
(***************************************************************************)
(* Buffer (buffer.h, buffer.cc): a vector of bytes with two indices.  The  *)
(* readable bytes lie between them, and makeSpace() makes room for more by *)
(* growing the vector or by moving the readable bytes down to              *)
(* kCheapPrepend.                                                          *)
(*                                                                         *)
(* A buffer is a record, and a member function an operator from the buffer *)
(* before the call to the buffer after it, so that the modules that own    *)
(* buffers use the same operators.  The element of buffer_ that C++ calls  *)
(* i is element i + 1 of a sequence here.                                  *)
(***************************************************************************)
EXTENDS Integers, Sequences

CONSTANTS
  kCheapPrepend,
  kInitiaSize,
  ExtraBuf,    \* the size of readFd's extrabuf
  Bytes,
  Zero,        \* the byte that fills what resize() adds
  Data,        \* the byte strings a call appends or finds in the socket
  MaxReadable  \* bound: no more readable bytes than that

ASSUME BufferAssumption ==
  /\ kCheapPrepend \in Nat
  /\ kInitiaSize \in Nat
  /\ ExtraBuf \in Nat
  /\ Zero \in Bytes
  /\ Data \subseteq Seq(Bytes)
  /\ MaxReadable \in Nat

VARIABLE buf  \* the fields of the object

Buffers == [buffer_: Seq(Bytes), readerIndex_: Nat, writeIndex_: Nat]

\* The indices are in order and inside the vector.
Valid(b) ==
  /\ b \in Buffers
  /\ kCheapPrepend <= b.readerIndex_
  /\ b.readerIndex_ <= b.writeIndex_
  /\ b.writeIndex_ <= Len(b.buffer_)

-----------------------------------------------------------------------------
(* The member functions.                                                   *)

readableBytes(b) == b.writeIndex_ - b.readerIndex_
writableBytes(b) == Len(b.buffer_) - b.writeIndex_
perpendableBytes(b) == b.readerIndex_

\* The readable bytes.
Contents(b) == SubSeq(b.buffer_, b.readerIndex_ + 1, b.writeIndex_)

\* The constructor, which takes kInitiaSize whatever size it is asked for.
NewBuffer ==
  [buffer_ |-> [i \in 1 .. kCheapPrepend + kInitiaSize |-> Zero],
   readerIndex_ |-> kCheapPrepend,
   writeIndex_ |-> kCheapPrepend]

\* std::copy of d to position "at" of the vector v.
Copied(v, at, d) ==
  [i \in 1 .. Len(v) |-> IF i \in at + 1 .. at + Len(d) THEN d[i - at] ELSE v[i]]

\* vector::resize to a size not below the present one.
Resized(v, size) ==
  [i \in 1 .. size |-> IF i <= Len(v) THEN v[i] ELSE Zero]

retrieveAll(b) ==
  [b EXCEPT !.readerIndex_ = kCheapPrepend, !.writeIndex_ = kCheapPrepend]

\* Mutant: the indices go back to kCheapPrepend only if more is asked for
\* than is readable, and len is not capped.
retrieveUncapped(b, len) == [b EXCEPT !.readerIndex_ = @ + len]
retrieve(b, len) ==
  IF len < readableBytes(b)
  THEN [b EXCEPT !.readerIndex_ = @ + len]
  ELSE retrieveAll(b)

\* Mutants: the reserve in front of the bytes is not counted; the bytes are
\* never moved.
mustGrowNoReserve(b, len) == writableBytes(b) + perpendableBytes(b) < len
alwaysGrow(b, len) == TRUE
mustGrow(b, len) ==
  writableBytes(b) + perpendableBytes(b) < len + kCheapPrepend

\* Mutant: the indices are moved, the bytes are not.
movedIndices(b) ==
  [b EXCEPT !.readerIndex_ = kCheapPrepend,
            !.writeIndex_ = kCheapPrepend + readableBytes(b)]
movedDown(b) ==
  [buffer_ |-> Copied(b.buffer_, kCheapPrepend, Contents(b)),
   readerIndex_ |-> kCheapPrepend,
   writeIndex_ |-> kCheapPrepend + readableBytes(b)]

makeSpace(b, len) ==
  IF mustGrow(b, len)
  THEN [b EXCEPT !.buffer_ = Resized(b.buffer_, len + b.writeIndex_)]
  ELSE movedDown(b)

ensureWriteableBytes(b, len) ==
  IF writableBytes(b) < len THEN makeSpace(b, len) ELSE b

\* d put at the write index of a buffer with room for it.
written(b, d) ==
  [b EXCEPT !.buffer_ = Copied(b.buffer_, b.writeIndex_, d),
            !.writeIndex_ = @ + Len(d)]

append(b, d) == written(ensureWriteableBytes(b, Len(d)), d)

\* The most readv can return: extrabuf is offered only beside a small rest.
readCapacity(b) ==
  IF writableBytes(b) < ExtraBuf
  THEN writableBytes(b) + ExtraBuf
  ELSE writableBytes(b)

\* readFd when readv fills in d: what does not fit goes through extrabuf.
readFd(b, d) ==
  LET writable == writableBytes(b)
  IN IF Len(d) <= writable
     THEN written(b, d)
     ELSE append(written(b, SubSeq(d, 1, writable)),
                 SubSeq(d, writable + 1, Len(d)))

\* What writeFd hands to write(): from peek() on, writableBytes() bytes.
offered(b) ==
  SubSeq(b.buffer_, b.readerIndex_ + 1, b.readerIndex_ + writableBytes(b))

-----------------------------------------------------------------------------
(* One buffer under any sequence of calls.                                 *)

\* The indices stay in order and inside the vector.
TypeOK == Valid(buf)

Init == buf = NewBuffer

Fits(d) == readableBytes(buf) + Len(d) <= MaxReadable

AppendTo(d) ==
  /\ Fits(d)
  /\ buf' = append(buf, d)

ReadFd(d) ==
  /\ Fits(d)
  /\ Len(d) <= readCapacity(buf)
  /\ buf' = readFd(buf, d)

Retrieve(len) == buf' = retrieve(buf, len)

\* Its result is Contents(buf).
retrieveAllAsString == buf' = retrieve(buf, readableBytes(buf))

Next ==
  \/ \E d \in Data : AppendTo(d)
  \/ \E d \in Data : ReadFd(d)
  \/ \E len \in 0 .. MaxReadable + 1 : Retrieve(len)
  \/ retrieveAllAsString

Spec == Init /\ [][Next]_buf

-----------------------------------------------------------------------------
(* Properties.                                                             *)

\* Whatever the order of calls, the bytes that leave are the bytes that came
\* in, in order, though they are moved, split between the vector and
\* extrabuf, and copied by resize (buffer.h:37-108, buffer.cc:13-48).
Queue == INSTANCE ByteQueue WITH Strings <- Data, bytes <- Contents(buf)

QueueSpec == Queue!Spec

\* When makeSpace moves the readable bytes, they go to a lower address, as
\* std::copy of overlapping ranges requires (buffer.h:95-108).
MovesToLowerAddress ==
  \A len \in 0 .. MaxReadable :
    writableBytes(buf) < len /\ ~mustGrow(buf, len)
      => kCheapPrepend < buf.readerIndex_

\* A vector grown as far as MaxReadable readable bytes may need.
Grown(b) ==
  \/ Len(b.buffer_) <= kCheapPrepend + kInitiaSize
  \/ Len(b.buffer_) < kCheapPrepend + 2 * MaxReadable

\* The vector never shrinks, yet a buffer that is never emptied does not grow
\* without end: it stays below twice the largest backlog (buffer.h:95-108).
GrowthBounded == Grown(buf)

\* After any operation the indices are in order and inside the vector, no byte
\* written is outside it, and its length is within the bound of the largest
\* backlog (buffer.h:34-108, buffer.cc:13-46).
BufferInv ==
  /\ TypeOK
  /\ readableBytes(buf) <= MaxReadable
  /\ GrowthBounded
==============================================================================

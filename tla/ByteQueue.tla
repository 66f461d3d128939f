------------------------------ MODULE ByteQueue ------------------------------
(***************************************************************************)
(* What a Buffer promises: a queue of bytes.  Bytes leave it in the order  *)
(* they entered it, unchanged.  Buffer implements it: see Buffer!Queue and *)
(* BufferProofs.                                                           *)
(***************************************************************************)
EXTENDS Integers, Sequences

CONSTANT Strings  \* the byte strings put at once

VARIABLES bytes

Init == bytes = <<>>

Put(d) == bytes' = bytes \o d

\* The first n bytes leave.
Take(n) == bytes' = SubSeq(bytes, n + 1, Len(bytes))

Next ==
  \/ \E d \in Strings : Put(d)
  \/ \E n \in 0 .. Len(bytes) : Take(n)

Spec == Init /\ [][Next]_bytes
==============================================================================

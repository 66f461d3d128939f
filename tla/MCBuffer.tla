------------------------------- MODULE MCBuffer -------------------------------
(***************************************************************************)
(* A buffer of four cells after a reserve of one, over two byte values:    *)
(* every string of up to three bytes is appended or read, more than        *)
(* extrabuf takes, so that one readFd fills the vector, moves and grows.   *)
(***************************************************************************)
EXTENDS Buffer

SmallBytes == {0, 1}
SmallData == UNION {[1 .. n -> SmallBytes] : n \in 1 .. 3}
==============================================================================

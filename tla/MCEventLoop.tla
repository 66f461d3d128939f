----------------------------- MODULE MCEventLoop -----------------------------
(***************************************************************************)
(* Instance of EventLoop for TLC: the constants are given in the .cfg      *)
(* files.  The number of submissions is the number of Functors.            *)
(***************************************************************************)
EXTENDS EventLoop
==============================================================================

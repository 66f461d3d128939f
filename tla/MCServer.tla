------------------------------- MODULE MCServer -------------------------------
(***************************************************************************)
(* Server with few descriptors: one for the listening socket, the others   *)
(* for connections, so that accept() runs out of them.                     *)
(***************************************************************************)
EXTENDS Server
==============================================================================

---------------------------- MODULE MCConnection ----------------------------
(* Connection with the loop thread and two other threads that call it.     *)
EXTENDS Connection
=============================================================================

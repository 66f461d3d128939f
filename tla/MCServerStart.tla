---------------------------- MODULE MCServerStart ----------------------------
(* ServerStart with five callers, or two, and up to two pool threads.      *)
EXTENDS ServerStart
=============================================================================

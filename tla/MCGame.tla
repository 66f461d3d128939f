-------------------------------- MODULE MCGame --------------------------------
(***************************************************************************)
(* Game with three players and figures scaled down: a player survives two  *)
(* blows, not always three, and has magic for two attacks.                 *)
(***************************************************************************)
EXTENDS Game, TLC

Symmetry == Permutations(Players)
===============================================================================

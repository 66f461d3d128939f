------------------------------- MODULE MCOutput -------------------------------
(***************************************************************************)
(* Output with an output buffer of three cells after a reserve of one.     *)
(***************************************************************************)
EXTENDS Output

SmallBytes == {0, 1, 2}
SmallData == {<<1>>, <<2, 1>>, <<1, 2, 2>>}
==============================================================================

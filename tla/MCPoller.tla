------------------------------- MODULE MCPoller -------------------------------
(***************************************************************************)
(* Instances of Poller: three channel objects over two descriptors, so     *)
(* that a descriptor is closed and given to another channel while the      *)
(* other one stays registered.                                             *)
(***************************************************************************)
EXTENDS Poller
==============================================================================

-------------------------- MODULE MCFunctionalPool --------------------------
(***************************************************************************)
(* Instances of FunctionalPool for TLC: scripts that hold one instance at  *)
(* a time (MCFunctionalPool.cfg) and scripts that hold two                 *)
(* (MCFunctionalPoolNested.cfg).                                           *)
(***************************************************************************)
EXTENDS FunctionalPool
=============================================================================

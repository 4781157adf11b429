-------------------------- MODULE MCFairReconciler --------------------------
(***************************************************************************)
(* Small instances of FairReconciler for TLC.                              *)
(***************************************************************************)
EXTENDS FairReconciler
=============================================================================

-------------------------- MODULE MCVAppLifecycle --------------------------
(* Small instances of VAppLifecycle for TLC. *)
EXTENDS VAppLifecycle

=============================================================================

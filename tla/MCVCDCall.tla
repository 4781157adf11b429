----------------------------- MODULE MCVCDCall -----------------------------
(* Small instances of VCDCall for TLC. *)
EXTENDS VCDCall

=============================================================================

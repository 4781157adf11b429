---------------------------- MODULE MCOpLimiter ----------------------------
(* Small instances of OpLimiter for TLC. *)
EXTENDS OpLimiter

=============================================================================

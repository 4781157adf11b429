--------------------------- MODULE MCThrottleGate ---------------------------
(* Small instances of ThrottleGate for TLC. *)
EXTENDS ThrottleGate, TLC

Interchangeable == Permutations(Calls)

=============================================================================

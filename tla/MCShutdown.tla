----------------------------- MODULE MCShutdown -----------------------------
(* Small instances of Shutdown for TLC. *)
EXTENDS Shutdown, TLC

Symmetry ==
    Permutations(Slots) \cup Permutations(VApps \ Leftovers)

=============================================================================

----------------------------- MODULE MCPromises -----------------------------
(* Small instances of Promises for TLC. *)
EXTENDS Promises, TLC

\* Intents, slots and vApps of the same origin are interchangeable.
Symmetry ==
    Permutations(Intents) \cup Permutations(Slots)
       \cup Permutations(Leftovers) \cup Permutations(VApps \ Leftovers)

=============================================================================

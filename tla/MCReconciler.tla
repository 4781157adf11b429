---------------------------- MODULE MCReconciler ----------------------------
(***************************************************************************)
(* Small instances of Reconciler for TLC.                                  *)
(***************************************************************************)
EXTENDS Reconciler, TLC

\* Intents, slots and vApps of the same origin are interchangeable.
Symmetry ==
    Permutations(Intents) \cup Permutations(Slots)
       \cup Permutations(Leftovers) \cup Permutations(VApps \ Leftovers)

=============================================================================

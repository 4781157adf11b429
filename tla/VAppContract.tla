---------------------------- MODULE VAppContract ----------------------------
(***************************************************************************)
(* What Reconciler takes for granted of createInstance, deleteInstance and *)
(* cleanUpInstanceByName: a few steps with an outcome on one vApp, seen as *)
(* "absent", "late" (a POST that vCD will still commit), "bare" (without   *)
(* the group's metadata) or "tagged".                                      *)
(***************************************************************************)

VARIABLES
    state,       \* what vCD holds
    creating,    \* "post", "meta", "build", or how the create ended
    deleting,    \* "no", "yes", or how the last delete ended
    tried        \* has a delete been tried?

contractVars == <<state, creating, deleting, tried>>

Exists == state \in {"bare", "tagged"}

ContractInit ==
    /\ state = "absent"
    /\ creating = "post"
    /\ deleting = "no"
    /\ tried = FALSE

createRawVApp(ok) ==
    /\ creating = "post"
    /\ IF ok THEN state' = "bare" ELSE state' \in {"absent", "bare", "late"}
    /\ creating' = IF ok THEN "meta" ELSE "failed"
    /\ UNCHANGED <<deleting, tried>>

AddMetadata(ok) ==
    /\ creating = "meta"
    /\ state' \in IF ok THEN {"tagged"} ELSE {"bare", "tagged"}
    /\ creating' = IF ok THEN "build" ELSE "failed"
    /\ UNCHANGED <<deleting, tried>>

BuildVM(ok) ==
    /\ creating = "build"
    /\ creating' = IF ok THEN "created" ELSE "failed"
    /\ UNCHANGED <<state, deleting, tried>>

\* A delete starts only once the create has ended; without the name in memory
\* only of a vApp that the search returns.
BeginDelete ==
    /\ deleting \in {"no", "failed"}
    /\ \/ creating \in {"created", "failed"}
       \/ creating \in {"crashed", "forgotten"} /\ state = "tagged"
    /\ deleting' = "yes"
    /\ tried' = TRUE
    /\ UNCHANGED <<state, creating>>

\* Success means that the vApp is gone and that no POST will bring it back.
DeleteEnds(ok) ==
    /\ deleting = "yes"
    /\ ok => state = "absent"
    /\ deleting' = IF ok THEN "deleted" ELSE "failed"
    /\ UNCHANGED <<state, creating, tried>>

\* The cleanup of a failed create gives up the name, with the vApp in place.
Forget ==
    /\ deleting = "yes"
    /\ creating = "failed"
    /\ Exists
    /\ deleting' = "failed"
    /\ creating' = "forgotten"
    /\ UNCHANGED <<state, tried>>

\* A delete that vCD accepted is carried out, with or without somebody waiting.
Vanish ==
    /\ tried
    /\ Exists
    /\ state' = "absent"
    /\ UNCHANGED <<creating, deleting, tried>>

LateCommit ==
    /\ state = "late"
    /\ state' = "bare"
    /\ UNCHANGED <<creating, deleting, tried>>

Crash ==
    /\ creating' = IF creating = "created" THEN creating ELSE "crashed"
    /\ deleting' = IF deleting = "yes" THEN "failed" ELSE deleting
    /\ CASE creating = "post" -> state' \in {"absent", "late", "bare"}
         [] creating = "meta" -> state' \in {"bare", "tagged"}
         [] OTHER -> UNCHANGED state
    /\ UNCHANGED tried

ContractNext ==
    \/ \E ok \in BOOLEAN : createRawVApp(ok) \/ AddMetadata(ok) \/ BuildVM(ok)
    \/ BeginDelete
    \/ \E ok \in BOOLEAN : DeleteEnds(ok)
    \/ Forget
    \/ Vanish
    \/ LateCommit
    \/ Crash

ContractSpec == ContractInit /\ [][ContractNext]_contractVars

=============================================================================

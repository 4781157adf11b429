------------------------------ MODULE Promises ------------------------------
(***************************************************************************)
(* What Reconciler promises to fleeting, through Update (src/provider.go): *)
(* a specification that Reconciler implements.                             *)
(***************************************************************************)
EXTENDS Reconciler

\* What Update reports of a vApp: leftovers and deleted instances are left out,
\* and an entry without an HREF cannot be reported. "Gone" tells a deleted entry
\* from none.
Update(v) ==
    LET entries == {i \in Intents : instances[i].ID = v}
        in(phases) == \E i \in entries : instances[i].Phase \in phases
    IN  IF in({"Running"}) THEN "Running"
        ELSE IF in({"PendingDelete", "Deleting"}) THEN "Deleting"
        ELSE IF in({"Deleted"}) THEN "Gone"
        ELSE "none"

View == INSTANCE FleetingView
    WITH waiting <- {i \in Intents : Tracked(i) /\ instances[i].ID = None},
         shown <- [v \in VApps |-> Update(v)],
         run <- restarts

\* Until the program restarts, fleeting never sees an instance it did not ask
\* for, loses a request before it is met, or sees an instance on its way out back
\* in use, whatever failed creates, discovery, polls that miss a vApp and late
\* results of deletes do to the store.
FleetingIsToldTheTruth == View!ViewSpec

=============================================================================

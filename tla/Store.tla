------------------------------- MODULE Store -------------------------------
(***************************************************************************)
(* desiredStateStore (src/store.go): the cache of desired and observed     *)
(* instance state, shared by the reconcile goroutine, the goroutines that  *)
(* run creates and deletes, and the callers of the provider interface.     *)
(* Every method takes the store's mutex for its whole body, so every       *)
(* method is one atomic operator here; the modules that EXTEND this one    *)
(* say which goroutine calls it and when.                                  *)
(*                                                                         *)
(* A vApp is one value that stands for its name and for its HREF: names    *)
(* are random and never reused, and vCD gives each named vApp one HREF.    *)
(* Timestamps are abstracted to the decisions taken on them.               *)
(***************************************************************************)
EXTENDS Naturals, FiniteSets

CONSTANTS
    Intents,    \* intent IDs that Increase may generate
    VApps,      \* vApps (as a name and as an HREF)
    None,       \* the empty HREF, a missing map entry
    missedPollsBeforeDisappeared

ASSUME StoreAssumption ==
    /\ Intents \cap VApps = {}
    /\ None \notin Intents \cup VApps
    /\ missedPollsBeforeDisappeared \in Nat \ {0}

VARIABLES
    instances,   \* the map keyed by IntentID; "Untracked" stands for no entry
    byVAppHREF   \* the secondary index: an HREF to the IntentID of its entry

storeVars == <<instances, byVAppHREF>>

\* Keys of the map: a leftover vApp uses its HREF as its IntentID.
IDs == Intents \cup VApps

Phases == {"PendingCreate", "Creating", "Running",
           "PendingDelete", "Deleting", "Deleted"}

\* Retry is NextRetryAfter # nil. MissedPolls saturates at the threshold, the
\* only value it is compared with.
Instance == [Phase : Phases \cup {"Untracked"},
             ID : VApps \cup {None},
             MissedPolls : 0 .. missedPollsBeforeDisappeared,
             Retry : BOOLEAN]

StoreTypeOK ==
    /\ instances \in [IDs -> Instance]
    /\ byVAppHREF \in [VApps -> IDs \cup {None}]

NewInstance(phase, href) ==
    [Phase |-> phase, ID |-> href, MissedPolls |-> 0, Retry |-> FALSE]

NoInstance == NewInstance("Untracked", None)

newDesiredStateStore ==
    /\ instances = [i \in IDs |-> NoInstance]
    /\ byVAppHREF = [v \in VApps |-> None]

Tracked(i) == instances[i].Phase # "Untracked"

\* Only AddLeftover makes an entry whose IntentID is an HREF.
Leftover(i) == i \in VApps

InPhase(phase) == {i \in IDs : instances[i].Phase = phase}

-----------------------------------------------------------------------------
(* Methods that read.                                                      *)

\* An intent is found by IntentID first, then by HREF.
findLocked(id) ==
    IF Tracked(id) THEN id
    ELSE IF id \in VApps THEN byVAppHREF[id] ELSE None

LeftoverCount ==
    Cardinality({i \in IDs : Leftover(i) /\ instances[i].Phase
                                              \notin {"Untracked", "Deleted"}})

Size == Cardinality({i \in IDs : instances[i].Phase
                                   \notin {"Untracked", "Deleted"}})

\* The possible results of GetPendingCreates and GetPendingDeletes: an entry
\* that never failed is in; one that did is in once its backoff has elapsed.
PendingSnapshots(phase) ==
    LET pending == InPhase(phase)
        waiting == {i \in pending : instances[i].Retry}
    IN  {(pending \ waiting) \cup elapsed : elapsed \in SUBSET waiting}

-----------------------------------------------------------------------------
(* Methods that write.                                                     *)

AddCreateIntent(i) ==
    /\ instances' = [instances EXCEPT ![i] = NewInstance("PendingCreate", None)]
    /\ UNCHANGED byVAppHREF

\* A dropped phase check: any entry goes to PendingDelete.
MarkForDeletionAnyPhase(id) ==
    LET i == findLocked(id) IN
    /\ instances' = IF i = None THEN instances
                    ELSE [instances EXCEPT ![i].Phase = "PendingDelete"]
    /\ UNCHANGED byVAppHREF

MarkForDeletion(id) ==
    LET i == findLocked(id) IN
    /\ instances' = IF i = None \/ instances[i].Phase # "Running" THEN instances
                    ELSE [instances EXCEPT ![i].Phase = "PendingDelete"]
    /\ UNCHANGED byVAppHREF

\* UpdateInstance with the entry already passed through the callback: it
\* indexes the HREF and drops another entry found under the same HREF.
UpdateInstance(i, inst) ==
    IF ~Tracked(i) THEN UNCHANGED storeVars
    ELSE IF inst.ID = None
    THEN /\ instances' = [instances EXCEPT ![i] = inst]
         /\ UNCHANGED byVAppHREF
    ELSE /\ instances' = [j \in IDs |->
                            IF j = i THEN inst
                            ELSE IF j = byVAppHREF[inst.ID] THEN NoInstance
                            ELSE instances[j]]
         /\ byVAppHREF' = [byVAppHREF EXCEPT ![inst.ID] = i]

\* A dropped "already tracked" check.
AddLeftoverUnchecked(v) ==
    /\ instances' = [instances EXCEPT ![v] = NewInstance("PendingDelete", v)]
    /\ byVAppHREF' = [byVAppHREF EXCEPT ![v] = v]

AddLeftover(v) ==
    IF byVAppHREF[v] # None THEN UNCHANGED storeVars
    ELSE /\ instances' = [instances EXCEPT ![v] = NewInstance("PendingDelete", v)]
         /\ byVAppHREF' = [byVAppHREF EXCEPT ![v] = v]

\* An observed instance counts as running.
UpdateFromVCDRevives(v) ==
    /\ instances' = IF byVAppHREF[v] = None THEN instances
                    ELSE [instances EXCEPT ![byVAppHREF[v]].MissedPolls = 0,
                                           ![byVAppHREF[v]].Phase = "Running"]
    /\ UNCHANGED byVAppHREF

\* Name, IP, statuses and OS type are copied too; no decision depends on them.
UpdateFromVCD(v) ==
    /\ instances' = IF byVAppHREF[v] = None THEN instances
                    ELSE [instances EXCEPT ![byVAppHREF[v]].MissedPolls = 0]
    /\ UNCHANGED byVAppHREF

\* One more missed poll; at the threshold the instance counts as deleted.
Miss(inst) ==
    LET misses == inst.MissedPolls + 1 IN
    IF misses >= missedPollsBeforeDisappeared
    THEN [inst EXCEPT !.MissedPolls = missedPollsBeforeDisappeared,
                      !.Phase = "Deleted"]
    ELSE [inst EXCEPT !.MissedPolls = misses]

MarkDisappeared(known) ==
    /\ instances' = [i \in IDs |->
          IF /\ instances[i].Phase \in {"Running", "PendingDelete", "Deleting"}
             /\ instances[i].ID \notin known \cup {None}
          THEN Miss(instances[i])
          ELSE instances[i]]
    /\ UNCHANGED byVAppHREF

\* Prune forgets the secondary index.
CollectAndPruneKeepsIndex(aged, dead) ==
    /\ instances' = [i \in IDs |->
          IF i \in dead THEN NoInstance
          ELSE IF i \in aged THEN [instances[i] EXCEPT !.Phase = "PendingDelete"]
          ELSE instances[i]]
    /\ UNCHANGED byVAppHREF

\* GetRunningForGC and MarkGC for the instances in aged, and Prune of the
\* entries in dead. Only the age of an entry decides whether it is in.
CollectAndPrune(aged, dead) ==
    /\ instances' = [i \in IDs |->
          IF i \in dead THEN NoInstance
          ELSE IF i \in aged THEN [instances[i] EXCEPT !.Phase = "PendingDelete"]
          ELSE instances[i]]
    /\ byVAppHREF' = [v \in VApps |->
          IF \E i \in dead : instances[i].ID = v THEN None ELSE byVAppHREF[v]]
=============================================================================

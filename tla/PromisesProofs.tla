--------------------------- MODULE PromisesProofs ---------------------------
(***************************************************************************)
(* The proof that Reconciler implements FleetingView, for any finite       *)
(* number of slots, any limits, intents and vApps.                         *)
(***************************************************************************)
EXTENDS Promises, ReconcilerProofs

-----------------------------------------------------------------------------
(* Every step is a step of what fleeting may see, or leaves that alone.    *)

waiting == {i \in Intents : Tracked(i) /\ instances[i].ID = None}
shown == [v \in VApps |-> Update(v)]

\* What Update makes of the phase of an instance with an HREF.
Shows(phase) ==
    CASE phase = "Running" -> "Running"
      [] phase \in {"PendingDelete", "Deleting"} -> "Deleting"
      [] phase = "Deleted" -> "Gone"

\* The index has at most one entry for a vApp, so Update reports just its phase.
Reports(v) ==
    /\ \A i \in Intents : instances[i].ID = v =>
          /\ Update(v) = Shows(instances[i].Phase)
          /\ instances[i].Phase \in {"Running"} \cup DyingPhases
    /\ (\A i \in Intents : instances[i].ID # v) => Update(v) = "none"

\* IndexConsistent makes it so.
LEMMA UpdateReports == IInv => \A v \in VApps : Reports(v)
<1>. SUFFICES ASSUME IInv, NEW v \in VApps PROVE Reports(v)
  OBVIOUS
<1>1. \A i, j \in Intents : instances[i].ID = v /\ instances[j].ID = v => i = j
  BY StoreAssumption DEF IInv, IndexConsistent, IDs
<1>2. \A i \in Intents : instances[i].ID = v =>
         instances[i].Phase \in {"Running"} \cup DyingPhases
  BY StoreAssumption DEF IInv, Types, StoreTypeOK, EntryShape, Instance, Phases, DyingPhases, IDs
<1>3. ASSUME NEW i \in Intents, instances[i].ID = v
      PROVE  Update(v) = Shows(instances[i].Phase)
  BY <1>1, <1>2, <1>3 DEF Update, Shows, DyingPhases
<1>4. ASSUME \A i \in Intents : instances[i].ID # v
      PROVE  Update(v) = "none"
  BY <1>4 DEF Update
<1>. QED  BY <1>2, <1>3, <1>4 DEF Reports

\* So it does after a step.
LEMMA UpdateReportsNext == IInv' => (\A v \in VApps : Reports(v))'
  BY UpdateReports, PTL

\* An entry that shows no vApp before and after, one that only ages, and one that
\* is forgotten once it is deleted.
Withdraws(i) ==
    \/ /\ instances[i].ID = None /\ instances'[i].ID = None
       /\ instances[i].Phase = "Untracked" <=> instances'[i].Phase = "Untracked"
    \/ instances[i].ID # None /\ Ages(instances[i], instances'[i])
    \/ /\ instances[i].Phase = "Deleted" /\ instances[i].ID # None
       /\ instances'[i].Phase = "Untracked" /\ instances'[i].ID = None

\* Fleeting may see such changes of any number of instances in one step.
LEMMA WithdrawingLeaves ==
    ASSUME IInv, IInv', restarts' = restarts, \A i \in Intents : Withdraws(i)
    PROVE  View!Leave
<1>1. waiting' = waiting
  <2>1. ASSUME NEW i \in Intents
        PROVE  (Tracked(i) /\ instances[i].ID = None) <=> (Tracked(i) /\ instances[i].ID = None)'
    BY DEF Withdraws, Tracked, Ages
  <2>. QED  BY <2>1 DEF waiting
<1>2. ASSUME NEW v \in VApps
      PROVE  /\ shown'[v] \in {"none", "Running", "Deleting", "Gone"}
             /\ shown'[v] = shown[v] \/ <<shown[v], shown'[v]>> \in View!Edges
  <2>1. shown[v] = Update(v) /\ shown'[v] = Update(v)'
    BY DEF shown
  <2>2. CASE \E i \in Intents : instances[i].ID = v
    <3>1. PICK i \in Intents : instances[i].ID = v
      BY <2>2
    <3>2. v # None /\ Update(v) = Shows(instances[i].Phase)
          /\ instances[i].Phase \in {"Running"} \cup DyingPhases
      BY <3>1, UpdateReports, StoreAssumption DEF Reports
    <3>3. CASE Ages(instances[i], instances'[i])
      <4>1. Update(v)' = Shows(instances'[i].Phase)
            /\ instances'[i].Phase \in {"Running"} \cup DyingPhases
        BY <3>1, <3>3, UpdateReportsNext DEF Ages, Reports
      <4>. QED  BY <2>1, <3>2, <3>3, <4>1 DEF Ages, Shows, DyingPhases, View!Edges
    <3>4. CASE instances[i].Phase = "Deleted" /\ instances'[i].ID = None
      <4>1. ASSUME NEW j \in Intents, instances'[j].ID = v PROVE FALSE
        BY <3>1, <3>2, <3>4, <4>1, StoreAssumption
           DEF Withdraws, Ages, IInv, IndexConsistent, IDs
      <4>2. Update(v)' = "none"
        BY <4>1, UpdateReportsNext DEF Reports
      <4>. QED  BY <2>1, <3>2, <3>4, <4>2 DEF Shows, View!Edges
    <3>. QED  BY <3>1, <3>2, <3>3, <3>4 DEF Withdraws
  <2>3. CASE \A i \in Intents : instances[i].ID # v
    <3>1. \A i \in Intents : instances'[i].ID # v
      BY <2>3, StoreAssumption DEF Withdraws, Ages
    <3>. QED  BY <2>1, <2>3, <3>1, UpdateReports, UpdateReportsNext DEF Reports
  <2>. QED  BY <2>2, <2>3
<1>. QED  BY <1>1, <1>2 DEF View!Leave, waiting, shown

\* The only request that is met is the one whose create succeeded.
LEMMA CreateReturnsOKMeets ==
    ASSUME IInv, IInv', NEW s \in Slots, CreateReturnsOK(s)
    PROVE  View!ViewNext
<1>1. PICK i \in Intents, v \in VApps :
         /\ i \in IDs /\ instances[i].Phase = "Creating" /\ instances[i].ID = None
         /\ byVAppHREF[v] = None
         /\ Sets(i, "Running", v)
  BY CreateReturnsOKEffect
<1>2. v # None /\ \A j \in Intents : j \in IDs
  BY StoreAssumption DEF IDs
<1>3. i \in waiting /\ waiting' = waiting \ {i}
  <2>1. ASSUME NEW j \in Intents
        PROVE  (Tracked(j) /\ instances[j].ID = None)' <=>
                  /\ Tracked(j) /\ instances[j].ID = None
                  /\ j # i
    BY <1>1, <1>2 DEF Sets, Tracked
  <2>. QED  BY <1>1, <2>1 DEF waiting, Tracked
<1>4. \A j \in Intents : instances[j].ID # v
  BY <1>1, <1>2, StoreAssumption DEF IInv, IndexConsistent
<1>5. Update(v) = "none" /\ Update(v)' = "Running"
  BY <1>1, <1>4, UpdateReports, UpdateReportsNext DEF Reports, Shows, Sets
<1>6. ASSUME NEW w \in VApps, w # v
      PROVE  Update(w)' = Update(w)
  <2>1. CASE \E j \in Intents : instances[j].ID = w
    <3>1. PICK j \in Intents : instances[j].ID = w
      BY <2>1
    <3>2. instances'[j] = instances[j]
      BY <1>1, <1>2, <3>1, StoreAssumption DEF Sets
    <3>. QED  BY <3>1, <3>2, UpdateReports, UpdateReportsNext DEF Reports
  <2>2. CASE \A j \in Intents : instances[j].ID # w
    <3>1. \A j \in Intents : instances'[j].ID # w
      BY <1>1, <1>2, <1>6, <2>2 DEF Sets
    <3>. QED  BY <2>2, <3>1, UpdateReports, UpdateReportsNext DEF Reports
  <2>. QED  BY <2>1, <2>2
<1>7. shown' = [shown EXCEPT ![v] = "Running"] /\ shown[v] = "none"
  BY <1>5, <1>6 DEF shown
<1>8. View!Ready(i, v)
  BY <1>3, <1>7 DEF View!Ready, waiting, shown, CreateReturnsOK, ghostVars
<1>. QED  BY <1>8 DEF View!ViewNext

\* Increase asks for an instance.
LEMMA IncreaseAsks ==
    ASSUME IInv, NEW i \in Intents, Increase(i)
    PROVE  View!ViewNext
<1>1. /\ instances[i].Phase = "Untracked" /\ instances[i].ID = None
      /\ \A j \in Intents : j # i => instances'[j] = instances[j]
      /\ instances'[i].Phase = "PendingCreate" /\ instances'[i].ID = None
  BY IncreaseEffect DEF IDs
<1>2. i \notin waiting /\ waiting' = waiting \cup {i}
  BY <1>1 DEF waiting, Tracked
<1>3. ASSUME NEW v \in VApps
      PROVE  Update(v)' = Update(v)
  <2>1. {j \in Intents : instances'[j].ID = v} = {j \in Intents : instances[j].ID = v}
    BY <1>1, StoreAssumption
  <2>2. \A j \in Intents : instances[j].ID = v => instances'[j] = instances[j]
    BY <1>1, StoreAssumption
  <2>. QED  BY <2>1, <2>2 DEF Update
<1>4. View!Ask(i)
  BY <1>2, <1>3 DEF View!Ask, waiting, shown, Increase, ghostVars
<1>. QED  BY <1>4 DEF View!ViewNext

\* A restart forgets the requests and the instances.
LEMMA RestartForgets ==
    ASSUME IInv, NEW sent \in SUBSET VApps, Restart(sent)
    PROVE  View!ViewNext
<1>1. \A i \in Intents : instances'[i].Phase = "Untracked" /\ instances'[i].ID = None
  BY DEF Restart, NoInstance, NewInstance, IDs
<1>2. waiting' = {}
  BY <1>1 DEF waiting, Tracked
<1>3. \A v \in VApps : Update(v)' = "none"
  BY <1>1, StoreAssumption DEF Update
<1>4. restarts' # restarts
  BY ReconcilerAssumption DEF Restart, IInv, Types
<1>5. View!Restart
  BY <1>2, <1>3, <1>4 DEF View!Restart, waiting, shown
<1>. QED  BY <1>5 DEF View!ViewNext

\* Whatever else happens to an instance withdraws it.
LEMMA OthersWithdraw ==
    ASSUME IInv, Next, \A s \in Slots : ~ CreateReturnsOK(s),
           \A i \in Intents : ~ Increase(i),
           \A sent \in SUBSET VApps : ~ Restart(sent)
    PROVE  \A i \in Intents : Withdraws(i)
<1>. USE DEF Withdraws, Ages, DyingPhases
<1>1. ASSUME UNCHANGED storeVars
      PROVE  \A i \in Intents : Withdraws(i)
  BY <1>1 DEF storeVars
<1>2. \A i \in Intents : i \in IDs /\ i \notin VApps
  BY StoreAssumption DEF IDs
<1>3. \A i \in IDs : instances[i].ID = None <=>
                         instances[i].Phase \in {"Untracked", "PendingCreate", "Creating"}
  BY DEF IInv, EntryShape
<1>4. CASE reconcileOnce
  <2>1. CASE \/ PollFails \/ SearchByFilter \/ (\E unread \in SUBSET work : readListedVApps(unread))
             \/ (\E v \in VApps : PollUntracked(v)) \/ ownsVApp
             \/ (\E timeout \in BOOLEAN : updateStartupHold(timeout))
             \/ dispatchCreates \/ dispatchDeletes \/ dispatchCreateCleanups
             \/ (\E v \in VApps, s \in Slots : DispatchCleanup(v, s))
    BY <1>1, <2>1 DEF PollFails, SearchByFilter, readListedVApps, PollUntracked, ownsVApp,
                      updateStartupHold, dispatchCreates, dispatchDeletes,
                      dispatchCreateCleanups, DispatchCleanup
  <2>2. CASE \E v \in VApps, vmRead \in BOOLEAN : PollTracked(v, vmRead)
    BY <1>2, <2>2, PollTrackedEffect
  <2>3. CASE PollAdopts
    BY <1>2, <2>3, PollAdoptsEffect
  <2>4. CASE PollEnds
    BY <1>2, <1>3, <2>4, PollEndsEffect DEF Misses
  <2>5. ASSUME NEW i \in Intents, NEW s \in Slots, DispatchCreate(i, s)
        PROVE  \A j \in Intents : Withdraws(j)
    BY <1>2, <2>5, DispatchCreateEffect DEF Sets
  <2>6. ASSUME NEW i \in IDs, NEW s \in Slots, DispatchDelete(i, s)
        PROVE  \A j \in Intents : Withdraws(j)
    BY <1>2, <1>3, <2>6, DispatchDeleteEffect DEF Sets
  <2>7. CASE GCAndPrune
    BY <1>2, <1>3, <2>7, GCAndPruneEffect
  <2>. QED  BY <1>4, <2>1, <2>2, <2>3, <2>4, <2>5, <2>6, <2>7 DEF reconcileOnce
<1>5. ASSUME NEW s \in Slots, doCreate(s)
      PROVE  \A i \in Intents : Withdraws(i)
  <2>1. CASE CreateReturnsError(s)
    BY <1>2, <2>1, CreateReturnsErrorEffect DEF Sets
  <2>2. CASE ~ CreateReturnsError(s)
    BY <1>1, <1>5, <2>2 DEF doCreate, CreatePreludeFails, ChooseName, createRawVApp,
                            AddMetadata, BuildVM, Abort, Disown, createRecorded
  <2>. QED  BY <2>1, <2>2
<1>6. ASSUME NEW s \in Slots, doDelete(s) \/ doCleanup(s)
      PROVE  \A i \in Intents : Withdraws(i)
  <2>1. CASE DeleteReturnsError(s) \/ DeleteReturnsOK(s)
    BY <1>2, <1>3, <2>1, DeleteReturnsEffect DEF DeleteRecords, Sets
  <2>2. CASE ~ DeleteReturnsError(s) /\ ~ DeleteReturnsOK(s)
    BY <1>1, <1>6, <2>2 DEF doDelete, doCleanup, deleteInstance, cleanUpInstanceByName,
                            CleanupReturns
  <2>. QED  BY <2>1, <2>2
<1>7. CASE Environment
  <2>1. CASE \E id \in IDs : Decrease(id)
    BY <1>2, <1>3, <2>1, DecreaseEffect
  <2>2. CASE (\E v \in VApps : LateCommit(v) \/ VAppVanishes(v)) \/ CooldownEnds
    BY <1>1, <2>2 DEF LateCommit, VAppVanishes, CooldownEnds
  <2>. QED  BY <1>7, <2>1, <2>2 DEF Environment
<1>. QED  BY <1>4, <1>5, <1>6, <1>7 DEF Next

\* For any number of intents, vApps and slots, what Update tells fleeting is a
\* behaviour of FleetingView: no instance it did not ask for, no request lost
\* before it is met, no instance back in use once on its way out. Only a restart of
\* the plugin, which FleetingView sees, forgets everything.
THEOREM FleetingSeesTheTruth == Spec => FleetingIsToldTheTruth
<1>1. Init => View!ViewInit
  <2>. SUFFICES ASSUME Init PROVE View!ViewInit
    OBVIOUS
  <2>1. \A i \in Intents : instances[i].Phase = "Untracked" /\ instances[i].ID = None
    BY DEF Init, newDesiredStateStore, NoInstance, NewInstance, IDs
  <2>2. \A v \in VApps : Update(v) = "none"
    BY <2>1, StoreAssumption DEF Update
  <2>. QED  BY <2>1, <2>2 DEF View!ViewInit, Tracked
<1>2. IInv /\ IInv' /\ [Next]_vars => [View!ViewNext]_(View!viewVars)
  <2>. SUFFICES ASSUME IInv, IInv', [Next]_vars PROVE [View!ViewNext]_(View!viewVars)
    OBVIOUS
  <2>1. CASE UNCHANGED vars
    <3>1. instances' = instances /\ restarts' = restarts
      BY <2>1 DEF vars, storeVars, ghostVars
    <3>. QED  BY <3>1 DEF View!viewVars, Tracked, Update
  <2>2. CASE Next
    <3>1. CASE \/ \E s \in Slots : CreateReturnsOK(s)
               \/ \E i \in Intents : Increase(i)
               \/ \E sent \in SUBSET VApps : Restart(sent)
      BY <3>1, CreateReturnsOKMeets, IncreaseAsks, RestartForgets
    <3>2. CASE /\ \A s \in Slots : ~ CreateReturnsOK(s)
               /\ \A i \in Intents : ~ Increase(i)
               /\ \A sent \in SUBSET VApps : ~ Restart(sent)
      BY <2>2, <3>2, OnlyRestartsCount, OthersWithdraw, WithdrawingLeaves DEF View!ViewNext
    <3>. QED  BY <3>1, <3>2
  <2>. QED  BY <2>1, <2>2
<1>. QED  BY <1>1, <1>2, InvariantHolds, PTL DEF Spec, FleetingIsToldTheTruth, View!ViewSpec

=============================================================================

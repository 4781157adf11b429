-------------------------- MODULE ReconcilerProofs --------------------------
(***************************************************************************)
(* Proofs of the safety properties of Reconciler, for every number of      *)
(* intents, vApps and slots, every limit and every threshold.              *)
(***************************************************************************)
EXTENDS Reconciler, TLAPS

-----------------------------------------------------------------------------
(* The inductive invariant.                                                *)

\* A create that still counts on its vApp, and one about to hand it over.
OwningPcs == {"post", "meta", "build", "created", "abort"}

\* A create that has not yet written its result to the store.
PendingPcs == CreatePcs \ {"record"}

DyingPhases == {"PendingDelete", "Deleting", "Deleted"}

\* TypeOK without its clause on deletes, which OpShape implies.
Types ==
    /\ StoreTypeOK
    /\ vcd \in [VApps -> VAppStates]
    /\ inflightCreates \subseteq VApps
    /\ failedCreateCleanups \subseteq VApps
    /\ ops \in [Slots -> Op]
    /\ pc \in LoopPcs
    /\ work \subseteq IDs
    /\ cur \in VApps \cup {None}
    /\ known \subseteq VApps
    /\ pollOK \in BOOLEAN
    /\ startup \in {"unpolled", "held", "clean", "timedOut"}
    /\ createFailures \in 0 .. circuitBreakerThreshold
    /\ breakerOpen \in BOOLEAN
    /\ old \subseteq VApps
    /\ forgotten \subseteq VApps
    /\ restarts \in 0 .. MaxRestarts

\* Which operations carry an intent and a vApp; the delete of a leftover has
\* its HREF as both.
OpShape ==
    \A s \in Slots :
       /\ ops[s].pc \in CreatePcs => ops[s].intent \in Intents
       /\ ops[s].pc \in OwningPcs \cup {"record", "disown"} => ops[s].vapp \in VApps
       /\ ops[s].pc \in DeletePcs => ops[s].intent \in Intents \cup {ops[s].vapp}
       /\ ops[s].pc \in DeletePcs \cup CleanupPcs => ops[s].vapp \in VApps
       /\ ops[s].pc \in {"free", "init"} => ops[s].vapp = None

\* An entry has an HREF from the moment its create succeeded; a leftover's HREF
\* is its key.
EntryShape ==
    \A i \in IDs :
       /\ instances[i].ID = None <=>
             instances[i].Phase \in {"Untracked", "PendingCreate", "Creating"}
       /\ i \in VApps => \/ instances[i].Phase = "Untracked"
                         \/ instances[i].ID = i

\* A create in progress has its intent to itself.
IntentOwned ==
    /\ \A s \in Slots : ops[s].pc \in PendingPcs =>
          instances[ops[s].intent].Phase = "Creating"
    /\ \A s, t \in Slots :
          s # t /\ ops[s].pc \in PendingPcs /\ ops[t].pc \in PendingPcs =>
             ops[s].intent # ops[t].intent
    /\ \A s \in Slots : ops[s].pc \in DeletePcs =>
          \/ instances[ops[s].intent].Phase = "Untracked"
          \/ instances[ops[s].intent].ID = ops[s].vapp

\* A create in progress has its vApp to itself, and discovery has either not
\* looked at it yet or knows that it is owned.
VAppOwned ==
    \A s \in Slots : ops[s].pc \in OwningPcs =>
       LET v == ops[s].vapp IN
       /\ v \in inflightCreates
       /\ v \notin failedCreateCleanups
       /\ byVAppHREF[v] = None
       /\ \A t \in Slots : t # s => ops[t].vapp # v
       /\ pc \in {"owned", "adopt"} => cur # v
       /\ pc = "cleanupLoop" => v \notin work

\* No entry of v is on its way to be, or is, in use.
Doomed(v) ==
    \A i \in IDs : instances[i].ID = v => instances[i].Phase \in DyingPhases

\* Whatever is being deleted, or about to be, is doomed.
DeletesDoomed ==
    /\ \A s \in Slots : ops[s].pc \in DeletePcs \cup CleanupPcs => Doomed(ops[s].vapp)
    /\ \A v \in failedCreateCleanups : Doomed(v)
    /\ pc = "cleanupLoop" => \A v \in work : Doomed(v)

\* What a loop's snapshot still says when an item is visited.
WorkFresh ==
    /\ pc \in {"read", "poll", "inflight", "owned", "adopt", "cleanupLoop"} =>
          work \subseteq VApps
    /\ pc \in {"inflight", "owned", "adopt"} => cur \in VApps
    /\ pc = "createLoop" => \A i \in work : i \in Intents /\ instances[i].Phase = "PendingCreate"
    /\ pc = "deleteLoop" => \A i \in work : instances[i].ID # None

IInv ==
    /\ Types
    /\ OpShape
    /\ EntryShape
    /\ IndexConsistent
    /\ IntentOwned
    /\ VAppOwned
    /\ DeletesDoomed
    /\ WorkFresh

-----------------------------------------------------------------------------
(* What the store's methods do to an entry.                                *)

\* An entry that keeps its HREF, and its phase unless it moves towards deletion.
Ages(was, is) ==
    /\ is.ID = was.ID
    /\ \/ is.Phase = was.Phase
       \/ was.Phase \in {"Running"} \cup DyingPhases /\ is.Phase \in DyingPhases

\* A method that only ages entries keeps the store's own invariants
\* (UpdateFromVCD, MarkDisappeared, MarkForDeletion, MarkGC).
LEMMA AgingKeepsStore ==
    ASSUME StoreTypeOK, EntryShape, IndexConsistent,
           byVAppHREF' = byVAppHREF,
           \A i \in IDs : Ages(instances[i], instances'[i])
    PROVE  EntryShape' /\ IndexConsistent'
<1>1. EntryShape'
  BY DEF EntryShape, Ages, DyingPhases
<1>2. ASSUME NEW v \in VApps, byVAppHREF[v]' # None
      PROVE  (Tracked(byVAppHREF[v]) /\ instances[byVAppHREF[v]].ID = v)'
  BY <1>2 DEF StoreTypeOK, IndexConsistent, Ages, DyingPhases, Tracked
<1>3. ASSUME NEW i \in IDs, instances[i].ID' # None
      PROVE  (byVAppHREF[instances[i].ID] = i)'
  BY <1>3 DEF IndexConsistent, Ages
<1>. QED  BY <1>1, <1>2, <1>3 DEF IndexConsistent

\* Under aging, creates and deletes in progress keep their intents, whichever
\* operation ends meanwhile.
LEMMA AgingKeepsIntents ==
    ASSUME IntentOwned, OpShape, ops \in [Slots -> Op],
           \A i \in IDs : Ages(instances[i], instances'[i]),
           \/ ops' = ops
           \/ \E s \in Slots : ops' = [ops EXCEPT ![s] = Free]
    PROVE  IntentOwned'
<1>1. \A s \in Slots : ops'[s] = ops[s] \/ ops'[s].pc = "free"
  BY DEF Free
<1>2. \A s \in Slots : ops[s].pc \in PendingPcs \cup DeletePcs => ops[s].intent \in IDs
  BY DEF OpShape, PendingPcs, IDs
<1>. QED  BY <1>1, <1>2
             DEF IntentOwned, Ages, DyingPhases, PendingPcs, CreatePcs,
                 DeletePcs

\* Under aging, what is doomed stays doomed.
LEMMA AgingKeepsDoomed ==
    ASSUME \A i \in IDs : Ages(instances[i], instances'[i]),
           NEW v, Doomed(v)
    PROVE  Doomed(v)'
  BY DEF Doomed, Ages, DyingPhases

\* UpdateInstance on an entry whose HREF the callback leaves alone touches
\* nothing else: the index already leads to this entry.
LEMMA UpdateKeepsHREF ==
    ASSUME StoreTypeOK, IndexConsistent,
           NEW i \in IDs, Tracked(i),
           NEW inst \in Instance, inst.ID = instances[i].ID,
           UpdateInstance(i, inst)
    PROVE  /\ instances' = [instances EXCEPT ![i] = inst]
           /\ byVAppHREF' = byVAppHREF
<1>1. CASE inst.ID = None
  BY <1>1 DEF UpdateInstance
<1>2. CASE inst.ID # None
  <2>1. inst.ID \in VApps /\ byVAppHREF[inst.ID] = i
    BY <1>2 DEF IndexConsistent, Instance
  <2>2. instances' = [j \in IDs |-> IF j = i THEN inst ELSE instances[j]]
    BY <1>2, <2>1 DEF UpdateInstance
  <2>3. instances' = [instances EXCEPT ![i] = inst]
    BY <2>2 DEF StoreTypeOK
  <2>4. byVAppHREF' = byVAppHREF
    BY <1>2, <2>1 DEF UpdateInstance, StoreTypeOK
  <2>. QED  BY <2>3, <2>4
<1>. QED  BY <1>1, <1>2

\* MarkDisappeared only ages entries.
LEMMA MarkDisappearedAges ==
    ASSUME StoreTypeOK, NEW gone, MarkDisappeared(gone)
    PROVE  /\ StoreTypeOK'
           /\ byVAppHREF' = byVAppHREF
           /\ \A i \in IDs : Ages(instances[i], instances'[i])
<1>1. ASSUME NEW inst \in Instance, inst.Phase \in {"Running", "PendingDelete", "Deleting"}
      PROVE  Miss(inst) \in Instance /\ Ages(inst, Miss(inst))
  <2>. DEFINE misses == inst.MissedPolls + 1
  <2>1. CASE misses >= missedPollsBeforeDisappeared
    <3>1. Miss(inst) = [inst EXCEPT !.MissedPolls = missedPollsBeforeDisappeared,
                                    !.Phase = "Deleted"]
      BY <2>1 DEF Miss
    <3>2. missedPollsBeforeDisappeared \in 0 .. missedPollsBeforeDisappeared
      BY StoreAssumption
    <3>. QED  BY <1>1, <3>1, <3>2 DEF Instance, Phases, Ages, DyingPhases
  <2>2. CASE ~ (misses >= missedPollsBeforeDisappeared)
    <3>1. Miss(inst) = [inst EXCEPT !.MissedPolls = misses]
      BY <2>2 DEF Miss
    <3>2. misses \in 0 .. missedPollsBeforeDisappeared
      BY <2>2, StoreAssumption DEF Instance
    <3>. QED  BY <1>1, <3>1, <3>2 DEF Instance, Ages
  <2>. QED  BY <2>1, <2>2
<1>2. ASSUME NEW inst \in Instance
      PROVE  Ages(inst, inst)
  BY DEF Ages
<1>. QED  BY <1>1, <1>2 DEF MarkDisappeared, StoreTypeOK

-----------------------------------------------------------------------------
(* Every step preserves the invariant.                                     *)

\* The invariant survives a listing that fails (pollVCD).
LEMMA PollFailsStep ==
    ASSUME IInv, PollFails
    PROVE  IInv'
<1>1. Types'
  BY DEF PollFails, storeVars, ownerVars, breakerVars, ghostVars, IInv, Types,
         StoreTypeOK, LoopPcs
<1>2. OpShape' /\ EntryShape' /\ IndexConsistent' /\ IntentOwned'
  BY DEF PollFails, storeVars, IInv, OpShape, EntryShape, IndexConsistent,
         IntentOwned, Tracked
<1>3. VAppOwned'
  BY DEF PollFails, storeVars, ownerVars, IInv, VAppOwned
<1>4. DeletesDoomed'
  BY DEF PollFails, storeVars, ownerVars, IInv, DeletesDoomed, Doomed
<1>5. WorkFresh'
  BY DEF PollFails, IInv, WorkFresh
<1>. QED  BY <1>1, <1>2, <1>3, <1>4, <1>5 DEF IInv

\* The invariant survives the group search (getInstancesInInstanceGroup).
LEMMA SearchByFilterStep ==
    ASSUME IInv, SearchByFilter
    PROVE  IInv'
<1>1. Types'
  BY DEF SearchByFilter, storeVars, ownerVars, breakerVars, ghostVars, IInv,
         Types, StoreTypeOK, IDs, LoopPcs
<1>2. OpShape' /\ EntryShape' /\ IndexConsistent' /\ IntentOwned'
  BY DEF SearchByFilter, storeVars, IInv, OpShape, EntryShape,
         IndexConsistent, IntentOwned, Tracked
<1>3. VAppOwned'
  BY DEF SearchByFilter, storeVars, ownerVars, IInv, VAppOwned
<1>4. DeletesDoomed'
  BY DEF SearchByFilter, storeVars, ownerVars, IInv, DeletesDoomed, Doomed
<1>5. WorkFresh'
  BY DEF SearchByFilter, IInv, WorkFresh
<1>. QED  BY <1>1, <1>2, <1>3, <1>4, <1>5 DEF IInv

\* The invariant survives the reads of the listed vApps.
LEMMA readListedVAppsStep ==
    ASSUME IInv, NEW unread \in SUBSET work, readListedVApps(unread)
    PROVE  IInv'
<1>1. Types'
  BY DEF readListedVApps, storeVars, ownerVars, breakerVars, ghostVars, IInv,
         Types, StoreTypeOK, LoopPcs, WorkFresh
<1>2. OpShape' /\ EntryShape' /\ IndexConsistent' /\ IntentOwned'
  BY DEF readListedVApps, storeVars, IInv, OpShape, EntryShape,
         IndexConsistent, IntentOwned, Tracked
<1>3. VAppOwned'
  BY DEF readListedVApps, storeVars, ownerVars, IInv, VAppOwned
<1>4. DeletesDoomed'
  BY DEF readListedVApps, storeVars, ownerVars, IInv, DeletesDoomed, Doomed
<1>5. WorkFresh'
  BY DEF readListedVApps, IInv, WorkFresh
<1>. QED  BY <1>1, <1>2, <1>3, <1>4, <1>5 DEF IInv

\* The invariant survives pollVCD's update of a tracked vApp, which only ages
\* its entry.
LEMMA PollTrackedStep ==
    ASSUME IInv, NEW v \in VApps, NEW vmRead \in BOOLEAN, PollTracked(v, vmRead)
    PROVE  IInv'
<1>1. byVAppHREF' = byVAppHREF
  BY DEF PollTracked, UpdateFromVCD, storeVars
<1>2. \A i \in IDs : Ages(instances[i], instances'[i])
  <2>1. CASE vmRead
    BY <2>1
       DEF PollTracked, UpdateFromVCD, IInv, Types, StoreTypeOK, Instance,
           Ages
  <2>2. CASE ~vmRead
    BY <2>2 DEF PollTracked, storeVars, Ages
  <2>. QED  BY <2>1, <2>2
<1>3. StoreTypeOK'
  BY StoreAssumption
     DEF PollTracked, UpdateFromVCD, storeVars, IInv, Types, StoreTypeOK,
         Instance, IDs
<1>4. Types' /\ OpShape'
  BY <1>3
     DEF PollTracked, ownerVars, breakerVars, ghostVars, IInv, Types, OpShape
<1>5. EntryShape' /\ IndexConsistent'
  BY <1>1, <1>2, AgingKeepsStore DEF IInv, Types
<1>6. IntentOwned'
  BY <1>2, AgingKeepsIntents DEF PollTracked, IInv, Types
<1>7. VAppOwned'
  BY <1>1 DEF PollTracked, ownerVars, IInv, VAppOwned
<1>8. DeletesDoomed'
  BY <1>2, AgingKeepsDoomed DEF PollTracked, ownerVars, IInv, DeletesDoomed
<1>9. WorkFresh'
  BY DEF PollTracked, IInv, WorkFresh
<1>. QED  BY <1>4, <1>5, <1>6, <1>7, <1>8, <1>9 DEF IInv

\* The invariant survives pollVCD's choice of an untracked vApp: it is not
\* yet known to be unowned.
LEMMA PollUntrackedStep ==
    ASSUME IInv, NEW v \in VApps, PollUntracked(v)
    PROVE  IInv'
<1>1. Types'
  BY DEF PollUntracked, storeVars, ownerVars, breakerVars, ghostVars, IInv,
         Types, StoreTypeOK, LoopPcs
<1>2. OpShape' /\ EntryShape' /\ IndexConsistent' /\ IntentOwned'
  BY DEF PollUntracked, storeVars, IInv, OpShape, EntryShape, IndexConsistent,
         IntentOwned, Tracked
<1>3. VAppOwned'
  BY DEF PollUntracked, storeVars, ownerVars, IInv, VAppOwned
<1>4. DeletesDoomed'
  BY DEF PollUntracked, storeVars, ownerVars, IInv, DeletesDoomed, Doomed
<1>5. WorkFresh'
  BY DEF PollUntracked, IInv, WorkFresh
<1>. QED  BY <1>1, <1>2, <1>3, <1>4, <1>5 DEF IInv

\* The invariant survives a load of ownsVApp: past the first, no create owns
\* the vApp any more, and none can choose its name again.
LEMMA ownsVAppStep ==
    ASSUME IInv, ownsVApp
    PROVE  IInv'
<1>1. Types'
  BY DEF ownsVApp, storeVars, ownerVars, breakerVars, ghostVars, IInv, Types,
         StoreTypeOK, LoopPcs
<1>2. OpShape' /\ EntryShape' /\ IndexConsistent' /\ IntentOwned'
  BY DEF ownsVApp, storeVars, IInv, OpShape, EntryShape, IndexConsistent,
         IntentOwned, Tracked
<1>3. VAppOwned'
  BY DEF ownsVApp, storeVars, ownerVars, IInv, VAppOwned
<1>4. DeletesDoomed'
  BY DEF ownsVApp, storeVars, ownerVars, IInv, DeletesDoomed, Doomed
<1>5. WorkFresh'
  BY DEF ownsVApp, IInv, WorkFresh
<1>. QED  BY <1>1, <1>2, <1>3, <1>4, <1>5 DEF IInv

\* The invariant survives AddLeftover on a vApp that no create owns.
LEMMA PollAdoptsStep ==
    ASSUME IInv, PollAdopts
    PROVE  IInv'
<1>1. CASE byVAppHREF[cur] # None
  <2>1. UNCHANGED storeVars
    BY <1>1 DEF PollAdopts, AddLeftover
  <2>2. Types' /\ OpShape' /\ EntryShape' /\ IndexConsistent' /\ IntentOwned'
    BY <2>1
       DEF PollAdopts, storeVars, ownerVars, breakerVars, ghostVars, IInv,
           Types, StoreTypeOK, LoopPcs, OpShape, EntryShape, IndexConsistent,
           IntentOwned, Tracked
  <2>3. VAppOwned' /\ DeletesDoomed' /\ WorkFresh'
    BY <2>1
       DEF PollAdopts, storeVars, ownerVars, IInv, VAppOwned, DeletesDoomed,
           Doomed, WorkFresh
  <2>. QED  BY <2>2, <2>3 DEF IInv
<1>2. CASE byVAppHREF[cur] = None
  <2>. DEFINE new == NewInstance("PendingDelete", cur)
  <2>1. cur \in VApps /\ cur \in IDs /\ cur # None /\ cur \notin Intents
    BY StoreAssumption DEF PollAdopts, IInv, WorkFresh, IDs
  <2>2. /\ instances' = [instances EXCEPT ![cur] = new]
        /\ byVAppHREF' = [byVAppHREF EXCEPT ![cur] = cur]
    BY <1>2 DEF PollAdopts, AddLeftover
  <2>3. new \in Instance /\ new.ID = cur /\ new.Phase = "PendingDelete"
    BY <2>1, StoreAssumption DEF NewInstance, Instance, Phases
  <2>. HIDE DEF new
  <2>4. instances[cur].Phase = "Untracked" /\ \A i \in IDs : instances[i].ID # cur
    BY <1>2, <2>1, StoreAssumption DEF IInv, EntryShape, IndexConsistent, IDs
  <2>5. Types' /\ OpShape'
    BY <2>1, <2>2, <2>3
       DEF PollAdopts, ownerVars, breakerVars, ghostVars, IInv, Types,
           StoreTypeOK, LoopPcs, IDs, OpShape
  <2>6. EntryShape'
    BY <2>1, <2>2, <2>3 DEF IInv, Types, StoreTypeOK, EntryShape
  <2>7. IndexConsistent'
    BY <2>1, <2>2, <2>3, <2>4, StoreAssumption
       DEF IInv, Types, StoreTypeOK, Instance, IndexConsistent, Tracked, IDs
  <2>8. IntentOwned'
    BY <2>1, <2>2, <2>3, <2>4
       DEF PollAdopts, IInv, Types, StoreTypeOK, OpShape, IntentOwned,
           PendingPcs, CreatePcs, IDs
  <2>9. VAppOwned'
    BY <2>1, <2>2
       DEF PollAdopts, ownerVars, IInv, Types, StoreTypeOK, OpShape, VAppOwned
  <2>10. DeletesDoomed'
    BY <2>1, <2>2, <2>3
       DEF PollAdopts, ownerVars, IInv, Types, StoreTypeOK, DeletesDoomed,
           Doomed, DyingPhases
  <2>11. WorkFresh'
    BY DEF PollAdopts, IInv, WorkFresh
  <2>. QED  BY <2>5, <2>6, <2>7, <2>8, <2>9, <2>10, <2>11 DEF IInv
<1>. QED  BY <1>1, <1>2

\* The invariant survives the end of a poll: MarkDisappeared only ages
\* entries.
LEMMA PollEndsStep ==
    ASSUME IInv, PollEnds
    PROVE  IInv'
<1>1. /\ StoreTypeOK'
      /\ byVAppHREF' = byVAppHREF
      /\ \A i \in IDs : Ages(instances[i], instances'[i])
  <2>1. CASE MarkDisappeared(known)
    BY <2>1, MarkDisappearedAges DEF IInv, Types
  <2>2. CASE UNCHANGED storeVars
    BY <2>2 DEF storeVars, IInv, Types, StoreTypeOK, Ages
  <2>. QED  BY <2>1, <2>2 DEF PollEnds
<1>2. Types' /\ OpShape'
  BY <1>1
     DEF PollEnds, ownerVars, breakerVars, ghostVars, IInv, Types, LoopPcs,
         OpShape
<1>3. EntryShape' /\ IndexConsistent'
  BY <1>1, AgingKeepsStore DEF IInv, Types
<1>4. IntentOwned'
  BY <1>1, AgingKeepsIntents DEF PollEnds, IInv, Types
<1>5. VAppOwned'
  BY <1>1 DEF PollEnds, ownerVars, IInv, VAppOwned
<1>6. DeletesDoomed'
  BY <1>1, AgingKeepsDoomed DEF PollEnds, ownerVars, IInv, DeletesDoomed
<1>7. WorkFresh'
  BY DEF PollEnds, IInv, WorkFresh
<1>. QED  BY <1>2, <1>3, <1>4, <1>5, <1>6, <1>7 DEF IInv

\* The invariant survives a step of the startup hold.
LEMMA updateStartupHoldStep ==
    ASSUME IInv, NEW timeout \in BOOLEAN, updateStartupHold(timeout)
    PROVE  IInv'
<1>1. Types'
  BY DEF updateStartupHold, storeVars, ownerVars, breakerVars, ghostVars,
         IInv, Types, StoreTypeOK, LoopPcs
<1>2. OpShape' /\ EntryShape' /\ IndexConsistent' /\ IntentOwned'
  BY DEF updateStartupHold, storeVars, IInv, OpShape, EntryShape,
         IndexConsistent, IntentOwned, Tracked
<1>3. VAppOwned'
  BY DEF updateStartupHold, storeVars, ownerVars, IInv, VAppOwned
<1>4. DeletesDoomed'
  BY DEF updateStartupHold, storeVars, ownerVars, IInv, DeletesDoomed, Doomed
<1>5. WorkFresh'
  BY DEF updateStartupHold, IInv, WorkFresh
<1>. QED  BY <1>1, <1>2, <1>3, <1>4, <1>5 DEF IInv

\* The invariant survives the snapshot of pending creates.
LEMMA dispatchCreatesStep ==
    ASSUME IInv, dispatchCreates
    PROVE  IInv'
<1>1. Types'
  BY DEF dispatchCreates, PendingSnapshots, InPhase, storeVars, ownerVars,
         breakerVars, ghostVars, IInv, Types, StoreTypeOK, LoopPcs
<1>2. OpShape' /\ EntryShape' /\ IndexConsistent' /\ IntentOwned'
  BY DEF dispatchCreates, storeVars, IInv, OpShape, EntryShape,
         IndexConsistent, IntentOwned, Tracked
<1>3. VAppOwned'
  BY DEF dispatchCreates, storeVars, ownerVars, IInv, VAppOwned
<1>4. DeletesDoomed'
  BY DEF dispatchCreates, storeVars, ownerVars, IInv, DeletesDoomed, Doomed
<1>5. WorkFresh'
  <2>1. work' \subseteq InPhase("PendingCreate")
    BY DEF dispatchCreates, PendingSnapshots
  <2>. QED  BY <2>1, StoreAssumption
               DEF dispatchCreates, storeVars, InPhase, IInv, EntryShape,
                   WorkFresh, IDs
<1>. QED  BY <1>1, <1>2, <1>3, <1>4, <1>5 DEF IInv

\* The invariant survives the start of a create: its intent was pending, so
\* no other create has it.
LEMMA DispatchCreateStep ==
    ASSUME IInv, NEW i \in Intents, NEW s \in Slots, DispatchCreate(i, s)
    PROVE  IInv'
<1>. DEFINE new == [instances[i] EXCEPT !.Phase = "Creating"]
<1>1. /\ pc = "createLoop" /\ i \in IDs /\ i \in work /\ i \notin VApps
      /\ instances[i] \in Instance
      /\ instances[i].Phase = "PendingCreate" /\ instances[i].ID = None
  BY StoreAssumption
     DEF DispatchCreate, IInv, Types, StoreTypeOK, WorkFresh, EntryShape, IDs
<1>2. new \in Instance /\ new.ID = None /\ new.Phase = "Creating"
  BY <1>1 DEF Instance, Phases
<1>3. instances' = [instances EXCEPT ![i] = new] /\ byVAppHREF' = byVAppHREF
  BY <1>1, <1>2, UpdateKeepsHREF DEF DispatchCreate, IInv, Types, Tracked
<1>4. /\ ops[s] = Free /\ ops' = [ops EXCEPT ![s] = NewOp("init", i, None)]
      /\ NewOp("init", i, None) \in Op
  BY <1>1 DEF DispatchCreate, tryAcquireCreate, NewOp, Op, CreatePcs
<1>. HIDE DEF new
<1>5. Types' /\ OpShape'
  BY <1>1, <1>2, <1>3, <1>4
     DEF DispatchCreate, ownerVars, breakerVars, ghostVars, IInv, Types,
         StoreTypeOK, OpShape, NewOp, CreatePcs, DeletePcs, CleanupPcs,
         OwningPcs
<1>6. EntryShape' /\ IndexConsistent'
  BY <1>1, <1>2, <1>3, StoreAssumption
     DEF IInv, Types, StoreTypeOK, EntryShape, IndexConsistent, Tracked, IDs
<1>7. IntentOwned'
  BY <1>1, <1>2, <1>3, <1>4
     DEF IInv, Types, StoreTypeOK, OpShape, IntentOwned, Free, NewOp,
         PendingPcs, CreatePcs, DeletePcs, IDs
<1>8. VAppOwned'
  BY <1>1, <1>3, <1>4, StoreAssumption
     DEF DispatchCreate, ownerVars, IInv, Types, OpShape, VAppOwned, NewOp,
         OwningPcs
<1>9. DeletesDoomed'
  BY <1>1, <1>2, <1>3, <1>4, StoreAssumption
     DEF DispatchCreate, ownerVars, IInv, Types, StoreTypeOK, OpShape,
         DeletesDoomed, Doomed, NewOp, DeletePcs, CleanupPcs
<1>10. WorkFresh'
  BY <1>1, <1>3
     DEF DispatchCreate, IInv, Types, StoreTypeOK, WorkFresh, IDs
<1>. QED  BY <1>5, <1>6, <1>7, <1>8, <1>9, <1>10 DEF IInv

\* The invariant survives the snapshot of pending deletes, whose entries have
\* an HREF.
LEMMA dispatchDeletesStep ==
    ASSUME IInv, dispatchDeletes
    PROVE  IInv'
<1>1. Types'
  BY DEF dispatchDeletes, PendingSnapshots, InPhase, storeVars, ownerVars,
         breakerVars, ghostVars, IInv, Types, StoreTypeOK, LoopPcs
<1>2. OpShape' /\ EntryShape' /\ IndexConsistent' /\ IntentOwned'
  BY DEF dispatchDeletes, storeVars, IInv, OpShape, EntryShape,
         IndexConsistent, IntentOwned, Tracked
<1>3. VAppOwned'
  BY DEF dispatchDeletes, storeVars, ownerVars, IInv, VAppOwned
<1>4. DeletesDoomed'
  BY DEF dispatchDeletes, storeVars, ownerVars, IInv, DeletesDoomed, Doomed
<1>5. WorkFresh'
  <2>1. work' \subseteq InPhase("PendingDelete")
    BY DEF dispatchDeletes, PendingSnapshots
  <2>. QED  BY <2>1
            DEF dispatchDeletes, storeVars, InPhase, IInv, EntryShape, WorkFresh
<1>. QED  BY <1>1, <1>2, <1>3, <1>4, <1>5 DEF IInv

\* The invariant survives the start of a delete: the entry it marks is the
\* only one of its vApp.
LEMMA DispatchDeleteStep ==
    ASSUME IInv, NEW i \in IDs, NEW s \in Slots, DispatchDelete(i, s)
    PROVE  IInv'
<1>. DEFINE new == [instances[i] EXCEPT !.Phase = "Deleting"]
            op == NewOp("delete", i, instances[i].ID)
<1>1. /\ pc = "deleteLoop" /\ instances[i] \in Instance
      /\ instances[i].ID \in VApps
      /\ instances[i].Phase \in {"Running"} \cup DyingPhases
      /\ i \in Intents \cup {instances[i].ID}
  BY DEF DispatchDelete, IInv, Types, StoreTypeOK, Instance, Phases, EntryShape,
         WorkFresh, DyingPhases, IDs
<1>2. new \in Instance /\ Ages(instances[i], new) /\ new.Phase = "Deleting"
  BY <1>1 DEF Instance, Phases, Ages, DyingPhases
<1>3. instances' = [instances EXCEPT ![i] = new] /\ byVAppHREF' = byVAppHREF
  BY <1>1, <1>2, UpdateKeepsHREF
     DEF DispatchDelete, IInv, Types, Tracked, Ages, DyingPhases
<1>4. /\ ops[s] = Free /\ ops' = [ops EXCEPT ![s] = op] /\ op \in Op
      /\ op.pc = "delete" /\ op.intent = i /\ op.vapp = instances[i].ID
  BY <1>1 DEF DispatchDelete, tryAcquireDelete, NewOp, Op, DeletePcs
<1>. HIDE DEF new, op
<1>5. \A j \in IDs : Ages(instances[j], instances'[j])
  BY <1>2, <1>3 DEF IInv, Types, StoreTypeOK, Ages
<1>6. Types' /\ OpShape'
  BY <1>1, <1>2, <1>3, <1>4
     DEF DispatchDelete, ownerVars, breakerVars, ghostVars, IInv, Types,
         StoreTypeOK, OpShape, CreatePcs, DeletePcs, CleanupPcs, OwningPcs
<1>7. EntryShape' /\ IndexConsistent'
  BY <1>3, <1>5, AgingKeepsStore DEF IInv, Types
<1>8. IntentOwned'
  <2>1. \A t \in Slots : ops[t].pc \in PendingPcs \cup DeletePcs => ops[t].intent \in IDs
    BY DEF IInv, OpShape, PendingPcs, IDs
  <2>. QED  BY <1>2, <1>3, <1>4, <1>5, <2>1
            DEF IInv, Types, StoreTypeOK, IntentOwned, Ages, DyingPhases,
                PendingPcs, CreatePcs, DeletePcs
<1>9. VAppOwned'
  <2>1. byVAppHREF[instances[i].ID] # None
    BY <1>1, StoreAssumption DEF IInv, IndexConsistent, IDs
  <2>. QED  BY <1>1, <1>3, <1>4, <2>1
            DEF DispatchDelete, ownerVars, IInv, Types, VAppOwned, OwningPcs
<1>10. DeletesDoomed'
  <2>1. ASSUME NEW j \in IDs, instances'[j].ID = instances[i].ID
        PROVE  instances'[j].Phase \in DyingPhases
    <3>1. j = i
      BY <1>1, <1>5, <2>1, StoreAssumption DEF IInv, IndexConsistent, Ages
    <3>. QED  BY <1>2, <1>3, <3>1 DEF IInv, Types, StoreTypeOK, DyingPhases
  <2>2. ASSUME NEW t \in Slots, ops'[t].pc \in DeletePcs \cup CleanupPcs,
               NEW j \in IDs, instances'[j].ID = ops'[t].vapp
        PROVE  instances'[j].Phase \in DyingPhases
    <3>1. CASE t = s
      BY <1>4, <2>1, <2>2, <3>1 DEF IInv, Types
    <3>2. CASE t # s
      BY <1>4, <1>5, <2>2, <3>2
         DEF IInv, Types, DeletesDoomed, Doomed, Ages, DyingPhases
    <3>. QED  BY <3>1, <3>2
  <2>3. \A v \in failedCreateCleanups : Doomed(v)'
    BY <1>5, AgingKeepsDoomed DEF IInv, DeletesDoomed
  <2>. QED  BY <1>1, <2>2, <2>3
               DEF DispatchDelete, ownerVars, DeletesDoomed, Doomed
<1>11. WorkFresh'
  BY <1>1, <1>5 DEF DispatchDelete, IInv, Types, WorkFresh, Ages
<1>. QED  BY <1>6, <1>7, <1>8, <1>9, <1>10, <1>11 DEF IInv

\* The invariant survives the snapshot of failed creates.
LEMMA dispatchCreateCleanupsStep ==
    ASSUME IInv, dispatchCreateCleanups
    PROVE  IInv'
<1>1. Types'
  BY DEF dispatchCreateCleanups, storeVars, ownerVars, breakerVars, ghostVars,
         IInv, Types, StoreTypeOK, IDs, LoopPcs
<1>2. OpShape' /\ EntryShape' /\ IndexConsistent' /\ IntentOwned'
  BY DEF dispatchCreateCleanups, storeVars, IInv, OpShape, EntryShape,
         IndexConsistent, IntentOwned, Tracked
<1>3. VAppOwned'
  BY DEF dispatchCreateCleanups, storeVars, ownerVars, IInv, VAppOwned
<1>4. DeletesDoomed'
  BY DEF dispatchCreateCleanups, storeVars, ownerVars, IInv, DeletesDoomed,
         Doomed
<1>5. WorkFresh'
  BY DEF dispatchCreateCleanups, IInv, WorkFresh, Types
<1>. QED  BY <1>1, <1>2, <1>3, <1>4, <1>5 DEF IInv

\* The invariant survives the start of a cleanup, on a name that no create
\* owns.
LEMMA DispatchCleanupStep ==
    ASSUME IInv, NEW v \in VApps, NEW s \in Slots, DispatchCleanup(v, s)
    PROVE  IInv'
<1>1. Types'
  BY DEF DispatchCleanup, NewOp, storeVars, ownerVars, breakerVars, ghostVars,
         IInv, Types, StoreTypeOK, Op, CleanupPcs
<1>2. EntryShape' /\ IndexConsistent'
  BY DEF DispatchCleanup, storeVars, IInv, EntryShape, IndexConsistent,
         Tracked
<1>3. OpShape'
  BY DEF DispatchCleanup, NewOp, IInv, OpShape, CreatePcs, DeletePcs
<1>4. IntentOwned'
  BY DEF DispatchCleanup, NewOp, storeVars, IInv, IntentOwned, PendingPcs,
         CreatePcs, DeletePcs
<1>5. VAppOwned'
  BY DEF DispatchCleanup, NewOp, storeVars, ownerVars, IInv, VAppOwned,
         OwningPcs
<1>6. DeletesDoomed'
  BY DEF DispatchCleanup, NewOp, storeVars, ownerVars, IInv, DeletesDoomed,
         Doomed
<1>7. WorkFresh'
  BY DEF DispatchCleanup, IInv, WorkFresh
<1>. QED  BY <1>1, <1>2, <1>3, <1>4, <1>5, <1>6, <1>7 DEF IInv

\* The invariant survives gcCheck and Prune: entries age or are dropped
\* together with their index.
LEMMA GCAndPruneStep ==
    ASSUME IInv, GCAndPrune
    PROVE  IInv'
<1>1. PICK aged \in SUBSET InPhase("Running"), dead \in SUBSET InPhase("Deleted") :
         CollectAndPrune(aged, dead)
  BY DEF GCAndPrune
<1>2. ASSUME NEW i \in IDs
      PROVE  /\ i \in dead => instances'[i] = NoInstance
             /\ i \notin dead => Ages(instances[i], instances'[i])
             /\ i \in dead => instances[i].Phase = "Deleted"
  BY <1>1
     DEF CollectAndPrune, InPhase, IInv, Types, StoreTypeOK, Instance, Ages,
         DyingPhases
<1>3. NoInstance \in Instance /\ NoInstance.ID = None /\ NoInstance.Phase = "Untracked"
  BY StoreAssumption DEF NoInstance, NewInstance, Instance
<1>4. StoreTypeOK'
  BY <1>1, <1>3 DEF CollectAndPrune, IInv, Types, StoreTypeOK, Instance, Phases
<1>5. \A v \in VApps : byVAppHREF'[v] = IF byVAppHREF[v] \in dead THEN None ELSE byVAppHREF[v]
  BY <1>1, StoreAssumption
     DEF CollectAndPrune, InPhase, IInv, Types, StoreTypeOK, EntryShape,
         IndexConsistent, Tracked, IDs
<1>6. Types' /\ OpShape'
  BY <1>4
     DEF GCAndPrune, ownerVars, breakerVars, ghostVars, IInv, Types, LoopPcs,
         OpShape
<1>7. EntryShape'
  BY <1>2, <1>3 DEF IInv, EntryShape, Ages, DyingPhases
<1>8. IndexConsistent'
  <2>1. ASSUME NEW v \in VApps, byVAppHREF[v]' # None
        PROVE  (Tracked(byVAppHREF[v]) /\ instances[byVAppHREF[v]].ID = v)'
    <3>1. byVAppHREF'[v] = byVAppHREF[v] /\ byVAppHREF[v] \in IDs \ dead
      BY <1>5, <2>1 DEF IInv, Types, StoreTypeOK
    <3>. QED  BY <1>2, <2>1, <3>1
                 DEF IInv, IndexConsistent, Tracked, Ages, DyingPhases
  <2>2. ASSUME NEW i \in IDs, instances[i].ID' # None
        PROVE  (byVAppHREF[instances[i].ID] = i)'
    <3>1. i \notin dead /\ instances'[i].ID = instances[i].ID
      BY <1>2, <1>3, <2>2 DEF Ages
    <3>2. instances[i].ID \in VApps /\ byVAppHREF[instances[i].ID] = i
      BY <2>2, <3>1 DEF IInv, Types, StoreTypeOK, Instance, IndexConsistent
    <3>. QED  BY <1>5, <3>1, <3>2
  <2>. QED  BY <2>1, <2>2 DEF IndexConsistent
<1>9. IntentOwned'
  BY <1>2, <1>3
     DEF GCAndPrune, IInv, Types, OpShape, IntentOwned, PendingPcs, CreatePcs,
         Ages, DyingPhases, IDs
<1>10. VAppOwned'
  BY <1>5 DEF GCAndPrune, ownerVars, IInv, OpShape, VAppOwned
<1>11. DeletesDoomed'
  BY <1>2, <1>3, StoreAssumption
     DEF GCAndPrune, ownerVars, IInv, Types, OpShape, DeletesDoomed, Doomed,
         Ages, DyingPhases
<1>12. WorkFresh'
  BY DEF GCAndPrune, IInv, WorkFresh
<1>. QED  BY <1>6, <1>7, <1>8, <1>9, <1>10, <1>11, <1>12 DEF IInv

\* The invariant survives a create that fails before it has a name.
LEMMA CreatePreludeFailsStep ==
    ASSUME IInv, NEW s \in Slots, CreatePreludeFails(s)
    PROVE  IInv'
<1>1. Types'
  BY DEF CreatePreludeFails, Goto, storeVars, ownerVars, loopVars,
         breakerVars, ghostVars, IInv, Types, StoreTypeOK, Op, CreatePcs
<1>2. EntryShape' /\ IndexConsistent' /\ WorkFresh'
  BY DEF CreatePreludeFails, storeVars, loopVars, IInv, EntryShape,
         IndexConsistent, WorkFresh, Tracked
<1>3. OpShape'
  BY DEF CreatePreludeFails, Goto, IInv, OpShape, CreatePcs, OwningPcs,
         DeletePcs, CleanupPcs
<1>4. IntentOwned'
  BY DEF CreatePreludeFails, Goto, storeVars, IInv, IntentOwned, PendingPcs,
         CreatePcs, DeletePcs
<1>5. VAppOwned'
  BY DEF CreatePreludeFails, Goto, storeVars, ownerVars, loopVars, IInv,
         VAppOwned, OwningPcs
<1>6. DeletesDoomed'
  BY DEF CreatePreludeFails, Goto, storeVars, ownerVars, loopVars, IInv,
         DeletesDoomed, Doomed, DeletePcs, CleanupPcs
<1>. QED  BY <1>1, <1>2, <1>3, <1>4, <1>5, <1>6 DEF IInv

\* The invariant survives a create that takes a name nothing else refers to.
LEMMA ChooseNameStep ==
    ASSUME IInv, NEW s \in Slots, NEW v \in VApps, ChooseName(s, v)
    PROVE  IInv'
<1>1. Types'
  BY DEF ChooseName, Fresh, IInv, Types, Op
<1>2. EntryShape' /\ IndexConsistent' /\ WorkFresh'
  BY DEF ChooseName, storeVars, loopVars, IInv, EntryShape, IndexConsistent,
         WorkFresh, Tracked
<1>3. OpShape'
  BY DEF ChooseName, IInv, OpShape, Types, CreatePcs
<1>4. IntentOwned'
  BY DEF ChooseName, storeVars, IInv, IntentOwned, Types, PendingPcs,
         CreatePcs, DeletePcs
<1>5. VAppOwned'
  BY DEF ChooseName, Fresh, storeVars, loopVars, IInv, VAppOwned, Types
<1>6. DeletesDoomed'
  BY DEF ChooseName, storeVars, loopVars, IInv, DeletesDoomed, Types, Doomed,
         DeletePcs, CleanupPcs
<1>. QED  BY <1>1, <1>2, <1>3, <1>4, <1>5, <1>6 DEF IInv

\* The invariant survives the vApp's POST.
LEMMA createRawVAppStep ==
    ASSUME IInv, NEW s \in Slots, NEW ok \in BOOLEAN, NEW state \in VAppStates,
           createRawVApp(s, ok, state)
    PROVE  IInv'
<1>1. Types'
  BY DEF createRawVApp, Goto, storeVars, ownerVars, loopVars, breakerVars,
         ghostVars, IInv, Types, StoreTypeOK, Op, CreatePcs, OpShape,
         OwningPcs
<1>2. EntryShape' /\ IndexConsistent' /\ WorkFresh'
  BY DEF createRawVApp, storeVars, loopVars, IInv, EntryShape,
         IndexConsistent, WorkFresh, Tracked
<1>3. OpShape'
  BY DEF createRawVApp, Goto, IInv, OpShape, CreatePcs, OwningPcs
<1>4. IntentOwned'
  BY DEF createRawVApp, Goto, storeVars, IInv, IntentOwned, PendingPcs,
         CreatePcs, DeletePcs
<1>5. VAppOwned'
  BY DEF createRawVApp, Goto, storeVars, ownerVars, loopVars, IInv, VAppOwned,
         OwningPcs
<1>6. DeletesDoomed'
  BY DEF createRawVApp, Goto, storeVars, ownerVars, loopVars, IInv,
         DeletesDoomed, Doomed, DeletePcs, CleanupPcs
<1>. QED  BY <1>1, <1>2, <1>3, <1>4, <1>5, <1>6 DEF IInv

\* The invariant survives the metadata call.
LEMMA AddMetadataStep ==
    ASSUME IInv, NEW s \in Slots, NEW ok \in BOOLEAN, NEW state \in VAppStates,
           AddMetadata(s, ok, state)
    PROVE  IInv'
<1>1. Types'
  BY DEF AddMetadata, Goto, storeVars, ownerVars, loopVars, breakerVars,
         ghostVars, IInv, Types, StoreTypeOK, Op, CreatePcs, OpShape,
         OwningPcs
<1>2. EntryShape' /\ IndexConsistent' /\ WorkFresh'
  BY DEF AddMetadata, storeVars, loopVars, IInv, EntryShape, IndexConsistent,
         WorkFresh, Tracked
<1>3. OpShape'
  BY DEF AddMetadata, Goto, IInv, OpShape, CreatePcs, OwningPcs
<1>4. IntentOwned'
  BY DEF AddMetadata, Goto, storeVars, IInv, IntentOwned, PendingPcs,
         CreatePcs, DeletePcs
<1>5. VAppOwned'
  BY DEF AddMetadata, Goto, storeVars, ownerVars, loopVars, IInv, VAppOwned,
         OwningPcs
<1>6. DeletesDoomed'
  BY DEF AddMetadata, Goto, storeVars, ownerVars, loopVars, IInv,
         DeletesDoomed, Doomed, DeletePcs, CleanupPcs
<1>. QED  BY <1>1, <1>2, <1>3, <1>4, <1>5, <1>6 DEF IInv

\* The invariant survives the rest of the build.
LEMMA BuildVMStep ==
    ASSUME IInv, NEW s \in Slots, NEW ok \in BOOLEAN, BuildVM(s, ok)
    PROVE  IInv'
<1>1. Types'
  BY DEF BuildVM, Goto, storeVars, ownerVars, loopVars, breakerVars,
         ghostVars, IInv, Types, StoreTypeOK, Op, CreatePcs
<1>2. EntryShape' /\ IndexConsistent' /\ WorkFresh'
  BY DEF BuildVM, storeVars, loopVars, IInv, EntryShape, IndexConsistent,
         WorkFresh, Tracked
<1>3. OpShape'
  BY DEF BuildVM, Goto, IInv, OpShape, CreatePcs, OwningPcs
<1>4. IntentOwned'
  BY DEF BuildVM, Goto, storeVars, IInv, IntentOwned, PendingPcs, CreatePcs,
         DeletePcs
<1>5. VAppOwned'
  BY DEF BuildVM, Goto, storeVars, ownerVars, loopVars, IInv, VAppOwned,
         OwningPcs
<1>6. DeletesDoomed'
  BY DEF BuildVM, Goto, storeVars, ownerVars, loopVars, IInv, DeletesDoomed,
         Doomed, DeletePcs, CleanupPcs
<1>. QED  BY <1>1, <1>2, <1>3, <1>4, <1>5, <1>6 DEF IInv

\* The invariant survives the handover of a failed create's name to the
\* cleanup: no entry has its vApp.
LEMMA AbortStep ==
    ASSUME IInv, NEW s \in Slots, Abort(s)
    PROVE  IInv'
<1>1. Types'
  BY DEF Abort, Goto, storeVars, loopVars, breakerVars, ghostVars, IInv,
         Types, StoreTypeOK, Op, CreatePcs, OpShape, OwningPcs
<1>2. EntryShape' /\ IndexConsistent' /\ WorkFresh'
  BY DEF Abort, storeVars, loopVars, IInv, EntryShape, IndexConsistent,
         WorkFresh, Tracked
<1>3. OpShape'
  BY DEF Abort, Goto, IInv, OpShape, CreatePcs, OwningPcs
<1>4. IntentOwned'
  BY DEF Abort, Goto, storeVars, IInv, IntentOwned, PendingPcs, CreatePcs,
         DeletePcs
<1>5. VAppOwned'
  BY DEF Abort, Goto, storeVars, loopVars, IInv, VAppOwned, Types, OwningPcs
<1>6. DeletesDoomed'
  <2>1. /\ ops[s].vapp \in VApps /\ ops[s].vapp # None
        /\ byVAppHREF[ops[s].vapp] = None
    BY StoreAssumption DEF Abort, IInv, OpShape, VAppOwned, OwningPcs
  <2>2. \A j \in IDs : instances[j].ID # ops[s].vapp
    BY <2>1, StoreAssumption DEF IInv, IndexConsistent, IDs
  <2>. QED  BY <2>2 DEF Abort, Goto, storeVars, loopVars, IInv, Types,
                        DeletesDoomed, Doomed, DeletePcs, CleanupPcs
<1>. QED  BY <1>1, <1>2, <1>3, <1>4, <1>5, <1>6 DEF IInv

\* The invariant survives a failed create's last step on inflightCreates.
LEMMA DisownStep ==
    ASSUME IInv, NEW s \in Slots, Disown(s)
    PROVE  IInv'
<1>1. Types'
  BY DEF Disown, Goto, storeVars, loopVars, breakerVars, ghostVars, IInv,
         Types, StoreTypeOK, Op, CreatePcs
<1>2. EntryShape' /\ IndexConsistent' /\ WorkFresh'
  BY DEF Disown, storeVars, loopVars, IInv, EntryShape, IndexConsistent,
         WorkFresh, Tracked
<1>3. OpShape'
  BY DEF Disown, Goto, IInv, OpShape, CreatePcs
<1>4. IntentOwned'
  BY DEF Disown, Goto, storeVars, IInv, IntentOwned, PendingPcs, CreatePcs,
         DeletePcs
<1>5. VAppOwned'
  BY DEF Disown, Goto, storeVars, loopVars, IInv, VAppOwned, OwningPcs
<1>6. DeletesDoomed'
  BY DEF Disown, Goto, storeVars, loopVars, IInv, DeletesDoomed, Doomed,
         DeletePcs, CleanupPcs
<1>. QED  BY <1>1, <1>2, <1>3, <1>4, <1>5, <1>6 DEF IInv

\* The invariant survives doCreate's error path: the intent is pending again.
LEMMA CreateReturnsErrorStep ==
    ASSUME IInv, NEW s \in Slots, CreateReturnsError(s)
    PROVE  IInv'
<1>. DEFINE i == ops[s].intent
            new == [instances[i] EXCEPT !.Phase = "PendingCreate", !.Retry = TRUE]
<1>1. /\ ops[s].pc = "failed" /\ i \in Intents /\ i \in IDs
      /\ instances[i] \in Instance /\ instances[i].Phase = "Creating" /\ instances[i].ID = None
  BY DEF CreateReturnsError, IInv, Types, StoreTypeOK, OpShape, EntryShape,
         IntentOwned, PendingPcs, CreatePcs, IDs
<1>2. new \in Instance /\ new.ID = None /\ new.Phase = "PendingCreate"
  BY <1>1 DEF Instance, Phases
<1>3. instances' = [instances EXCEPT ![i] = new] /\ byVAppHREF' = byVAppHREF
  BY <1>1, <1>2, UpdateKeepsHREF DEF CreateReturnsError, IInv, Types, Tracked
<1>4. ops' = [ops EXCEPT ![s] = Free] /\ Free \in Op /\ Free.pc = "free" /\ Free.vapp = None
  BY DEF CreateReturnsError, release, Free, Op
<1>. HIDE DEF i, new
<1>5. Types' /\ OpShape'
  <2>1. createFailures' \in 0 .. circuitBreakerThreshold /\ breakerOpen' \in BOOLEAN
    BY ReconcilerAssumption
       DEF CreateReturnsError, recordCreateFailure, IInv, Types
  <2>. QED  BY <1>1, <1>2, <1>3, <1>4, <2>1
               DEF CreateReturnsError, ownerVars, loopVars, ghostVars, IInv,
                   Types, StoreTypeOK, OpShape, CreatePcs, DeletePcs,
                   CleanupPcs, OwningPcs
<1>6. EntryShape' /\ IndexConsistent'
  BY <1>1, <1>2, <1>3, StoreAssumption
     DEF IInv, Types, StoreTypeOK, EntryShape, IndexConsistent, Tracked, IDs
<1>7. IntentOwned'
  BY <1>1, <1>2, <1>3, <1>4, StoreAssumption
     DEF IInv, Types, StoreTypeOK, OpShape, IntentOwned, PendingPcs,
         CreatePcs, DeletePcs, IDs, i
<1>8. VAppOwned'
  BY <1>1, <1>3, <1>4, StoreAssumption
     DEF CreateReturnsError, ownerVars, loopVars, IInv, Types, OpShape,
         VAppOwned, OwningPcs
<1>9. DeletesDoomed'
  BY <1>1, <1>2, <1>3, <1>4, StoreAssumption
     DEF CreateReturnsError, ownerVars, loopVars, IInv, Types, StoreTypeOK,
         OpShape, WorkFresh, DeletesDoomed, Doomed, DeletePcs, CleanupPcs
<1>10. WorkFresh'
  BY <1>1, <1>2, <1>3
     DEF CreateReturnsError, loopVars, IInv, Types, StoreTypeOK, WorkFresh,
         IDs
<1>. QED  BY <1>5, <1>6, <1>7, <1>8, <1>9, <1>10 DEF IInv

\* The invariant survives doCreate's success path: the vApp has no entry yet,
\* so the index gains exactly this one.
LEMMA CreateReturnsOKStep ==
    ASSUME IInv, NEW s \in Slots, CreateReturnsOK(s)
    PROVE  IInv'
<1>. DEFINE i == ops[s].intent
            v == ops[s].vapp
            new == [instances[i] EXCEPT !.Phase = "Running", !.ID = v, !.Retry = FALSE]
<1>1. /\ ops[s].pc = "created" /\ i \in Intents /\ i \in IDs /\ v \in VApps /\ v # None
      /\ instances[i] \in Instance /\ instances[i].Phase = "Creating" /\ instances[i].ID = None
      /\ byVAppHREF[v] = None
  BY StoreAssumption
     DEF CreateReturnsOK, IInv, Types, StoreTypeOK, OpShape, EntryShape,
         IntentOwned, VAppOwned, PendingPcs, CreatePcs, OwningPcs, IDs
<1>2. new \in Instance /\ new.ID = v /\ new.Phase = "Running"
  BY <1>1 DEF Instance, Phases
<1>3. instances' = [instances EXCEPT ![i] = new] /\ byVAppHREF' = [byVAppHREF EXCEPT ![v] = i]
  <2>1. instances' = [j \in IDs |-> IF j = i THEN new ELSE instances[j]]
    BY <1>1, <1>2, StoreAssumption
       DEF CreateReturnsOK, UpdateInstance, Tracked, IDs
  <2>2. byVAppHREF' = [byVAppHREF EXCEPT ![v] = i]
    BY <1>1, <1>2 DEF CreateReturnsOK, UpdateInstance, Tracked
  <2>. QED  BY <2>1, <2>2 DEF IInv, Types, StoreTypeOK
<1>4. ops' = [ops EXCEPT ![s].pc = "record"]
  BY DEF CreateReturnsOK, Goto
<1>5. \A t \in Slots : t # s => ops[t].vapp # v
  BY <1>1 DEF IInv, VAppOwned, OwningPcs
<1>6. v \notin failedCreateCleanups /\ (pc = "cleanupLoop" => v \notin work)
  BY <1>1 DEF IInv, VAppOwned, OwningPcs
<1>7. \A j \in IDs : instances[j].ID # v
  BY <1>1, StoreAssumption DEF IInv, IndexConsistent, IDs
<1>. HIDE DEF i, v, new
<1>8. Types' /\ OpShape'
  BY <1>1, <1>2, <1>3, <1>4, ReconcilerAssumption
     DEF CreateReturnsOK, recordCreateSuccess, ownerVars, loopVars, ghostVars,
         IInv, Types, StoreTypeOK, OpShape, Op, CreatePcs, DeletePcs,
         CleanupPcs, OwningPcs
<1>9. EntryShape'
  BY <1>1, <1>2, <1>3, StoreAssumption DEF IInv, Types, StoreTypeOK, EntryShape
<1>10. IndexConsistent'
  BY <1>1, <1>2, <1>3, <1>7, StoreAssumption
     DEF IInv, Types, StoreTypeOK, Instance, IndexConsistent, Tracked, IDs
<1>11. IntentOwned'
  BY <1>1, <1>2, <1>3, <1>4, <1>5, StoreAssumption
     DEF IInv, Types, StoreTypeOK, OpShape, IntentOwned, PendingPcs,
         CreatePcs, DeletePcs, IDs, i
<1>12. VAppOwned'
  BY <1>1, <1>3, <1>4, <1>5
     DEF CreateReturnsOK, ownerVars, loopVars, IInv, Types, StoreTypeOK,
         OpShape, VAppOwned, OwningPcs
<1>13. DeletesDoomed'
  BY <1>1, <1>2, <1>3, <1>4, <1>5, <1>6
     DEF CreateReturnsOK, ownerVars, loopVars, IInv, Types, StoreTypeOK,
         DeletesDoomed, Doomed, DeletePcs, CleanupPcs
<1>14. WorkFresh'
  BY <1>1, <1>2, <1>3
     DEF CreateReturnsOK, loopVars, IInv, Types, StoreTypeOK, WorkFresh, IDs
<1>. QED  BY <1>8, <1>9, <1>10, <1>11, <1>12, <1>13, <1>14 DEF IInv

\* The invariant survives the end of a successful create.
LEMMA createRecordedStep ==
    ASSUME IInv, NEW s \in Slots, createRecorded(s)
    PROVE  IInv'
<1>1. Types'
  BY DEF createRecorded, release, Free, storeVars, loopVars, breakerVars,
         ghostVars, IInv, Types, StoreTypeOK, Op
<1>2. EntryShape' /\ IndexConsistent' /\ WorkFresh'
  BY DEF createRecorded, storeVars, loopVars, IInv, EntryShape,
         IndexConsistent, WorkFresh, Tracked
<1>3. OpShape'
  BY DEF createRecorded, release, Free, IInv, OpShape, CreatePcs, OwningPcs,
         DeletePcs, CleanupPcs
<1>4. IntentOwned'
  BY DEF createRecorded, release, Free, storeVars, IInv, IntentOwned,
         PendingPcs, CreatePcs, DeletePcs
<1>5. VAppOwned'
  BY StoreAssumption
     DEF createRecorded, release, Free, storeVars, loopVars, IInv, VAppOwned,
         Types, OwningPcs
<1>6. DeletesDoomed'
  BY DEF createRecorded, release, Free, storeVars, loopVars, IInv,
         DeletesDoomed, Doomed, DeletePcs, CleanupPcs
<1>. QED  BY <1>1, <1>2, <1>3, <1>4, <1>5, <1>6 DEF IInv

\* The invariant survives a delete in vCD.
LEMMA deleteInstanceStep ==
    ASSUME IInv, NEW s \in Slots, NEW ok \in BOOLEAN, NEW gone \in BOOLEAN,
           deleteInstance(s, ok, gone)
    PROVE  IInv'
<1>1. Types'
  BY DEF deleteInstance, Goto, storeVars, ownerVars, loopVars, breakerVars,
         ghostVars, IInv, Types, StoreTypeOK, Op, DeletePcs, VAppStates,
         OpShape
<1>2. EntryShape' /\ IndexConsistent' /\ WorkFresh'
  BY DEF deleteInstance, storeVars, loopVars, IInv, EntryShape,
         IndexConsistent, WorkFresh, Tracked
<1>3. OpShape'
  BY DEF deleteInstance, Goto, IInv, OpShape, CreatePcs, DeletePcs
<1>4. IntentOwned'
  BY DEF deleteInstance, Goto, storeVars, IInv, IntentOwned, PendingPcs,
         CreatePcs, DeletePcs
<1>5. VAppOwned'
  BY DEF deleteInstance, Goto, storeVars, ownerVars, loopVars, IInv,
         VAppOwned, OwningPcs
<1>6. DeletesDoomed'
  BY DEF deleteInstance, Goto, storeVars, ownerVars, loopVars, IInv,
         DeletesDoomed, Doomed, DeletePcs
<1>. QED  BY <1>1, <1>2, <1>3, <1>4, <1>5, <1>6 DEF IInv

\* The invariant survives doDelete's error path: if its entry is still there,
\* it was on its way out.
LEMMA DeleteReturnsErrorStep ==
    ASSUME IInv, NEW s \in Slots, DeleteReturnsError(s)
    PROVE  IInv'
<1>. DEFINE i == ops[s].intent
            new == [instances[i] EXCEPT !.Phase = "PendingDelete", !.Retry = TRUE]
<1>1. /\ ops[s].pc = "deleteErr" /\ ops[s].pc \in DeletePcs
      /\ i \in IDs /\ instances[i] \in Instance /\ ops[s].vapp # None
  BY StoreAssumption
     DEF DeleteReturnsError, DeletePcs, IInv, Types, StoreTypeOK, OpShape, IDs
<1>2. ops' = [ops EXCEPT ![s] = Free] /\ Free \in Op /\ Free.pc = "free" /\ Free.vapp = None
  BY DEF DeleteReturnsError, release, Free, Op
<1>3. /\ StoreTypeOK'
      /\ byVAppHREF' = byVAppHREF
      /\ \A j \in IDs : Ages(instances[j], instances'[j])
  <2>1. CASE instances[i].Phase = "Untracked"
    BY <2>1
       DEF DeleteReturnsError, UpdateInstance, Tracked, storeVars, IInv,
           Types, StoreTypeOK, Ages
  <2>2. CASE instances[i].Phase # "Untracked"
    <3>1. instances[i].Phase \in DyingPhases
      BY <1>1, <2>2 DEF IInv, IntentOwned, DeletesDoomed, Doomed
    <3>2. new \in Instance /\ new.ID = instances[i].ID /\ Ages(instances[i], new)
      BY <1>1, <3>1 DEF Instance, Phases, Ages, DyingPhases
    <3>3. instances' = [instances EXCEPT ![i] = new] /\ byVAppHREF' = byVAppHREF
      BY <1>1, <2>2, <3>2, UpdateKeepsHREF
         DEF DeleteReturnsError, IInv, Types, Tracked
    <3>. HIDE DEF i, new
    <3>. QED  BY <1>1, <3>2, <3>3 DEF IInv, Types, StoreTypeOK, Ages
  <2>. QED  BY <2>1, <2>2
<1>. HIDE DEF i, new
<1>4. Types' /\ OpShape'
  BY <1>2, <1>3
     DEF DeleteReturnsError, ownerVars, loopVars, breakerVars, ghostVars,
         IInv, Types, OpShape, CreatePcs, DeletePcs, CleanupPcs, OwningPcs
<1>5. EntryShape' /\ IndexConsistent'
  BY <1>3, AgingKeepsStore DEF IInv, Types
<1>6. IntentOwned'
  BY <1>2, <1>3, AgingKeepsIntents DEF IInv, Types
<1>7. VAppOwned'
  BY <1>2, <1>3, StoreAssumption
     DEF DeleteReturnsError, ownerVars, loopVars, IInv, Types, OpShape,
         VAppOwned, OwningPcs
<1>8. DeletesDoomed'
  BY <1>2, <1>3, AgingKeepsDoomed
     DEF DeleteReturnsError, ownerVars, loopVars, IInv, Types, DeletesDoomed,
         DeletePcs, CleanupPcs
<1>9. WorkFresh'
  BY <1>3
     DEF DeleteReturnsError, loopVars, IInv, Types, WorkFresh, Ages,
         DyingPhases, IDs
<1>. QED  BY <1>4, <1>5, <1>6, <1>7, <1>8, <1>9 DEF IInv

\* The invariant survives doDelete's success path.
LEMMA DeleteReturnsOKStep ==
    ASSUME IInv, NEW s \in Slots, DeleteReturnsOK(s)
    PROVE  IInv'
<1>. DEFINE i == ops[s].intent
            new == [instances[i] EXCEPT !.Phase = "Deleted", !.Retry = FALSE]
<1>1. /\ ops[s].pc = "deleteOK" /\ ops[s].pc \in DeletePcs
      /\ i \in IDs /\ instances[i] \in Instance /\ ops[s].vapp # None
  BY StoreAssumption
     DEF DeleteReturnsOK, DeletePcs, IInv, Types, StoreTypeOK, OpShape, IDs
<1>2. ops' = [ops EXCEPT ![s] = Free] /\ Free \in Op /\ Free.pc = "free" /\ Free.vapp = None
  BY DEF DeleteReturnsOK, release, Free, Op
<1>3. /\ StoreTypeOK'
      /\ byVAppHREF' = byVAppHREF
      /\ \A j \in IDs : Ages(instances[j], instances'[j])
  <2>1. CASE instances[i].Phase = "Untracked"
    BY <2>1
       DEF DeleteReturnsOK, UpdateInstance, Tracked, storeVars, IInv, Types,
           StoreTypeOK, Ages
  <2>2. CASE instances[i].Phase # "Untracked"
    <3>1. instances[i].Phase \in DyingPhases
      BY <1>1, <2>2 DEF IInv, IntentOwned, DeletesDoomed, Doomed
    <3>2. new \in Instance /\ new.ID = instances[i].ID /\ Ages(instances[i], new)
      BY <1>1, <3>1 DEF Instance, Phases, Ages, DyingPhases
    <3>3. instances' = [instances EXCEPT ![i] = new] /\ byVAppHREF' = byVAppHREF
      BY <1>1, <2>2, <3>2, UpdateKeepsHREF
         DEF DeleteReturnsOK, IInv, Types, Tracked
    <3>. HIDE DEF i, new
    <3>. QED  BY <1>1, <3>2, <3>3 DEF IInv, Types, StoreTypeOK, Ages
  <2>. QED  BY <2>1, <2>2
<1>. HIDE DEF i, new
<1>4. Types' /\ OpShape'
  BY <1>2, <1>3
     DEF DeleteReturnsOK, ownerVars, loopVars, breakerVars, ghostVars, IInv,
         Types, OpShape, CreatePcs, DeletePcs, CleanupPcs, OwningPcs
<1>5. EntryShape' /\ IndexConsistent'
  BY <1>3, AgingKeepsStore DEF IInv, Types
<1>6. IntentOwned'
  BY <1>2, <1>3, AgingKeepsIntents DEF IInv, Types
<1>7. VAppOwned'
  BY <1>2, <1>3, StoreAssumption
     DEF DeleteReturnsOK, ownerVars, loopVars, IInv, Types, OpShape,
         VAppOwned, OwningPcs
<1>8. DeletesDoomed'
  BY <1>2, <1>3, AgingKeepsDoomed
     DEF DeleteReturnsOK, ownerVars, loopVars, IInv, Types, DeletesDoomed,
         DeletePcs, CleanupPcs
<1>9. WorkFresh'
  BY <1>3
     DEF DeleteReturnsOK, loopVars, IInv, Types, WorkFresh, Ages, DyingPhases,
         IDs
<1>. QED  BY <1>4, <1>5, <1>6, <1>7, <1>8, <1>9 DEF IInv

\* The invariant survives a cleanup in vCD.
LEMMA cleanUpInstanceByNameStep ==
    ASSUME IInv, NEW s \in Slots, NEW ok \in BOOLEAN, NEW gone \in BOOLEAN,
           cleanUpInstanceByName(s, ok, gone)
    PROVE  IInv'
<1>1. Types'
  BY DEF cleanUpInstanceByName, Goto, storeVars, ownerVars, loopVars,
         breakerVars, ghostVars, IInv, Types, StoreTypeOK, Op, CleanupPcs,
         VAppStates, OpShape
<1>2. EntryShape' /\ IndexConsistent' /\ WorkFresh'
  BY DEF cleanUpInstanceByName, storeVars, loopVars, IInv, EntryShape,
         IndexConsistent, WorkFresh, Tracked
<1>3. OpShape'
  BY DEF cleanUpInstanceByName, Goto, IInv, OpShape, CreatePcs, DeletePcs,
         CleanupPcs
<1>4. IntentOwned'
  BY DEF cleanUpInstanceByName, Goto, storeVars, IInv, IntentOwned,
         PendingPcs, CreatePcs, DeletePcs
<1>5. VAppOwned'
  BY DEF cleanUpInstanceByName, Goto, storeVars, ownerVars, loopVars, IInv,
         VAppOwned, OwningPcs
<1>6. DeletesDoomed'
  BY DEF cleanUpInstanceByName, Goto, storeVars, ownerVars, loopVars, IInv,
         DeletesDoomed, Doomed, CleanupPcs
<1>. QED  BY <1>1, <1>2, <1>3, <1>4, <1>5, <1>6 DEF IInv

\* The invariant survives the end of a cleanup.
LEMMA CleanupReturnsStep ==
    ASSUME IInv, NEW s \in Slots, CleanupReturns(s)
    PROVE  IInv'
<1>1. Types'
  <2>1. ops[s].vapp \in VApps
    BY DEF CleanupReturns, IInv, OpShape, CleanupPcs, Types, Op
  <2>2. failedCreateCleanups' \subseteq VApps /\ forgotten' \subseteq VApps
    BY <2>1 DEF CleanupReturns, IInv, Types
  <2>. QED  BY <2>2 DEF CleanupReturns, release, Free, storeVars, loopVars, breakerVars,
                        IInv, Types, StoreTypeOK, Op
<1>2. EntryShape' /\ IndexConsistent' /\ WorkFresh'
  BY DEF CleanupReturns, storeVars, loopVars, IInv, EntryShape,
         IndexConsistent, WorkFresh, Tracked
<1>3. OpShape'
  BY DEF CleanupReturns, release, Free, IInv, OpShape, CreatePcs, OwningPcs,
         DeletePcs, CleanupPcs
<1>4. IntentOwned'
  BY DEF CleanupReturns, release, Free, storeVars, IInv, IntentOwned,
         PendingPcs, CreatePcs, DeletePcs
<1>5. VAppOwned'
  BY StoreAssumption
     DEF CleanupReturns, release, Free, storeVars, loopVars, IInv, VAppOwned,
         Types, OwningPcs
<1>6. DeletesDoomed'
  BY DEF CleanupReturns, release, Free, storeVars, loopVars, IInv,
         DeletesDoomed, Doomed, DeletePcs, CleanupPcs
<1>. QED  BY <1>1, <1>2, <1>3, <1>4, <1>5, <1>6 DEF IInv

\* The invariant survives a new create intent.
LEMMA IncreaseStep ==
    ASSUME IInv, NEW i \in Intents, Increase(i)
    PROVE  IInv'
<1>1. Types'
  BY StoreAssumption
     DEF Increase, AddCreateIntent, NewInstance, ownerVars, loopVars,
         breakerVars, ghostVars, IInv, Types, StoreTypeOK, IDs, Instance,
         Phases
<1>2. OpShape'
  BY DEF Increase, IInv, OpShape
<1>3. EntryShape'
  BY StoreAssumption
     DEF Increase, AddCreateIntent, NewInstance, IInv, EntryShape
<1>4. IndexConsistent'
  BY DEF Increase, AddCreateIntent, NewInstance, Tracked, IInv,
         IndexConsistent
<1>5. IntentOwned'
  BY DEF Increase, AddCreateIntent, IInv, IntentOwned
<1>6. VAppOwned'
  BY DEF Increase, AddCreateIntent, ownerVars, loopVars, IInv, VAppOwned
<1>7. DeletesDoomed'
  BY StoreAssumption
     DEF Increase, AddCreateIntent, NewInstance, ownerVars, loopVars, IInv,
         Types, StoreTypeOK, OpShape, WorkFresh, DeletesDoomed, Doomed,
         DeletePcs, CleanupPcs
<1>8. WorkFresh'
  BY DEF Increase, AddCreateIntent, loopVars, IInv, WorkFresh
<1>. QED  BY <1>1, <1>2, <1>3, <1>4, <1>5, <1>6, <1>7, <1>8 DEF IInv

\* The invariant survives MarkForDeletion, which only ages a Running entry.
LEMMA DecreaseStep ==
    ASSUME IInv, NEW id \in IDs, Decrease(id)
    PROVE  IInv'
<1>1. Types'
  BY DEF Decrease, MarkForDeletion, findLocked, ownerVars, loopVars,
         breakerVars, ghostVars, IInv, Types, StoreTypeOK, Instance, Phases
<1>2. OpShape'
  BY DEF Decrease, IInv, OpShape
<1>3. EntryShape'
  BY DEF Decrease, MarkForDeletion, IInv, EntryShape
<1>4. IndexConsistent'
  BY DEF Decrease, MarkForDeletion, Tracked, IInv, IndexConsistent
<1>5. IntentOwned'
  BY DEF Decrease, MarkForDeletion, IInv, IntentOwned
<1>6. VAppOwned'
  BY DEF Decrease, MarkForDeletion, ownerVars, loopVars, IInv, VAppOwned
<1>7. DeletesDoomed'
  BY DEF Decrease, MarkForDeletion, ownerVars, loopVars, IInv, DeletesDoomed,
         Doomed, DyingPhases
<1>8. WorkFresh'
  BY DEF Decrease, MarkForDeletion, loopVars, IInv, WorkFresh
<1>. QED  BY <1>1, <1>2, <1>3, <1>4, <1>5, <1>6, <1>7, <1>8 DEF IInv

\* The invariant survives a late commit in vCD.
LEMMA LateCommitStep ==
    ASSUME IInv, NEW v \in VApps, LateCommit(v)
    PROVE  IInv'
<1>1. Types'
  BY DEF LateCommit, storeVars, ownerVars, loopVars, breakerVars, ghostVars,
         IInv, Types, StoreTypeOK, VAppStates
<1>2. OpShape' /\ EntryShape' /\ IndexConsistent' /\ IntentOwned' /\
      VAppOwned' /\ DeletesDoomed' /\ WorkFresh'
  BY DEF LateCommit, storeVars, ownerVars, loopVars, IInv, OpShape,
         EntryShape, IndexConsistent, IntentOwned, VAppOwned, DeletesDoomed,
         WorkFresh, Tracked, Doomed
<1>. QED  BY <1>1, <1>2 DEF IInv

\* The invariant survives a delete by someone else.
LEMMA VAppVanishesStep ==
    ASSUME IInv, NEW v \in VApps, VAppVanishes(v)
    PROVE  IInv'
<1>1. Types'
  BY DEF VAppVanishes, storeVars, ownerVars, loopVars, breakerVars, ghostVars,
         IInv, Types, StoreTypeOK, VAppStates
<1>2. OpShape' /\ EntryShape' /\ IndexConsistent' /\ IntentOwned' /\
      VAppOwned' /\ DeletesDoomed' /\ WorkFresh'
  BY DEF VAppVanishes, storeVars, ownerVars, loopVars, IInv, OpShape,
         EntryShape, IndexConsistent, IntentOwned, VAppOwned, DeletesDoomed,
         WorkFresh, Tracked, Doomed
<1>. QED  BY <1>1, <1>2 DEF IInv

\* The invariant survives the end of the breaker's cooldown.
LEMMA CooldownEndsStep ==
    ASSUME IInv, CooldownEnds
    PROVE  IInv'
<1>1. Types'
  BY DEF CooldownEnds, storeVars, ownerVars, loopVars, ghostVars, IInv, Types,
         StoreTypeOK
<1>2. OpShape' /\ EntryShape' /\ IndexConsistent' /\ IntentOwned' /\
      VAppOwned' /\ DeletesDoomed' /\ WorkFresh'
  BY DEF CooldownEnds, storeVars, ownerVars, loopVars, IInv, OpShape,
         EntryShape, IndexConsistent, IntentOwned, VAppOwned, DeletesDoomed,
         WorkFresh, Tracked, Doomed
<1>. QED  BY <1>1, <1>2 DEF IInv

\* The invariant survives a crash and restart, which empties the store and
\* the maps.
LEMMA RestartStep ==
    ASSUME IInv, NEW sent \in SUBSET VApps, Restart(sent)
    PROVE  IInv'
<1>1. NoInstance \in Instance /\ NoInstance.ID = None /\ NoInstance.Phase = "Untracked"
  BY StoreAssumption DEF NoInstance, NewInstance, Instance
<1>2. Free \in Op /\ Free.pc = "free" /\ Free.vapp = None
  BY DEF Free, Op
<1>3. /\ instances' = [i \in IDs |-> NoInstance] /\ byVAppHREF' = [v \in VApps |-> None]
      /\ ops' = [t \in Slots |-> Free]
      /\ failedCreateCleanups' = {} /\ pc' = "idle"
  BY DEF Restart
<1>4. Types'
  <2>1. StoreTypeOK'
    BY <1>1, <1>3 DEF StoreTypeOK
  <2>2. vcd' \in [VApps -> VAppStates] /\ old' \subseteq VApps
    BY DEF Restart, IInv, Types, VAppStates
  <2>3. restarts' \in 0 .. MaxRestarts /\ createFailures' \in 0 .. circuitBreakerThreshold
    BY ReconcilerAssumption DEF Restart, IInv, Types
  <2>. QED  BY <1>2, <1>3, <2>1, <2>2, <2>3 DEF Restart, Types, LoopPcs
<1>5. OpShape' /\ IntentOwned' /\ VAppOwned'
  BY <1>2, <1>3 DEF OpShape, IntentOwned, VAppOwned, OwningPcs, PendingPcs,
                    CreatePcs, DeletePcs, CleanupPcs
<1>6. EntryShape' /\ IndexConsistent'
  BY <1>1, <1>3 DEF EntryShape, IndexConsistent
<1>7. DeletesDoomed' /\ WorkFresh'
  BY <1>2, <1>3 DEF DeletesDoomed, WorkFresh, DeletePcs, CleanupPcs
<1>. QED  BY <1>4, <1>5, <1>6, <1>7 DEF IInv

-----------------------------------------------------------------------------
(* The theorems.                                                           *)

\* The invariant holds initially.
LEMMA InitIInv == Init => IInv
<1>. SUFFICES ASSUME Init PROVE IInv
  OBVIOUS
<1>1. NoInstance \in Instance /\ NoInstance.ID = None /\ NoInstance.Phase = "Untracked"
  BY StoreAssumption DEF NoInstance, NewInstance, Instance
<1>2. Free \in Op /\ Free.pc = "free" /\ Free.vapp = None
  BY DEF Free, Op
<1>3. Types
  <2>1. StoreTypeOK
    BY <1>1 DEF Init, newDesiredStateStore, StoreTypeOK
  <2>2. vcd \in [VApps -> VAppStates] /\ old \subseteq VApps
    BY ReconcilerAssumption DEF Init, VAppStates
  <2>3. restarts \in 0 .. MaxRestarts /\ createFailures \in 0 .. circuitBreakerThreshold
    BY ReconcilerAssumption DEF Init
  <2>. QED  BY <1>2, <2>1, <2>2, <2>3 DEF Init, Types, LoopPcs
<1>4. OpShape /\ IntentOwned /\ VAppOwned
  BY <1>2 DEF Init, OpShape, IntentOwned, VAppOwned, OwningPcs, PendingPcs,
              CreatePcs, DeletePcs, CleanupPcs
<1>5. EntryShape /\ IndexConsistent
  BY <1>1 DEF Init, newDesiredStateStore, EntryShape, IndexConsistent
<1>6. DeletesDoomed /\ WorkFresh
  BY <1>2 DEF Init, DeletesDoomed, WorkFresh, DeletePcs, CleanupPcs
<1>. QED  BY <1>3, <1>4, <1>5, <1>6 DEF IInv

\* A step of the reconcile goroutine preserves the invariant.
LEMMA LoopStep == ASSUME IInv, reconcileOnce PROVE IInv'
  BY PollFailsStep, SearchByFilterStep, readListedVAppsStep, PollTrackedStep,
     PollUntrackedStep, ownsVAppStep, PollAdoptsStep, PollEndsStep,
     updateStartupHoldStep, dispatchCreatesStep, DispatchCreateStep,
     dispatchDeletesStep, DispatchDeleteStep, dispatchCreateCleanupsStep,
     DispatchCleanupStep, GCAndPruneStep
     DEF reconcileOnce

\* A step of the goroutine of a create, a delete or a cleanup preserves it.
LEMMA OperationStep ==
    ASSUME IInv, NEW s \in Slots, doCreate(s) \/ doDelete(s) \/ doCleanup(s)
    PROVE  IInv'
<1>1. CASE doCreate(s)
  BY <1>1, CreatePreludeFailsStep, ChooseNameStep, createRawVAppStep,
     AddMetadataStep, BuildVMStep, AbortStep, DisownStep,
     CreateReturnsErrorStep, CreateReturnsOKStep, createRecordedStep
     DEF doCreate
<1>2. CASE doDelete(s)
  BY <1>2, deleteInstanceStep, DeleteReturnsErrorStep, DeleteReturnsOKStep
     DEF doDelete
<1>3. CASE doCleanup(s)
  BY <1>3, cleanUpInstanceByNameStep, CleanupReturnsStep DEF doCleanup
<1>. QED  BY <1>1, <1>2, <1>3

\* A call of Increase or Decrease, a change in vCD, the end of the breaker's
\* cooldown and a restart preserve it.
LEMMA EnvironmentStep == ASSUME IInv, Environment PROVE IInv'
  BY IncreaseStep, DecreaseStep, LateCommitStep, VAppVanishesStep,
     CooldownEndsStep, RestartStep
     DEF Environment

\* A step that changes nothing preserves it.
LEMMA StutteringStep == ASSUME IInv, UNCHANGED vars PROVE IInv'
<1>1. UNCHANGED <<instances, byVAppHREF, vcd, inflightCreates, failedCreateCleanups,
                  ops, pc, work, cur, known, pollOK, startup, createFailures,
                  breakerOpen, old, forgotten, restarts>>
  BY DEF vars, storeVars, ownerVars, loopVars, breakerVars, ghostVars
<1>2. Types'
  BY <1>1 DEF IInv, Types, StoreTypeOK
<1>3. OpShape' /\ EntryShape' /\ IndexConsistent' /\ IntentOwned'
  BY <1>1 DEF IInv, OpShape, EntryShape, IndexConsistent, IntentOwned, Tracked
<1>4. VAppOwned' /\ DeletesDoomed' /\ WorkFresh'
  BY <1>1 DEF IInv, VAppOwned, DeletesDoomed, Doomed, WorkFresh
<1>. QED  BY <1>2, <1>3, <1>4 DEF IInv

\* The inductive invariant holds in every reachable state, whatever the number
\* of intents, vApps and slots and however the goroutines interleave.
THEOREM InvariantHolds == Spec => []IInv
<1>1. Init => IInv
  BY InitIInv
<1>2. IInv /\ [Next]_vars => IInv'
  BY LoopStep, OperationStep, EnvironmentStep, StutteringStep DEF Next
<1>. QED  BY <1>1, <1>2, PTL DEF Spec

\* Every variable keeps its type; in particular dispatchDeletes never starts a
\* delete without an HREF, so its branch for an empty HREF is never taken.
THEOREM TypeCorrect == Spec => []TypeOK
<1>1. IInv => TypeOK
  BY StoreAssumption DEF IInv, Types, OpShape, TypeOK
<1>. QED  BY <1>1, InvariantHolds, PTL

\* The store's map and its HREF index agree at all times, across discovery,
\* creates that finish, restarts and prunes.
THEOREM StoreIndexed == Spec => []IndexConsistent
<1>1. IInv => IndexConsistent
  BY DEF IInv
<1>. QED  BY <1>1, InvariantHolds, PTL

\* The ownership handover is safe: no delete and no cleanup ever runs on the
\* vApp of a create that has not failed or of a Running instance.
THEOREM LiveVAppsAreSafe == Spec => []NeverDeletesLive
<1>1. ASSUME IInv PROVE NeverDeletesLive
  <2>1. SUFFICES ASSUME NEW s \in OpsAt({"delete", "cleanup"}), Live(ops[s].vapp)
                 PROVE  FALSE
    BY DEF NeverDeletesLive
  <2>2. s \in Slots /\ ops[s].pc \in {"delete", "cleanup"} /\ Doomed(ops[s].vapp)
    BY <1>1, <2>1 DEF OpsAt, IInv, DeletesDoomed, DeletePcs, CleanupPcs
  <2>3. CASE LiveCreate(ops[s].vapp)
    <3>1. PICK t \in Slots : /\ ops[t].pc \in {"post", "meta", "build", "created"}
                             /\ ops[t].vapp = ops[s].vapp
      BY <2>3 DEF LiveCreate, OpsAt
    <3>2. s # t
      BY <2>2, <3>1
    <3>. QED  BY <1>1, <2>2, <3>1, <3>2 DEF IInv, VAppOwned, OwningPcs
  <2>4. CASE \E i \in InPhase("Running") : instances[i].ID = ops[s].vapp
    BY <2>2, <2>4 DEF InPhase, Doomed, DyingPhases
  <2>. QED  BY <2>1, <2>3, <2>4 DEF Live
<1>. QED  BY <1>1, InvariantHolds, PTL

-----------------------------------------------------------------------------
(* What the methods called with a result do to the store.                  *)

\* Entry i gets a phase and an HREF, and no other entry changes.
Sets(i, phase, href) ==
    /\ \A j \in IDs : j # i => instances'[j] = instances[j]
    /\ instances'[i].Phase = phase
    /\ instances'[i].ID = href
    /\ instances'[i].MissedPolls = instances[i].MissedPolls

\* A create is dispatched: the intent was pending.
LEMMA DispatchCreateEffect ==
    ASSUME IInv, NEW i \in Intents, NEW s \in Slots, DispatchCreate(i, s)
    PROVE  /\ i \in IDs /\ instances[i].Phase = "PendingCreate" /\ instances[i].ID = None
           /\ Sets(i, "Creating", None)
           /\ byVAppHREF' = byVAppHREF
<1>. DEFINE new == [instances[i] EXCEPT !.Phase = "Creating"]
<1>1. /\ i \in IDs /\ instances[i] \in Instance
      /\ instances[i].Phase = "PendingCreate" /\ instances[i].ID = None
  BY DEF DispatchCreate, IInv, Types, StoreTypeOK, WorkFresh, EntryShape, IDs
<1>2. new \in Instance /\ new.ID = None /\ new.Phase = "Creating"
      /\ new.MissedPolls = instances[i].MissedPolls
  BY <1>1 DEF Instance, Phases
<1>3. instances' = [instances EXCEPT ![i] = new] /\ byVAppHREF' = byVAppHREF
  BY <1>1, <1>2, UpdateKeepsHREF DEF DispatchCreate, IInv, Types, Tracked
<1>. HIDE DEF new
<1>. QED  BY <1>1, <1>2, <1>3 DEF Sets, IInv, Types, StoreTypeOK

\* A delete is dispatched, of an entry that has an HREF.
LEMMA DispatchDeleteEffect ==
    ASSUME IInv, NEW i \in IDs, NEW s \in Slots, DispatchDelete(i, s)
    PROVE  /\ instances[i].ID \in VApps /\ byVAppHREF[instances[i].ID] = i
           /\ instances[i].Phase \in {"Running"} \cup DyingPhases
           /\ Sets(i, "Deleting", instances[i].ID)
           /\ byVAppHREF' = byVAppHREF
<1>. DEFINE new == [instances[i] EXCEPT !.Phase = "Deleting"]
<1>1. /\ instances[i] \in Instance
      /\ instances[i].ID \in VApps /\ byVAppHREF[instances[i].ID] = i
      /\ instances[i].Phase \in {"Running"} \cup DyingPhases
  BY DEF DispatchDelete, IInv, Types, StoreTypeOK, WorkFresh, EntryShape, IndexConsistent,
         Instance, Phases, DyingPhases
<1>2. new \in Instance /\ new.ID = instances[i].ID /\ new.Phase = "Deleting"
      /\ new.MissedPolls = instances[i].MissedPolls
  BY <1>1 DEF Instance, Phases
<1>3. instances' = [instances EXCEPT ![i] = new] /\ byVAppHREF' = byVAppHREF
  BY <1>1, <1>2, UpdateKeepsHREF DEF DispatchDelete, IInv, Types, Tracked, DyingPhases
<1>. HIDE DEF new
<1>. QED  BY <1>1, <1>2, <1>3 DEF Sets, IInv, Types, StoreTypeOK

\* A create fails: its intent is pending again.
LEMMA CreateReturnsErrorEffect ==
    ASSUME IInv, NEW s \in Slots, CreateReturnsError(s)
    PROVE  /\ ops[s].intent \in Intents /\ ops[s].intent \in IDs
           /\ instances[ops[s].intent].Phase = "Creating" /\ instances[ops[s].intent].ID = None
           /\ Sets(ops[s].intent, "PendingCreate", None)
           /\ byVAppHREF' = byVAppHREF
<1>. DEFINE i == ops[s].intent
            new == [instances[i] EXCEPT !.Phase = "PendingCreate", !.Retry = TRUE]
<1>1. /\ i \in Intents /\ i \in IDs /\ instances[i] \in Instance
      /\ instances[i].Phase = "Creating" /\ instances[i].ID = None
  BY DEF CreateReturnsError, IInv, Types, StoreTypeOK, OpShape, EntryShape, IntentOwned,
         PendingPcs, CreatePcs, IDs
<1>2. new \in Instance /\ new.ID = None /\ new.Phase = "PendingCreate"
      /\ new.MissedPolls = instances[i].MissedPolls
  BY <1>1 DEF Instance, Phases
<1>3. instances' = [instances EXCEPT ![i] = new] /\ byVAppHREF' = byVAppHREF
  BY <1>1, <1>2, UpdateKeepsHREF DEF CreateReturnsError, IInv, Types, Tracked
<1>. HIDE DEF new
<1>. QED  BY <1>1, <1>2, <1>3 DEF Sets, IInv, Types, StoreTypeOK

\* A create succeeds: its vApp had no entry, and now has this one.
LEMMA CreateReturnsOKEffect ==
    ASSUME IInv, NEW s \in Slots, CreateReturnsOK(s)
    PROVE  /\ ops[s].intent \in Intents /\ ops[s].intent \in IDs /\ ops[s].vapp \in VApps
           /\ instances[ops[s].intent].Phase = "Creating" /\ instances[ops[s].intent].ID = None
           /\ byVAppHREF[ops[s].vapp] = None
           /\ Sets(ops[s].intent, "Running", ops[s].vapp)
           /\ byVAppHREF' = [byVAppHREF EXCEPT ![ops[s].vapp] = ops[s].intent]
<1>. DEFINE i == ops[s].intent
            v == ops[s].vapp
            new == [instances[i] EXCEPT !.Phase = "Running", !.ID = v, !.Retry = FALSE]
<1>1. /\ i \in Intents /\ i \in IDs /\ v \in VApps /\ v # None
      /\ instances[i] \in Instance /\ instances[i].Phase = "Creating" /\ instances[i].ID = None
      /\ byVAppHREF[v] = None
  BY StoreAssumption
     DEF CreateReturnsOK, IInv, Types, StoreTypeOK, OpShape, EntryShape, IntentOwned,
         VAppOwned, PendingPcs, CreatePcs, OwningPcs, IDs
<1>2. new \in Instance /\ new.ID = v /\ new.Phase = "Running"
      /\ new.MissedPolls = instances[i].MissedPolls
  BY <1>1 DEF Instance, Phases
<1>3. /\ instances' = [j \in IDs |-> IF j = i THEN new ELSE instances[j]]
      /\ byVAppHREF' = [byVAppHREF EXCEPT ![v] = i]
  BY <1>1, <1>2, StoreAssumption DEF CreateReturnsOK, UpdateInstance, Tracked, IDs
<1>. HIDE DEF new
<1>. QED  BY <1>1, <1>2, <1>3 DEF Sets

\* The end of a delete of an entry with phase ph to come. The entry may be
\* pruned by then; if it is not, it is the one the delete began with.
DeleteRecords(s, ph) ==
    /\ ops[s].intent \in IDs /\ byVAppHREF' = byVAppHREF
    /\ \/ /\ instances[ops[s].intent].Phase = "Untracked"
          /\ instances' = instances
       \/ /\ instances[ops[s].intent].Phase \in DyingPhases
          /\ instances[ops[s].intent].ID = ops[s].vapp
          /\ Sets(ops[s].intent, ph, ops[s].vapp)

\* Both ends of a delete record their result that way.
LEMMA DeleteReturnsEffect ==
    ASSUME IInv, NEW s \in Slots
    PROVE  /\ DeleteReturnsError(s) => DeleteRecords(s, "PendingDelete")
           /\ DeleteReturnsOK(s) => DeleteRecords(s, "Deleted")
<1>. DEFINE i == ops[s].intent
            pending == [instances[i] EXCEPT !.Phase = "PendingDelete", !.Retry = TRUE]
            deleted == [instances[i] EXCEPT !.Phase = "Deleted", !.Retry = FALSE]
<1>. SUFFICES ASSUME DeleteReturnsError(s) \/ DeleteReturnsOK(s)
              PROVE  /\ DeleteReturnsError(s) => DeleteRecords(s, "PendingDelete")
                     /\ DeleteReturnsOK(s) => DeleteRecords(s, "Deleted")
  OBVIOUS
<1>1. /\ i \in IDs /\ instances[i] \in Instance
      /\ \/ instances[i].Phase = "Untracked"
         \/ instances[i].ID = ops[s].vapp /\ instances[i].Phase \in DyingPhases
  BY DEF DeleteReturnsError, DeleteReturnsOK, IInv, Types, StoreTypeOK, OpShape, IntentOwned,
         DeletesDoomed, Doomed, DeletePcs, IDs
<1>2. CASE instances[i].Phase = "Untracked"
  BY <1>1, <1>2 DEF DeleteReturnsError, DeleteReturnsOK, UpdateInstance, Tracked, storeVars,
                    DeleteRecords
<1>3. CASE instances[i].Phase # "Untracked"
  <2>1. /\ pending \in Instance /\ pending.ID = instances[i].ID
        /\ pending.Phase = "PendingDelete" /\ pending.MissedPolls = instances[i].MissedPolls
    BY <1>1 DEF Instance, Phases
  <2>2. /\ deleted \in Instance /\ deleted.ID = instances[i].ID
        /\ deleted.Phase = "Deleted" /\ deleted.MissedPolls = instances[i].MissedPolls
    BY <1>1 DEF Instance, Phases
  <2>3. DeleteReturnsError(s) =>
           instances' = [instances EXCEPT ![i] = pending] /\ byVAppHREF' = byVAppHREF
    BY <1>1, <1>3, <2>1, UpdateKeepsHREF DEF DeleteReturnsError, IInv, Types, Tracked
  <2>4. DeleteReturnsOK(s) =>
           instances' = [instances EXCEPT ![i] = deleted] /\ byVAppHREF' = byVAppHREF
    BY <1>1, <1>3, <2>2, UpdateKeepsHREF DEF DeleteReturnsOK, IInv, Types, Tracked
  <2>. HIDE DEF pending, deleted
  <2>. QED  BY <1>1, <1>3, <2>1, <2>2, <2>3, <2>4
            DEF DeleteRecords, Sets, IInv, Types, StoreTypeOK
<1>. QED  BY <1>2, <1>3

\* AddLeftover gives a vApp without an entry one of its own.
LEMMA PollAdoptsEffect ==
    ASSUME IInv, PollAdopts
    PROVE  /\ cur \in VApps /\ cur \in IDs
           /\ \/ byVAppHREF[cur] # None /\ UNCHANGED <<instances, byVAppHREF>>
              \/ /\ byVAppHREF[cur] = None
                 /\ instances[cur].Phase = "Untracked"
                 /\ \A i \in IDs : i # cur => instances'[i] = instances[i]
                 /\ instances'[cur].Phase = "PendingDelete"
                 /\ instances'[cur].ID = cur /\ instances'[cur].MissedPolls = 0
                 /\ byVAppHREF' = [byVAppHREF EXCEPT ![cur] = cur]
<1>. DEFINE new == NewInstance("PendingDelete", cur)
<1>1. cur \in VApps /\ cur \in IDs /\ cur # None
  BY StoreAssumption DEF PollAdopts, IInv, WorkFresh, IDs
<1>2. new.Phase = "PendingDelete" /\ new.ID = cur /\ new.MissedPolls = 0
  BY DEF NewInstance
<1>3. CASE byVAppHREF[cur] # None
  BY <1>1, <1>3 DEF PollAdopts, AddLeftover, storeVars
<1>4. CASE byVAppHREF[cur] = None
  <2>1. instances[cur].Phase = "Untracked"
    BY <1>1, <1>4 DEF IInv, EntryShape, IndexConsistent
  <2>2. /\ instances' = [instances EXCEPT ![cur] = new]
        /\ byVAppHREF' = [byVAppHREF EXCEPT ![cur] = cur]
    BY <1>4 DEF PollAdopts, AddLeftover
  <2>. HIDE DEF new
  <2>. QED  BY <1>1, <1>2, <1>4, <2>1, <2>2 DEF IInv, Types, StoreTypeOK
<1>. QED  BY <1>3, <1>4

\* UpdateFromVCD touches nothing but the misses.
LEMMA PollTrackedEffect ==
    ASSUME IInv, NEW v \in VApps, NEW vmRead \in BOOLEAN, PollTracked(v, vmRead)
    PROVE  /\ \A i \in IDs : /\ instances'[i].Phase = instances[i].Phase
                             /\ instances'[i].ID = instances[i].ID
                             /\ instances'[i].MissedPolls \in {0, instances[i].MissedPolls}
           /\ byVAppHREF' = byVAppHREF
<1>1. CASE UNCHANGED storeVars
  BY <1>1 DEF storeVars
<1>2. CASE UpdateFromVCD(v)
  BY <1>2 DEF UpdateFromVCD, IInv, Types, StoreTypeOK, Instance
<1>. QED  BY <1>1, <1>2 DEF PollTracked

\* An entry that MarkDisappeared counts a miss for.
Misses(i) ==
    /\ instances[i].Phase \in {"Running", "PendingDelete", "Deleting"}
    /\ instances[i].ID \in VApps \ known
    /\ instances'[i].ID = instances[i].ID
    /\ \/ /\ instances'[i].Phase = instances[i].Phase
          /\ instances'[i].MissedPolls = instances[i].MissedPolls + 1
       \/ /\ instances'[i].Phase = "Deleted"
          /\ instances[i].MissedPolls + 1 >= missedPollsBeforeDisappeared

\* The end of a poll counts misses and does nothing else to the store.
LEMMA PollEndsEffect ==
    ASSUME IInv, PollEnds
    PROVE  /\ \A i \in IDs : instances'[i] = instances[i] \/ Misses(i)
           /\ byVAppHREF' = byVAppHREF
<1>1. CASE UNCHANGED storeVars
  BY <1>1 DEF storeVars
<1>2. CASE MarkDisappeared(known)
  <2>1. ASSUME NEW i \in IDs, instances'[i] # instances[i]
        PROVE  Misses(i)
    <3>1. /\ instances[i] \in Instance /\ instances'[i] = Miss(instances[i])
          /\ instances[i].Phase \in {"Running", "PendingDelete", "Deleting"}
          /\ instances[i].ID \in VApps \ known
      BY <1>2, <2>1 DEF MarkDisappeared, IInv, Types, StoreTypeOK, Instance
    <3>. DEFINE inst == instances[i]
                misses == inst.MissedPolls + 1
    <3>2. CASE misses >= missedPollsBeforeDisappeared
      <4>1. instances'[i] = [inst EXCEPT !.MissedPolls = missedPollsBeforeDisappeared,
                                         !.Phase = "Deleted"]
        BY <3>1, <3>2 DEF Miss
      <4>2. instances'[i].ID = inst.ID /\ instances'[i].Phase = "Deleted"
        BY <3>1, <4>1 DEF Instance
      <4>. QED  BY <3>1, <3>2, <4>2 DEF Misses
    <3>3. CASE ~ (misses >= missedPollsBeforeDisappeared)
      <4>1. instances'[i] = [inst EXCEPT !.MissedPolls = misses]
        BY <3>1, <3>3 DEF Miss
      <4>2. instances'[i].ID = inst.ID /\ instances'[i].Phase = inst.Phase
            /\ instances'[i].MissedPolls = misses
        BY <3>1, <4>1 DEF Instance
      <4>. QED  BY <3>1, <4>2 DEF Misses
    <3>. QED  BY <3>2, <3>3
  <2>. QED  BY <1>2, <2>1 DEF MarkDisappeared
<1>. QED  BY <1>1, <1>2 DEF PollEnds

\* GC and Prune: a running entry may be condemned, a deleted one forgotten.
LEMMA GCAndPruneEffect ==
    ASSUME IInv, GCAndPrune
    PROVE  /\ \A i \in IDs :
                 \/ instances'[i] = instances[i]
                 \/ /\ instances[i].Phase = "Running" /\ instances'[i].Phase = "PendingDelete"
                    /\ instances'[i].ID = instances[i].ID
                    /\ instances'[i].MissedPolls = instances[i].MissedPolls
                 \/ /\ instances[i].Phase = "Deleted" /\ instances'[i].Phase = "Untracked"
                    /\ instances'[i].ID = None
           /\ \A v \in VApps :
                 \/ byVAppHREF'[v] = byVAppHREF[v]
                 \/ /\ byVAppHREF'[v] = None
                    /\ \E i \in IDs : instances[i].Phase = "Deleted" /\ instances[i].ID = v
<1>1. PICK aged \in SUBSET InPhase("Running"), dead \in SUBSET InPhase("Deleted") :
         CollectAndPrune(aged, dead)
  BY DEF GCAndPrune
<1>2. NoInstance.Phase = "Untracked" /\ NoInstance.ID = None
  BY DEF NoInstance, NewInstance
<1>3. \A i \in IDs : i \in dead => instances[i].Phase = "Deleted"
  BY <1>1 DEF InPhase
<1>4. \A i \in IDs : i \in aged => instances[i].Phase = "Running"
  BY <1>1 DEF InPhase
<1>5. ASSUME NEW i \in IDs, i \in aged, i \notin dead
      PROVE  /\ instances'[i].Phase = "PendingDelete" /\ instances'[i].ID = instances[i].ID
             /\ instances'[i].MissedPolls = instances[i].MissedPolls
  BY <1>1, <1>5 DEF CollectAndPrune, IInv, Types, StoreTypeOK, Instance
<1>6. ASSUME NEW i \in IDs, i \in dead
      PROVE  instances'[i] = NoInstance
  BY <1>1, <1>6 DEF CollectAndPrune
<1>7. ASSUME NEW i \in IDs, i \notin dead, i \notin aged
      PROVE  instances'[i] = instances[i]
  BY <1>1, <1>7 DEF CollectAndPrune
<1>8. ASSUME NEW v \in VApps, byVAppHREF'[v] # byVAppHREF[v]
      PROVE  byVAppHREF'[v] = None /\ \E i \in dead : instances[i].ID = v
  BY <1>1, <1>8 DEF CollectAndPrune
<1>9. dead \subseteq IDs
  BY <1>1 DEF InPhase
<1>. QED  BY <1>2, <1>3, <1>4, <1>5, <1>6, <1>7, <1>8, <1>9

\* Decrease condemns a running entry or does nothing.
LEMMA DecreaseEffect ==
    ASSUME IInv, NEW id \in IDs, Decrease(id)
    PROVE  /\ \A i \in IDs :
                 /\ instances'[i].ID = instances[i].ID
                 /\ instances'[i].MissedPolls = instances[i].MissedPolls
                 /\ \/ instances'[i].Phase = instances[i].Phase
                    \/ instances[i].Phase = "Running" /\ instances'[i].Phase = "PendingDelete"
           /\ byVAppHREF' = byVAppHREF
  BY DEF Decrease, MarkForDeletion, IInv, Types, StoreTypeOK, Instance

\* Increase makes an entry without an HREF.
LEMMA IncreaseEffect ==
    ASSUME IInv, NEW i \in Intents, Increase(i)
    PROVE  /\ i \in IDs /\ instances[i].Phase = "Untracked" /\ instances[i].ID = None
           /\ \A j \in IDs : j # i => instances'[j] = instances[j]
           /\ instances'[i].Phase = "PendingCreate" /\ instances'[i].ID = None
           /\ instances'[i].MissedPolls = 0
           /\ byVAppHREF' = byVAppHREF
<1>1. i \in IDs
  BY DEF IDs
<1>. QED  BY <1>1 DEF Increase, AddCreateIntent, NewInstance, Tracked, IInv, Types, StoreTypeOK,
                      EntryShape

-----------------------------------------------------------------------------
(* The life of an entry.                                                   *)

\* What InstanceLifecycle says of one entry, while the process lives.
Proceeds(i) ==
    /\ instances[i].Phase \in DyingPhases =>
          instances'[i].Phase \notin {"PendingCreate", "Creating", "Running"}
    /\ instances[i].ID # None => instances'[i].ID \in {instances[i].ID, None}
    /\ instances[i].Phase \in {"Running", "PendingDelete", "Deleting"} =>
          instances'[i].Phase # "Untracked"

\* Only a restart counts as one.
LEMMA OnlyRestartsCount ==
    ASSUME Next, restarts' # restarts
    PROVE  \E sent \in SUBSET VApps : Restart(sent)
<1>. USE DEF ghostVars
<1>1. CASE reconcileOnce
  BY <1>1 DEF reconcileOnce, PollFails, SearchByFilter, readListedVApps, PollTracked,
              PollUntracked, ownsVApp, PollAdopts, PollEnds, updateStartupHold,
              dispatchCreates, DispatchCreate, dispatchDeletes, DispatchDelete,
              dispatchCreateCleanups, DispatchCleanup, GCAndPrune
<1>2. ASSUME NEW s \in Slots, doCreate(s)
      PROVE  FALSE
  BY <1>2 DEF doCreate, CreatePreludeFails, ChooseName, createRawVApp, AddMetadata, BuildVM,
              Abort, Disown, CreateReturnsError, CreateReturnsOK, createRecorded
<1>3. ASSUME NEW s \in Slots, doDelete(s) \/ doCleanup(s)
      PROVE  FALSE
  BY <1>3 DEF doDelete, deleteInstance, DeleteReturnsError, DeleteReturnsOK, doCleanup,
              cleanUpInstanceByName, CleanupReturns
<1>4. CASE Environment
  BY <1>4 DEF Environment, Increase, Decrease, LateCommit, VAppVanishes, CooldownEnds
<1>. QED  BY <1>1, <1>2, <1>3, <1>4 DEF Next

\* Every step of a running process moves entries that way only.
LEMMA EntriesProceed ==
    ASSUME IInv, Next, restarts' = restarts
    PROVE  \A i \in IDs : Proceeds(i)
<1>. USE DEF Proceeds, DyingPhases
<1>1. ASSUME UNCHANGED storeVars
      PROVE  \A i \in IDs : Proceeds(i)
  BY <1>1 DEF storeVars
<1>2. CASE reconcileOnce
  <2>1. CASE \/ PollFails \/ SearchByFilter \/ (\E unread \in SUBSET work : readListedVApps(unread))
             \/ (\E v \in VApps : PollUntracked(v)) \/ ownsVApp
             \/ (\E timeout \in BOOLEAN : updateStartupHold(timeout))
             \/ dispatchCreates \/ dispatchDeletes \/ dispatchCreateCleanups
             \/ (\E v \in VApps, s \in Slots : DispatchCleanup(v, s))
    BY <1>1, <2>1 DEF PollFails, SearchByFilter, readListedVApps, PollUntracked, ownsVApp,
                      updateStartupHold, dispatchCreates, dispatchDeletes,
                      dispatchCreateCleanups, DispatchCleanup
  <2>2. CASE \E v \in VApps, vmRead \in BOOLEAN : PollTracked(v, vmRead)
    BY <2>2, PollTrackedEffect
  <2>3. CASE PollAdopts
    BY <2>3, PollAdoptsEffect DEF IInv, EntryShape
  <2>4. CASE PollEnds
    BY <2>4, PollEndsEffect DEF Misses
  <2>5. ASSUME NEW i \in Intents, NEW s \in Slots, DispatchCreate(i, s)
        PROVE  \A j \in IDs : Proceeds(j)
    BY <2>5, DispatchCreateEffect DEF Sets
  <2>6. ASSUME NEW i \in IDs, NEW s \in Slots, DispatchDelete(i, s)
        PROVE  \A j \in IDs : Proceeds(j)
    BY <2>6, DispatchDeleteEffect DEF Sets
  <2>7. CASE GCAndPrune
    BY <2>7, GCAndPruneEffect
  <2>. QED  BY <1>2, <2>1, <2>2, <2>3, <2>4, <2>5, <2>6, <2>7 DEF reconcileOnce
<1>3. ASSUME NEW s \in Slots, doCreate(s)
      PROVE  \A i \in IDs : Proceeds(i)
  <2>1. CASE CreateReturnsError(s)
    BY <2>1, CreateReturnsErrorEffect DEF Sets
  <2>2. CASE CreateReturnsOK(s)
    BY <2>2, CreateReturnsOKEffect DEF Sets
  <2>3. CASE ~ CreateReturnsError(s) /\ ~ CreateReturnsOK(s)
    BY <1>1, <1>3, <2>3 DEF doCreate, CreatePreludeFails, ChooseName, createRawVApp,
                            AddMetadata, BuildVM, Abort, Disown, createRecorded
  <2>. QED  BY <2>1, <2>2, <2>3
<1>4. ASSUME NEW s \in Slots, doDelete(s) \/ doCleanup(s)
      PROVE  \A i \in IDs : Proceeds(i)
  <2>1. CASE DeleteReturnsError(s) \/ DeleteReturnsOK(s)
    BY <2>1, DeleteReturnsEffect DEF DeleteRecords, Sets
  <2>2. CASE ~ DeleteReturnsError(s) /\ ~ DeleteReturnsOK(s)
    BY <1>1, <1>4, <2>2 DEF doDelete, doCleanup, deleteInstance, cleanUpInstanceByName,
                            CleanupReturns
  <2>. QED  BY <2>1, <2>2
<1>5. CASE Environment
  <2>1. CASE \E i \in Intents : Increase(i)
    BY <2>1, IncreaseEffect
  <2>2. CASE \E id \in IDs : Decrease(id)
    BY <2>2, DecreaseEffect
  <2>3. CASE (\E v \in VApps : LateCommit(v) \/ VAppVanishes(v)) \/ CooldownEnds
    BY <1>1, <2>3 DEF LateCommit, VAppVanishes, CooldownEnds
  <2>4. ASSUME NEW sent \in SUBSET VApps, Restart(sent)
        PROVE  FALSE
    BY <2>4 DEF Restart, IInv, Types
  <2>. QED  BY <1>5, <2>1, <2>2, <2>3, <2>4 DEF Environment
<1>. QED  BY <1>2, <1>3, <1>4, <1>5 DEF Next

\* An instance on its way out never comes back, keeps its vApp, and is forgotten
\* only once it counts as deleted, whichever of a poll, GC, Decrease and the late
\* result of a create or a delete comes last.
THEOREM EntriesNeverComeBack == Spec => InstanceLifecycle
<1>. DEFINE Body == \A i \in IDs :
               LET was == instances[i]
                   is == instances'[i]
               IN  /\ was.Phase \in {"PendingDelete", "Deleting", "Deleted"} =>
                          is.Phase \notin {"PendingCreate", "Creating", "Running"}
                   /\ was.ID # None => is.ID \in {was.ID, None}
                   /\ was.Phase \in {"Running", "PendingDelete", "Deleting"} =>
                          is.Phase # "Untracked" \/ restarts' # restarts
<1>1. ASSUME IInv, Next
      PROVE  Body
  <2>1. CASE restarts' = restarts
    BY <1>1, <2>1, EntriesProceed DEF Proceeds, DyingPhases
  <2>2. CASE restarts' # restarts
    <3>1. PICK sent \in SUBSET VApps : Restart(sent)
      BY <1>1, <2>2, OnlyRestartsCount
    <3>2. \A i \in IDs : instances'[i].Phase = "Untracked" /\ instances'[i].ID = None
      BY <3>1 DEF Restart, NoInstance, NewInstance
    <3>. QED  BY <2>2, <3>2
  <2>. QED  BY <2>1, <2>2
<1>2. IInv /\ [Next]_vars => [Body]_vars
  BY <1>1
<1>. QED  BY <1>2, InvariantHolds, PTL DEF Spec, InstanceLifecycle

=============================================================================

---------------------------- MODULE OrphanProofs ----------------------------
(***************************************************************************)
(* Who knows of a vApp, and who works on it, for every instance of         *)
(* Reconciler: a vApp that the group search cannot return is known by name *)
(* unless its cleanup was given up with the vApp in place                  *)
(* (NoInvisibleOrphan); where searches are complete no two operations are  *)
(* on one intent or, with that exception, one vApp (OneOperationEach), the *)
(* startup hold outlasts the leftovers (HoldEndsClean), and no labelled    *)
(* vApp is lost sight of.                                                  *)
(***************************************************************************)
EXTENDS ReconcilerProofs, FiniteSetTheorems

\* A vApp, or one to come, that no search returns.
Invisible(v) == vcd[v] \in {"late", "bare"}

\* Where a goroutine is about to drop a name from one of the ownership maps,
\* or will do so without looking at vCD again.
ReleasingPcs == {"build", "created", "record", "cleanupOK", "disown"}

\* NoInvisibleOrphan, and why it is safe for each goroutine to drop its name: a
\* cleanup that ends may leave a vApp behind, but not one that is still to come.
OrphansKnown ==
    /\ NoInvisibleOrphan
    /\ \A s \in Slots :
          /\ ops[s].pc \in {"build", "created", "record"} => ~ Invisible(ops[s].vapp)
          /\ ops[s].pc = "cleanupOK" => vcd[ops[s].vapp] # "late"
          /\ ops[s].pc = "disown" /\ Invisible(ops[s].vapp) =>
                ops[s].vapp \in failedCreateCleanups \cup forgotten

\* A step that leaves vCD and the ownership maps alone, and that brings no
\* goroutine close to dropping a name, keeps the invariant: every step of the
\* reconcile loop, and most of the others.
LEMMA QuietStep ==
    ASSUME OrphansKnown,
           UNCHANGED <<vcd, inflightCreates, failedCreateCleanups, old, forgotten>>,
           \A s \in Slots : ops'[s] = ops[s] \/ ops'[s].pc \notin ReleasingPcs
    PROVE  OrphansKnown'
  BY DEF OrphansKnown, NoInvisibleOrphan, Invisible, ReleasingPcs

\* reconcileOnce is quiet: it starts operations but never touches vCD or the
\* ownership maps itself.
LEMMA LoopKeepsOrphans ==
    ASSUME IInv, OrphansKnown, reconcileOnce
    PROVE  OrphansKnown'
<1>1. CASE UNCHANGED <<vcd, ownerVars, ops, ghostVars>>
  BY <1>1, QuietStep DEF ownerVars, ghostVars
<1>2. ASSUME NEW i \in Intents, NEW s \in Slots, DispatchCreate(i, s)
      PROVE  OrphansKnown'
  BY <1>2, QuietStep
     DEF DispatchCreate, NewOp, ownerVars, ghostVars, IInv, Types, ReleasingPcs
<1>3. ASSUME NEW i \in IDs, NEW s \in Slots, DispatchDelete(i, s)
      PROVE  OrphansKnown'
  BY <1>3, QuietStep
     DEF DispatchDelete, NewOp, ownerVars, ghostVars, IInv, Types, ReleasingPcs
<1>4. ASSUME NEW v \in VApps, NEW s \in Slots, DispatchCleanup(v, s)
      PROVE  OrphansKnown'
  BY <1>4, QuietStep
     DEF DispatchCleanup, NewOp, ownerVars, ghostVars, IInv, Types, ReleasingPcs
<1>5. CASE PollFails \/ SearchByFilter \/ (\E unread \in SUBSET work : readListedVApps(unread))
  BY <1>1, <1>5 DEF PollFails, SearchByFilter, readListedVApps
<1>6. CASE \/ \E v \in VApps, vmRead \in BOOLEAN : PollTracked(v, vmRead)
           \/ \E v \in VApps : PollUntracked(v)
           \/ ownsVApp \/ PollAdopts \/ PollEnds
  BY <1>1, <1>6 DEF PollTracked, PollUntracked, ownsVApp, PollAdopts, PollEnds
<1>7. CASE \/ \E timeout \in BOOLEAN : updateStartupHold(timeout)
           \/ dispatchCreates \/ dispatchDeletes \/ dispatchCreateCleanups \/ GCAndPrune
  BY <1>1, <1>7 DEF updateStartupHold, dispatchCreates, dispatchDeletes,
                    dispatchCreateCleanups, GCAndPrune
<1>. QED  BY <1>2, <1>3, <1>4, <1>5, <1>6, <1>7 DEF reconcileOnce

\* A create: until it has succeeded or handed its name to the cleanup, the name
\* is in inflightCreates; when it drops the name, the vApp is labelled or gone,
\* or the cleanup has it.
LEMMA CreateKeepsOrphans ==
    ASSUME IInv, OrphansKnown, NEW s \in Slots, doCreate(s)
    PROVE  OrphansKnown'
<1>. DEFINE v == ops[s].vapp
<1>1. ops \in [Slots -> Op] /\ vcd \in [VApps -> VAppStates]
  BY DEF IInv, Types
<1>2. ops[s].pc \in OwningPcs =>
         /\ v \in VApps /\ v \in inflightCreates
         /\ \A t \in Slots : t # s => ops[t].vapp # v
  BY DEF IInv, OpShape, VAppOwned
<1>3. CASE CreatePreludeFails(s)
  BY <1>1, <1>3, QuietStep
     DEF CreatePreludeFails, Goto, Op, ownerVars, ghostVars, ReleasingPcs
<1>4. ASSUME NEW w \in VApps, ChooseName(s, w)
      PROVE  OrphansKnown'
  <2>1. /\ ops' = [ops EXCEPT ![s].pc = "post", ![s].vapp = w]
        /\ inflightCreates' = inflightCreates \cup {w} /\ old' = old \ {w}
        /\ forgotten' = forgotten \ {w}
        /\ vcd[w] = "absent" /\ vcd' = vcd
        /\ failedCreateCleanups' = failedCreateCleanups
        /\ \A t \in Slots : ops[t].vapp # w
    BY <1>4 DEF ChooseName, Fresh
  <2>. QED  BY <1>1, <2>1 DEF OrphansKnown, NoInvisibleOrphan, Invisible,
                              ReleasingPcs, Op
<1>5. ASSUME NEW ok \in BOOLEAN, NEW state \in VAppStates, createRawVApp(s, ok, state)
      PROVE  OrphansKnown'
  <2>1. /\ ops[s].pc = "post" /\ ops[s].pc \in OwningPcs
        /\ ops' = [ops EXCEPT ![s].pc = IF ok THEN "meta" ELSE "abort"]
        /\ vcd' = [vcd EXCEPT ![v] = state]
        /\ UNCHANGED <<inflightCreates, failedCreateCleanups, old, forgotten>>
    BY <1>5 DEF createRawVApp, Goto, ownerVars, ghostVars, OwningPcs
  <2>. HIDE DEF v
  <2>2. NoInvisibleOrphan'
    BY <1>1, <1>2, <2>1 DEF OrphansKnown, NoInvisibleOrphan
  <2>3. \A t \in Slots : t # s => ops'[t] = ops[t] /\ vcd'[ops[t].vapp] = vcd[ops[t].vapp]
    BY <1>1, <1>2, <2>1
  <2>4. ops'[s].pc \notin ReleasingPcs
    BY <1>1, <2>1 DEF ReleasingPcs, Op
  <2>. QED  BY <2>1, <2>2, <2>3, <2>4 DEF OrphansKnown, Invisible, ReleasingPcs
<1>6. ASSUME NEW ok \in BOOLEAN, NEW state \in VAppStates, AddMetadata(s, ok, state)
      PROVE  OrphansKnown'
  <2>1. /\ ops[s].pc = "meta" /\ ops[s].pc \in OwningPcs
        /\ ops' = [ops EXCEPT ![s].pc = IF ok THEN "build" ELSE "abort"]
        /\ vcd' = [vcd EXCEPT ![v] = state] /\ (ok => state = "tagged")
        /\ UNCHANGED <<inflightCreates, failedCreateCleanups, old, forgotten>>
    BY <1>6 DEF AddMetadata, Goto, ownerVars, ghostVars, OwningPcs
  <2>2. ops'[s].vapp = v
    BY <1>1, <2>1 DEF Op
  <2>. HIDE DEF v
  <2>3. NoInvisibleOrphan'
    BY <1>1, <1>2, <2>1 DEF OrphansKnown, NoInvisibleOrphan
  <2>4. \A t \in Slots : t # s => ops'[t] = ops[t] /\ vcd'[ops[t].vapp] = vcd[ops[t].vapp]
    BY <1>1, <1>2, <2>1
  <2>5. ops'[s].pc \in ReleasingPcs => ops'[s].pc # "disown" /\ vcd'[ops'[s].vapp] = "tagged"
    BY <1>1, <1>2, <2>1, <2>2 DEF ReleasingPcs, Op
  <2>. QED  BY <2>1, <2>3, <2>4, <2>5 DEF OrphansKnown, Invisible, ReleasingPcs
<1>7. ASSUME NEW ok \in BOOLEAN, BuildVM(s, ok)
      PROVE  OrphansKnown'
  BY <1>1, <1>7 DEF BuildVM, Goto, Op, ownerVars, ghostVars, OrphansKnown,
                    NoInvisibleOrphan, Invisible, ReleasingPcs
<1>8. CASE Abort(s)
  BY <1>1, <1>8 DEF Abort, Goto, Op, ghostVars, OrphansKnown,
                    NoInvisibleOrphan, Invisible, ReleasingPcs
<1>9. CASE Disown(s)
  BY <1>1, <1>9 DEF Disown, Goto, Op, ghostVars, OrphansKnown,
                    NoInvisibleOrphan, Invisible, ReleasingPcs
<1>10. CASE CreateReturnsError(s)
  BY <1>1, <1>10, QuietStep
     DEF CreateReturnsError, release, Free, ownerVars, ghostVars, ReleasingPcs
<1>11. CASE CreateReturnsOK(s)
  BY <1>1, <1>11 DEF CreateReturnsOK, Goto, Op, ownerVars, ghostVars,
                     OrphansKnown, NoInvisibleOrphan, Invisible, ReleasingPcs
<1>12. CASE createRecorded(s)
  BY <1>1, <1>12 DEF createRecorded, release, Free, ghostVars, OrphansKnown,
                     NoInvisibleOrphan, Invisible, ReleasingPcs
<1>. QED  BY <1>3, <1>4, <1>5, <1>6, <1>7, <1>8, <1>9, <1>10, <1>11, <1>12 DEF doCreate

\* Deletes and cleanups: vCD only loses vApps, and a cleanup drops a name when
\* nothing is, or will be, left under it, or else the vApp counts as forgotten.
LEMMA DeleteKeepsOrphans ==
    ASSUME IInv, OrphansKnown, NEW s \in Slots, doDelete(s) \/ doCleanup(s)
    PROVE  OrphansKnown'
<1>1. ops \in [Slots -> Op] /\ vcd \in [VApps -> VAppStates]
  BY DEF IInv, Types
<1>2. ASSUME NEW ok \in BOOLEAN, NEW gone \in BOOLEAN, deleteInstance(s, ok, gone)
      PROVE  OrphansKnown'
  BY <1>1, <1>2 DEF deleteInstance, Goto, Exists, Op, ownerVars, ghostVars,
                    OrphansKnown, NoInvisibleOrphan, Invisible, ReleasingPcs
<1>3. CASE DeleteReturnsError(s) \/ DeleteReturnsOK(s)
  BY <1>1, <1>3, QuietStep
     DEF DeleteReturnsError, DeleteReturnsOK, release, Free, ownerVars, ghostVars,
         ReleasingPcs
<1>4. ASSUME NEW ok \in BOOLEAN, NEW gone \in BOOLEAN, cleanUpInstanceByName(s, ok, gone)
      PROVE  OrphansKnown'
  <2>1. ops[s].vapp \in VApps
    BY <1>4 DEF cleanUpInstanceByName, IInv, OpShape, CleanupPcs
  <2>. QED  BY <1>1, <1>4, <2>1
            DEF cleanUpInstanceByName, Goto, Exists, Op, ownerVars, ghostVars,
                OrphansKnown, NoInvisibleOrphan, Invisible, ReleasingPcs
<1>5. CASE CleanupReturns(s)
  <2>. DEFINE v == ops[s].vapp
  <2>1. /\ v \in VApps
        /\ ops' = [ops EXCEPT ![s] = Free]
        /\ UNCHANGED <<vcd, inflightCreates, old>>
        /\ \/ UNCHANGED <<failedCreateCleanups, forgotten>>
           \/ /\ ops[s].pc = "cleanupOK"
              /\ failedCreateCleanups' = failedCreateCleanups \ {v}
              /\ forgotten' = IF Exists(v) THEN forgotten \cup {v} ELSE forgotten
    BY <1>5 DEF CleanupReturns, release, IInv, OpShape, CleanupPcs
  <2>2. CASE UNCHANGED <<failedCreateCleanups, forgotten>>
    BY <1>1, <2>1, <2>2, QuietStep DEF Free, ReleasingPcs
  <2>3. CASE UNCHANGED forgotten /\ vcd[v] = "absent" /\ failedCreateCleanups' = failedCreateCleanups \ {v}
    BY <1>1, <2>1, <2>3 DEF OrphansKnown, NoInvisibleOrphan, Invisible, Free
  <2>4. CASE forgotten' = forgotten \cup {v} /\ failedCreateCleanups' = failedCreateCleanups \ {v}
    BY <1>1, <2>1, <2>4 DEF OrphansKnown, NoInvisibleOrphan, Invisible, Free
  <2>5. ops[s].pc = "cleanupOK" => vcd[v] \in {"absent", "bare", "tagged"}
    BY <1>1, <2>1 DEF OrphansKnown, VAppStates
  <2>. QED  BY <2>1, <2>2, <2>3, <2>4, <2>5 DEF Exists
<1>. QED  BY <1>2, <1>3, <1>4, <1>5 DEF doDelete, doCleanup

\* The rest of the world: a late commit was already invisible, someone else only
\* deletes, and after a restart whatever vCD holds is old.
LEMMA EnvironmentKeepsOrphans ==
    ASSUME IInv, OrphansKnown, Environment
    PROVE  OrphansKnown'
<1>1. ops \in [Slots -> Op] /\ vcd \in [VApps -> VAppStates]
  BY DEF IInv, Types
<1>2. ASSUME NEW i \in IDs, (i \in Intents /\ Increase(i)) \/ Decrease(i)
      PROVE  OrphansKnown'
  BY <1>2, QuietStep DEF Increase, Decrease, ownerVars, ghostVars
<1>3. ASSUME NEW v \in VApps, LateCommit(v) \/ VAppVanishes(v)
      PROVE  OrphansKnown'
  <2>1. \A w \in VApps : Invisible(w)' => Invisible(w)
    BY <1>1, <1>3 DEF LateCommit, VAppVanishes, Invisible
  <2>2. \A s \in Slots : ops[s].pc \in ReleasingPcs => ops[s].vapp \in VApps
    BY DEF IInv, OpShape, ReleasingPcs, OwningPcs, CleanupPcs
  <2>3. UNCHANGED <<ops, inflightCreates, failedCreateCleanups, old, forgotten>>
    BY <1>3 DEF LateCommit, VAppVanishes, ownerVars, ghostVars
  <2>4. NoInvisibleOrphan'
    BY <2>1, <2>3 DEF OrphansKnown, NoInvisibleOrphan, Invisible
  <2>5. \A w \in VApps : vcd'[w] = "late" => vcd[w] = "late"
    BY <1>1, <1>3 DEF LateCommit, VAppVanishes
  <2>. QED  BY <2>1, <2>2, <2>3, <2>4, <2>5 DEF OrphansKnown, Invisible, ReleasingPcs
<1>4. CASE CooldownEnds
  BY <1>4, QuietStep DEF CooldownEnds, ownerVars, ghostVars
<1>5. ASSUME NEW sent \in SUBSET VApps, Restart(sent)
      PROVE  OrphansKnown'
  <2>1. ops' = [t \in Slots |-> Free] /\ old' = {v \in VApps : vcd'[v] # "absent"}
    BY <1>5 DEF Restart
  <2>. QED  BY <2>1 DEF Free, OrphansKnown, NoInvisibleOrphan, ReleasingPcs
<1>. QED  BY <1>2, <1>3, <1>4, <1>5 DEF Environment, IDs

\* A vApp of this run that the group search cannot return stays known by name,
\* whatever fails in whatever order: the only way to lose it is a cleanup that
\* takes a "not found" of the org or the VDC for one of the vApp (createInstance's
\* deferred function, dispatchCreateCleanups and its wait for late POSTs).
THEOREM NothingForgotten == Spec => []NoInvisibleOrphan
<1>1. Init => OrphansKnown
  BY DEF Init, Free, OrphansKnown, NoInvisibleOrphan, ReleasingPcs
<1>2. IInv /\ OrphansKnown /\ [Next]_vars => OrphansKnown'
  <2>1. ASSUME IInv, OrphansKnown, UNCHANGED vars
        PROVE  OrphansKnown'
    BY <2>1, QuietStep DEF vars, ownerVars, ghostVars
  <2>. QED  BY <2>1, LoopKeepsOrphans, CreateKeepsOrphans, DeleteKeepsOrphans,
               EnvironmentKeepsOrphans
            DEF Next
<1>3. OrphansKnown => NoInvisibleOrphan
  BY DEF OrphansKnown
<1>. QED  BY <1>1, <1>2, <1>3, InvariantHolds, PTL DEF Spec

-----------------------------------------------------------------------------
(* What vCD holds under the names the program knows.                       *)

PollPcs == {"poll", "inflight", "owned", "adopt"}

\* The poll in progress has v on its list, or is deciding about it.
Listed(v) ==
    \/ pc \in {"read"} \cup PollPcs /\ v \in work
    \/ pc \in PollPcs \ {"poll"} /\ cur = v

LabelledOrGone(v) == vcd[v] \in {"tagged", "absent"}

\* What a goroutine knows of its vApp.
OpState(s) ==
    LET v == ops[s].vapp IN
    /\ ops[s].pc = "post" => vcd[v] = "absent" /\ ~ Listed(v)
    /\ ops[s].pc = "meta" => vcd[v] \in {"bare", "absent"}
    /\ ops[s].pc \in {"build", "created", "record"} \cup DeletePcs => LabelledOrGone(v)
    /\ ops[s].pc = "deleteOK" => vcd[v] = "absent"
    /\ ops[s].pc = "cleanupOK" => vcd[v] # "late"

\* What has an entry, or is on its way to one, was labelled.
StatesKnown ==
    /\ \A s \in Slots : OpState(s)
    /\ \A v \in VApps : byVAppHREF[v] # None \/ Listed(v) => LabelledOrGone(v)

\* The program counters that OpState says something about.
StatePcs == {"post", "meta", "build", "created", "record", "cleanupOK"} \cup DeletePcs

\* Those operations have a vApp.
LEMMA StatePcsHaveVApps ==
    ASSUME IInv, NEW s \in Slots, ops[s].pc \in StatePcs
    PROVE  ops[s].vapp \in VApps
  BY DEF IInv, OpShape, StatePcs, OwningPcs, DeletePcs, CleanupPcs

\* A step that leaves vCD alone: it lists only what is labelled, and gives an
\* entry or a delete only to what is labelled or gone.
LEMMA QuietStates ==
    ASSUME IInv, StatesKnown, vcd' = vcd,
           \A v \in VApps : Listed(v)' => Listed(v) \/ vcd[v] = "tagged",
           \A v \in VApps : byVAppHREF'[v] # None => byVAppHREF[v] # None \/ LabelledOrGone(v),
           \A s \in Slots :
              \/ ops'[s] = ops[s]
              \/ ops'[s].pc \notin StatePcs
              \/ ops'[s].pc \in {"created", "record", "delete"} /\ LabelledOrGone(ops'[s].vapp)
    PROVE  StatesKnown'
<1>1. ASSUME NEW s \in Slots
      PROVE  OpState(s)'
  <2>1. CASE ops'[s] = ops[s]
    <3>1. CASE ops[s].pc \in StatePcs
      <4>1. ops[s].vapp \in VApps
        BY <3>1, StatePcsHaveVApps
      <4>2. OpState(s)
        BY DEF StatesKnown
      <4>. QED  BY <2>1, <4>1, <4>2 DEF OpState, LabelledOrGone
    <3>2. CASE ops[s].pc \notin StatePcs
      BY <2>1, <3>2 DEF OpState, StatePcs, DeletePcs
    <3>. QED  BY <3>1, <3>2
  <2>2. CASE ops'[s].pc \notin StatePcs
    BY <2>2 DEF OpState, StatePcs, DeletePcs
  <2>3. CASE ops'[s].pc \in {"created", "record", "delete"} /\ LabelledOrGone(ops'[s].vapp)
    BY <2>3 DEF OpState, LabelledOrGone
  <2>. QED  BY <2>1, <2>2, <2>3
<1>2. ASSUME NEW v \in VApps, byVAppHREF'[v] # None \/ Listed(v)'
      PROVE  LabelledOrGone(v)'
  BY <1>2 DEF StatesKnown, LabelledOrGone
<1>. QED  BY <1>1, <1>2 DEF StatesKnown

\* A step in which vCD at most loses vApps: a delete, by this program or not.
LEMMA FadingStates ==
    ASSUME IInv, StatesKnown,
           \A v \in VApps : vcd'[v] \in {vcd[v], "absent"},
           UNCHANGED <<pc, work, cur, byVAppHREF>>,
           \A s \in Slots :
              \/ ops'[s] = ops[s]
              \/ /\ ops'[s].vapp = ops[s].vapp /\ ops[s].pc \in {"delete", "cleanup"}
                 /\ \/ ops'[s].pc = "deleteErr" /\ ops[s].pc = "delete"
                    \/ ops'[s].pc = "cleanupErr"
                    \/ ops'[s].pc = "deleteOK" /\ vcd'[ops[s].vapp] = "absent"
                    \/ ops'[s].pc = "cleanupOK" /\ vcd'[ops[s].vapp] # "late"
    PROVE  StatesKnown'
<1>1. ASSUME NEW v \in VApps
      PROVE  /\ Listed(v)' <=> Listed(v)
             /\ LabelledOrGone(v) => LabelledOrGone(v)'
  BY DEF Listed, LabelledOrGone
<1>2. ASSUME NEW s \in Slots
      PROVE  OpState(s)'
  <2>1. OpState(s)
    BY DEF StatesKnown
  <2>2. CASE ops'[s] = ops[s]
    <3>1. CASE ops[s].pc \in StatePcs
      <4>1. ops[s].vapp \in VApps
        BY <3>1, StatePcsHaveVApps
      <4>. QED  BY <1>1, <2>1, <2>2, <4>1 DEF OpState, LabelledOrGone
    <3>2. CASE ops[s].pc \notin StatePcs
      BY <2>2, <3>2 DEF OpState, StatePcs, DeletePcs
    <3>. QED  BY <3>1, <3>2
  <2>3. CASE ops'[s] # ops[s]
    <3>1. ops[s].vapp \in VApps
      BY <2>3 DEF IInv, OpShape, DeletePcs, CleanupPcs
    <3>2. ops[s].pc = "delete" => LabelledOrGone(ops[s].vapp)
      BY <2>1 DEF OpState, DeletePcs
    <3>. QED  BY <1>1, <2>3, <3>1, <3>2 DEF OpState, LabelledOrGone, DeletePcs
  <2>. QED  BY <2>2, <2>3
<1>. QED  BY <1>1, <1>2 DEF StatesKnown

\* A poll lists only what is labelled, and dispatch takes vApps from entries.
LEMMA LoopKeepsStates ==
    ASSUME IInv, StatesKnown, reconcileOnce
    PROVE  StatesKnown'
<1>. USE DEF Listed, PollPcs
<1>1. vcd' = vcd
  BY DEF reconcileOnce, PollFails, SearchByFilter, readListedVApps, PollTracked,
         PollUntracked, ownsVApp, PollAdopts, PollEnds, updateStartupHold,
         dispatchCreates, DispatchCreate, dispatchDeletes, DispatchDelete,
         dispatchCreateCleanups, DispatchCleanup, GCAndPrune
<1>2. CASE PollFails \/ SearchByFilter \/ (\E unread \in SUBSET work : readListedVApps(unread))
  BY <1>1, <1>2, QuietStates DEF PollFails, SearchByFilter, readListedVApps, storeVars
<1>3. CASE \E v \in VApps, vmRead \in BOOLEAN : PollTracked(v, vmRead)
  BY <1>1, <1>3, QuietStates, PollTrackedEffect DEF PollTracked
<1>4. CASE (\E v \in VApps : PollUntracked(v)) \/ ownsVApp
  BY <1>1, <1>4, QuietStates DEF PollUntracked, ownsVApp, storeVars
<1>5. CASE PollAdopts
  <2>1. LabelledOrGone(cur) /\ cur \in VApps
    BY <1>5, PollAdoptsEffect DEF PollAdopts, StatesKnown
  <2>2. \A v \in VApps : byVAppHREF'[v] # None => byVAppHREF[v] # None \/ v = cur
    BY <1>5, PollAdoptsEffect DEF IInv, Types, StoreTypeOK
  <2>. QED  BY <1>1, <1>5, <2>1, <2>2, QuietStates DEF PollAdopts
<1>6. CASE PollEnds
  BY <1>1, <1>6, QuietStates, PollEndsEffect DEF PollEnds
<1>7. CASE \/ \E timeout \in BOOLEAN : updateStartupHold(timeout)
           \/ dispatchCreates \/ dispatchDeletes \/ dispatchCreateCleanups
  BY <1>1, <1>7, QuietStates DEF updateStartupHold, dispatchCreates, dispatchDeletes,
                                 dispatchCreateCleanups, storeVars
<1>8. ASSUME NEW i \in Intents, NEW s \in Slots, DispatchCreate(i, s)
      PROVE  StatesKnown'
  <2>1. byVAppHREF' = byVAppHREF
    BY <1>8, DispatchCreateEffect
  <2>2. \A t \in Slots : ops'[t] = ops[t] \/ ops'[t].pc = "init"
    BY <1>8 DEF DispatchCreate, NewOp, IInv, Types
  <2>. QED  BY <1>1, <1>8, <2>1, <2>2, QuietStates DEF DispatchCreate, StatePcs, DeletePcs
<1>9. ASSUME NEW i \in IDs, NEW s \in Slots, DispatchDelete(i, s)
      PROVE  StatesKnown'
  <2>1. byVAppHREF' = byVAppHREF /\ LabelledOrGone(instances[i].ID)
    BY <1>9, DispatchDeleteEffect, StoreAssumption DEF StatesKnown, IDs
  <2>2. \A t \in Slots : \/ ops'[t] = ops[t]
                         \/ ops'[t].pc = "delete" /\ ops'[t].vapp = instances[i].ID
    BY <1>9 DEF DispatchDelete, NewOp, IInv, Types
  <2>. QED  BY <1>1, <1>9, <2>1, <2>2, QuietStates DEF DispatchDelete
<1>10. ASSUME NEW v \in VApps, NEW s \in Slots, DispatchCleanup(v, s)
      PROVE  StatesKnown'
  <2>1. \A t \in Slots : ops'[t] = ops[t] \/ ops'[t].pc = "cleanup"
    BY <1>10 DEF DispatchCleanup, NewOp, IInv, Types
  <2>. QED  BY <1>1, <1>10, <2>1, QuietStates
            DEF DispatchCleanup, storeVars, StatePcs, DeletePcs
<1>11. CASE GCAndPrune
  BY <1>1, <1>11, QuietStates, GCAndPruneEffect DEF GCAndPrune
<1>. QED  BY <1>2, <1>3, <1>4, <1>5, <1>6, <1>7, <1>8, <1>9, <1>10, <1>11 DEF reconcileOnce

\* A create makes its vApp, labels it and only then reports it.
LEMMA CreateKeepsStates ==
    ASSUME IInv, StatesKnown, NEW s \in Slots, doCreate(s)
    PROVE  StatesKnown'
<1>. DEFINE v == ops[s].vapp
<1>1. ops \in [Slots -> Op] /\ vcd \in [VApps -> VAppStates] /\ OpState(s)
  BY DEF IInv, Types, StatesKnown
<1>2. ops[s].pc \in OwningPcs =>
         /\ v \in VApps /\ byVAppHREF[v] = None
         /\ \A t \in Slots : t # s => ops[t].vapp # v
  BY DEF IInv, OpShape, VAppOwned
<1>3. CASE CreatePreludeFails(s) \/ Abort(s) \/ Disown(s)
  <2>1. \A t \in Slots : ops'[t] = ops[t] \/ ops'[t].pc \in {"failed", "disown"}
    BY <1>1, <1>3 DEF CreatePreludeFails, Abort, Disown, Goto, Op
  <2>2. UNCHANGED <<vcd, byVAppHREF, pc, work, cur>>
    BY <1>3 DEF CreatePreludeFails, Abort, Disown, storeVars, loopVars
  <2>. QED  BY <2>1, <2>2, QuietStates DEF Listed, StatePcs, DeletePcs
<1>4. ASSUME NEW w \in VApps, ChooseName(s, w)
      PROVE  StatesKnown'
  <2>1. /\ ops' = [ops EXCEPT ![s].pc = "post", ![s].vapp = w]
        /\ vcd[w] = "absent" /\ ~ Listed(w)
        /\ UNCHANGED <<vcd, byVAppHREF, pc, work, cur>>
    BY <1>4 DEF ChooseName, Fresh, storeVars, loopVars, Listed
  <2>2. \A t \in Slots : t # s => ops'[t] = ops[t]
    BY <1>1, <2>1
  <2>3. ops'[s].pc = "post" /\ ops'[s].vapp = w
    BY <1>1, <2>1 DEF Op
  <2>4. \A x \in VApps : Listed(x)' <=> Listed(x)
    BY <2>1 DEF Listed
  <2>5. OpState(s)'
    BY <2>1, <2>3, <2>4 DEF OpState, DeletePcs
  <2>6. \A t \in Slots : t # s => OpState(t)'
    <3>1. SUFFICES ASSUME NEW t \in Slots, t # s PROVE OpState(t)'
      OBVIOUS
    <3>2. OpState(t) /\ ops'[t] = ops[t]
      BY <2>2, <3>1 DEF StatesKnown
    <3>3. CASE ops[t].pc \in StatePcs
      <4>1. ops[t].vapp \in VApps
        BY <3>3, StatePcsHaveVApps
      <4>. QED  BY <2>1, <2>4, <3>2, <4>1 DEF OpState, LabelledOrGone
    <3>4. CASE ops[t].pc \notin StatePcs
      BY <3>2, <3>4 DEF OpState, StatePcs, DeletePcs
    <3>. QED  BY <3>3, <3>4
  <2>. QED  BY <2>1, <2>4, <2>5, <2>6 DEF StatesKnown, LabelledOrGone
<1>5. ASSUME NEW ok \in BOOLEAN, NEW state \in VAppStates,
             createRawVApp(s, ok, state) \/ AddMetadata(s, ok, state)
      PROVE  StatesKnown'
  <2>1. /\ v \in VApps /\ byVAppHREF[v] = None /\ \A t \in Slots : t # s => ops[t].vapp # v
        /\ vcd' = [vcd EXCEPT ![v] = state]
        /\ UNCHANGED <<byVAppHREF, pc, work, cur>>
    BY <1>2, <1>5 DEF createRawVApp, AddMetadata, OwningPcs, storeVars, loopVars
  <2>2. \A x \in VApps : Listed(x)' <=> Listed(x)
    BY <2>1 DEF Listed
  <2>3. /\ \A t \in Slots : t # s => ops'[t] = ops[t]
        /\ ops'[s].vapp = v
        /\ \/ ops'[s].pc = "meta" /\ state = "bare"
           \/ ops'[s].pc = "build" /\ state = "tagged"
           \/ ops'[s].pc = "abort"
    <3>1. CASE createRawVApp(s, ok, state)
      <4>1. ops' = [ops EXCEPT ![s].pc = IF ok THEN "meta" ELSE "abort"] /\ (ok => state = "bare")
        BY <3>1 DEF createRawVApp, Goto
      <4>. QED  BY <1>1, <4>1 DEF Op
    <3>2. CASE AddMetadata(s, ok, state)
      BY <1>1, <3>2 DEF AddMetadata, Goto, Op
    <3>. QED  BY <1>5, <3>1, <3>2
  <2>4. Listed(v) => vcd'[v] \in {"tagged", "absent"}
    <3>1. CASE createRawVApp(s, ok, state)
      BY <1>1, <3>1 DEF createRawVApp, OpState
    <3>2. CASE AddMetadata(s, ok, state)
      <4>1. Listed(v) => vcd[v] = "absent"
        BY <1>1, <2>1, <3>2 DEF AddMetadata, OpState, StatesKnown, LabelledOrGone
      <4>2. vcd[v] = "absent" => state = "absent"
        BY <3>2 DEF AddMetadata, Exists
      <4>3. vcd'[v] = state
        BY <1>1, <2>1
      <4>. QED  BY <4>1, <4>2, <4>3
    <3>. QED  BY <1>5, <3>1, <3>2
  <2>. HIDE DEF v
  <2>5. vcd'[v] = state /\ \A x \in VApps : x # v => vcd'[x] = vcd[x]
    BY <1>1, <2>1
  <2>6. OpState(s)'
    BY <2>3, <2>5 DEF OpState, LabelledOrGone, DeletePcs
  <2>7. ASSUME NEW t \in Slots, t # s PROVE OpState(t)'
    <3>1. OpState(t) /\ ops[t].vapp # v
      BY <2>1, <2>7 DEF StatesKnown
    <3>2. CASE ops[t].pc \in StatePcs
      <4>1. ops[t].vapp \in VApps
        BY <3>2, StatePcsHaveVApps
      <4>. QED  BY <2>2, <2>3, <2>5, <2>7, <3>1, <4>1 DEF OpState, LabelledOrGone
    <3>3. CASE ops[t].pc \notin StatePcs
      BY <2>3, <2>7, <3>3 DEF OpState, StatePcs, DeletePcs
    <3>. QED  BY <3>2, <3>3
  <2>8. ASSUME NEW x \in VApps, byVAppHREF'[x] # None \/ Listed(x)'
        PROVE  LabelledOrGone(x)'
    <3>1. CASE x = v
      <4>1. Listed(x)
        BY <2>1, <2>2, <2>8, <3>1
      <4>. QED  BY <2>4, <3>1, <4>1 DEF LabelledOrGone
    <3>2. CASE x # v
      BY <2>1, <2>2, <2>5, <2>8, <3>2 DEF StatesKnown, LabelledOrGone
    <3>. QED  BY <3>1, <3>2
  <2>. QED  BY <2>6, <2>7, <2>8 DEF StatesKnown
<1>6. ASSUME NEW ok \in BOOLEAN, BuildVM(s, ok)
      PROVE  StatesKnown'
  <2>1. LabelledOrGone(v)
    BY <1>1, <1>6 DEF BuildVM, OpState
  <2>2. \A t \in Slots : \/ ops'[t] = ops[t] \/ ops'[t].pc = "abort"
                         \/ ops'[t].pc = "created" /\ ops'[t].vapp = v
    BY <1>1, <1>6 DEF BuildVM, Goto, Op
  <2>3. UNCHANGED <<vcd, byVAppHREF, pc, work, cur>>
    BY <1>6 DEF BuildVM, storeVars, loopVars
  <2>. QED  BY <2>1, <2>2, <2>3, QuietStates DEF Listed, StatePcs, DeletePcs
<1>7. CASE CreateReturnsError(s) \/ createRecorded(s)
  <2>1. \A t \in Slots : ops'[t] = ops[t] \/ ops'[t].pc = "free"
    BY <1>1, <1>7 DEF CreateReturnsError, createRecorded, release, Free
  <2>2. UNCHANGED <<vcd, byVAppHREF, pc, work, cur>>
    BY <1>7, CreateReturnsErrorEffect DEF CreateReturnsError, createRecorded, storeVars, loopVars
  <2>. QED  BY <2>1, <2>2, QuietStates DEF Listed, StatePcs, DeletePcs
<1>8. CASE CreateReturnsOK(s)
  <2>1. LabelledOrGone(v) /\ v \in VApps
    BY <1>1, <1>8, CreateReturnsOKEffect DEF CreateReturnsOK, OpState
  <2>2. \A t \in Slots : \/ ops'[t] = ops[t]
                         \/ ops'[t].pc = "record" /\ ops'[t].vapp = v
    BY <1>1, <1>8 DEF CreateReturnsOK, Goto, Op
  <2>3. \A x \in VApps : byVAppHREF'[x] # None => byVAppHREF[x] # None \/ x = v
    BY <1>8, CreateReturnsOKEffect DEF IInv, Types, StoreTypeOK
  <2>4. UNCHANGED <<vcd, pc, work, cur>>
    BY <1>8 DEF CreateReturnsOK, loopVars
  <2>. QED  BY <2>1, <2>2, <2>3, <2>4, QuietStates DEF Listed
<1>. QED  BY <1>3, <1>4, <1>5, <1>6, <1>7, <1>8 DEF doCreate

\* deleteInstance reports success only of a vApp that is gone, and the cleanup never
\* of one that is still to come.
LEMMA DeleteKeepsStates ==
    ASSUME IInv, StatesKnown, NEW s \in Slots, doDelete(s) \/ doCleanup(s)
    PROVE  StatesKnown'
<1>. DEFINE v == ops[s].vapp
<1>1. ops \in [Slots -> Op] /\ vcd \in [VApps -> VAppStates] /\ OpState(s)
  BY DEF IInv, Types, StatesKnown
<1>2. ASSUME NEW ok \in BOOLEAN, NEW gone \in BOOLEAN,
             deleteInstance(s, ok, gone) \/ cleanUpInstanceByName(s, ok, gone)
      PROVE  StatesKnown'
  <2>1. v \in VApps /\ (ops[s].pc = "delete" => LabelledOrGone(v))
    BY <1>1, <1>2 DEF deleteInstance, cleanUpInstanceByName, IInv, OpShape, DeletePcs,
                      CleanupPcs, OpState
  <2>2. /\ vcd' = IF gone /\ Exists(v) THEN [vcd EXCEPT ![v] = "absent"] ELSE vcd
        /\ UNCHANGED <<byVAppHREF, pc, work, cur>>
    BY <1>2 DEF deleteInstance, cleanUpInstanceByName, storeVars, loopVars
  <2>3. /\ ok /\ ops[s].pc = "delete" => vcd'[v] = "absent"
        /\ ok /\ ops[s].pc = "cleanup" => vcd'[v] # "late"
    BY <1>1, <1>2, <2>1, <2>2
       DEF deleteInstance, cleanUpInstanceByName, Exists, VAppStates, LabelledOrGone
  <2>4. \A t \in Slots :
           \/ ops'[t] = ops[t]
           \/ /\ ops'[t].vapp = ops[t].vapp /\ t = s
              /\ ops[t].pc \in {"delete", "cleanup"}
              /\ \/ ops'[t].pc = "deleteErr" /\ ops[t].pc = "delete"
                 \/ ops'[t].pc = "cleanupErr"
                 \/ ops'[t].pc = "deleteOK" /\ ops[t].pc = "delete" /\ ok
                 \/ ops'[t].pc = "cleanupOK" /\ ops[t].pc = "cleanup" /\ ok
    BY <1>1, <1>2 DEF deleteInstance, cleanUpInstanceByName, Goto, Op
  <2>5. \A x \in VApps : vcd'[x] \in {vcd[x], "absent"}
    BY <1>1, <2>1, <2>2
  <2>. QED  BY <2>2, <2>3, <2>4, <2>5, FadingStates
<1>3. CASE DeleteReturnsError(s) \/ DeleteReturnsOK(s) \/ CleanupReturns(s)
  <2>1. \A t \in Slots : ops'[t] = ops[t] \/ ops'[t].pc = "free"
    BY <1>1, <1>3 DEF DeleteReturnsError, DeleteReturnsOK, CleanupReturns, release, Free
  <2>2. UNCHANGED <<vcd, byVAppHREF, pc, work, cur>>
    BY <1>3, DeleteReturnsEffect DEF DeleteReturnsError, DeleteReturnsOK, CleanupReturns,
       DeleteRecords, storeVars, loopVars
  <2>. QED  BY <2>1, <2>2, QuietStates DEF Listed, StatePcs, DeletePcs
<1>. QED  BY <1>2, <1>3 DEF doDelete, doCleanup

\* A late POST is committed only under a name without an entry.
LEMMA EnvironmentKeepsStates ==
    ASSUME IInv, StatesKnown, Environment
    PROVE  StatesKnown'
<1>1. ops \in [Slots -> Op] /\ vcd \in [VApps -> VAppStates]
  BY DEF IInv, Types
<1>2. ASSUME NEW i \in IDs, (i \in Intents /\ Increase(i)) \/ Decrease(i)
      PROVE  StatesKnown'
  <2>1. byVAppHREF' = byVAppHREF
    BY <1>2, IncreaseEffect, DecreaseEffect
  <2>2. UNCHANGED <<vcd, ops, pc, work, cur>>
    BY <1>2 DEF Increase, Decrease, loopVars
  <2>. QED  BY <2>1, <2>2, QuietStates DEF Listed
<1>3. ASSUME NEW v \in VApps, LateCommit(v)
      PROVE  StatesKnown'
  <2>1. /\ vcd[v] = "late" /\ vcd' = [vcd EXCEPT ![v] = "bare"]
        /\ UNCHANGED <<ops, byVAppHREF, pc, work, cur>>
    BY <1>3 DEF LateCommit, storeVars, loopVars
  <2>2. \A x \in VApps : LabelledOrGone(x) \/ vcd[x] = "bare" => vcd'[x] = vcd[x]
    BY <1>1, <2>1 DEF LabelledOrGone
  <2>3. ASSUME NEW s \in Slots PROVE OpState(s)'
    <3>1. OpState(s)
      BY DEF StatesKnown
    <3>2. CASE ops[s].pc \in StatePcs
      BY <2>1, <2>2, <3>1, <3>2, StatePcsHaveVApps DEF OpState, LabelledOrGone, Listed
    <3>3. CASE ops[s].pc \notin StatePcs
      BY <2>1, <3>3 DEF OpState, StatePcs, DeletePcs
    <3>. QED  BY <3>2, <3>3
  <2>4. \A x \in VApps : byVAppHREF'[x] # None \/ Listed(x)' => LabelledOrGone(x)'
    BY <2>1, <2>2 DEF StatesKnown, LabelledOrGone, Listed
  <2>. QED  BY <2>3, <2>4 DEF StatesKnown
<1>4. ASSUME NEW v \in VApps, VAppVanishes(v)
      PROVE  StatesKnown'
  BY <1>1, <1>4, FadingStates DEF VAppVanishes, storeVars, loopVars
<1>5. CASE CooldownEnds
  BY <1>5, QuietStates DEF CooldownEnds, storeVars, loopVars, Listed
<1>6. ASSUME NEW sent \in SUBSET VApps, Restart(sent)
      PROVE  StatesKnown'
  <2>1. /\ ops' = [t \in Slots |-> Free] /\ pc' = "idle"
        /\ byVAppHREF' = [v \in VApps |-> None]
    BY <1>6 DEF Restart
  <2>. QED  BY <2>1 DEF Free, StatesKnown, OpState, Listed, PollPcs, DeletePcs
<1>. QED  BY <1>2, <1>3, <1>4, <1>5, <1>6 DEF Environment, IDs

\* So it is in every reachable state.
LEMMA StatesHold == Spec => []StatesKnown
<1>1. Init => StatesKnown
  BY DEF Init, newDesiredStateStore, Free, StatesKnown, OpState, Listed, PollPcs, DeletePcs
<1>2. IInv /\ StatesKnown /\ [Next]_vars => StatesKnown'
  <2>1. ASSUME IInv, StatesKnown, UNCHANGED vars
        PROVE  StatesKnown'
    BY <2>1, QuietStates DEF vars, storeVars, loopVars, Listed
  <2>. QED  BY <2>1, LoopKeepsStates, CreateKeepsStates, DeleteKeepsStates,
               EnvironmentKeepsStates
            DEF Next
<1>. QED  BY <1>1, <1>2, InvariantHolds, PTL DEF Spec

-----------------------------------------------------------------------------
(* What a step does to the operations in progress.                         *)

\* The operation in slot s goes on to another program counter.
Moves(s, at) ==
    /\ \A t \in Slots : t # s => ops'[t] = ops[t]
    /\ ops'[s].pc = at
    /\ ops'[s].intent = ops[s].intent
    /\ ops'[s].vapp = ops[s].vapp

\* Slot s gets another operation, or none.
Becomes(s, at, i, v) ==
    /\ \A t \in Slots : t # s => ops'[t] = ops[t]
    /\ ops'[s].pc = at /\ ops'[s].intent = i /\ ops'[s].vapp = v

\* A goroutine that goes on.
LEMMA GotoMoves ==
    ASSUME ops \in [Slots -> Op], NEW s \in Slots, NEW at, Goto(s, at)
    PROVE  Moves(s, at)
  BY DEF Goto, Moves, Op

\* A goroutine that ends.
LEMMA releaseFrees ==
    ASSUME ops \in [Slots -> Op], NEW s \in Slots, release(s)
    PROVE  Becomes(s, "free", None, None)
  BY DEF release, Becomes, Free

\* A goroutine that starts.
LEMMA NewOpBecomes ==
    ASSUME ops \in [Slots -> Op], NEW s \in Slots, NEW at, NEW i, NEW v,
           ops' = [ops EXCEPT ![s] = NewOp(at, i, v)]
    PROVE  Becomes(s, at, i, v)
  BY DEF NewOp, Becomes

-----------------------------------------------------------------------------
(* The cleanup of failed creates has its vApps to itself.                  *)

\* Nothing is left of v and no poll can bring it back, or its cleanup was given up.
Past(v) ==
    \/ vcd[v] = "absent" /\ ~ Listed(v) /\ byVAppHREF[v] = None
    \/ v \in forgotten

\* No goroutine is at work on v or about to be.
Unused(v) == v \notin work /\ \A s \in Slots : ops[s].vapp # v

\* A create counts on v.
Owned(v) == \E s \in Slots : ops[s].pc \in OwningPcs /\ ops[s].vapp = v

\* What waits for a cleanup has no entry and is not about to get one.
CleanupsUntracked ==
    \A v \in failedCreateCleanups :
       /\ byVAppHREF[v] = None
       /\ pc = "adopt" => cur # v

\* A cleanup in progress, or about to be dispatched, is of a name that still
\* waits for one or that is over.
CleanupsNamed ==
    /\ \A s \in Slots : ops[s].pc \in CleanupPcs =>
          ops[s].vapp \in failedCreateCleanups \/ Past(ops[s].vapp)
    /\ pc = "cleanupLoop" => \A v \in work : v \in failedCreateCleanups \/ Past(v)

\* No two cleanups are of the same vApp, and a cleanup and a delete only when an
\* earlier cleanup was given up.
CleanupsApart ==
    /\ \A s, t \in Slots : s # t /\ ops[s].pc \in CleanupPcs /\ ops[t].pc \in CleanupPcs =>
          ops[s].vapp # ops[t].vapp
    /\ \A s \in Slots : ops[s].pc \in DeletePcs =>
          /\ ops[s].vapp \notin failedCreateCleanups
          /\ pc = "cleanupLoop" /\ ops[s].vapp \in work => ops[s].vapp \in forgotten
          /\ \A t \in Slots : ops[t].pc \in CleanupPcs /\ ops[t].vapp = ops[s].vapp =>
                ops[s].vapp \in forgotten

CleanupsAlone == CleanupsUntracked /\ CleanupsNamed /\ CleanupsApart

\* A vApp that a create counts on concerns nobody else.
LEMMA OwnedApart ==
    ASSUME IInv, NEW v, Owned(v)
    PROVE  /\ v \in VApps /\ v \in inflightCreates /\ v \notin failedCreateCleanups
           /\ byVAppHREF[v] = None
           /\ pc \in {"owned", "adopt"} => cur # v
           /\ pc = "cleanupLoop" => v \notin work
           /\ \A s \in Slots : ops[s].pc \notin OwningPcs => ops[s].vapp # v
  BY DEF Owned, IInv, VAppOwned, OpShape

\* A step that starts no delete or cleanup, ends no cleanup, and brings back or
\* gives an entry only to a vApp a create counts on or that a poll has listed.
LEMMA QuietCleanups ==
    ASSUME IInv, CleanupsAlone, failedCreateCleanups' = failedCreateCleanups,
           \A v \in forgotten : v \in forgotten' \/ Unused(v),
           \A v \in VApps : vcd[v] = "absent" => vcd'[v] = "absent" \/ Owned(v),
           \A v \in VApps : Listed(v)' => Listed(v) \/ vcd[v] = "tagged",
           \A v \in VApps : byVAppHREF'[v] # None =>
              \/ byVAppHREF[v] # None
              \/ Owned(v)
              \/ Listed(v) /\ v \notin failedCreateCleanups,
           pc' = "adopt" => (pc = "adopt" /\ cur' = cur) \/ cur' \notin failedCreateCleanups,
           pc' = "cleanupLoop" =>
              \A v \in work' : /\ v \in VApps
                               /\ \/ pc = "cleanupLoop" /\ v \in work
                                  \/ v \in failedCreateCleanups,
           \A s \in Slots :
              \/ ops'[s].pc \notin DeletePcs \cup CleanupPcs
              \/ /\ ops'[s].vapp = ops[s].vapp
                 /\ \/ ops'[s].pc \in DeletePcs /\ ops[s].pc \in DeletePcs
                    \/ ops'[s].pc \in CleanupPcs /\ ops[s].pc \in CleanupPcs
    PROVE  CleanupsAlone'
<1>1. \A v \in failedCreateCleanups : v \in VApps /\ ~ Owned(v)
  BY OwnedApart DEF IInv, Types
<1>2. CleanupsUntracked'
  BY <1>1 DEF CleanupsAlone, CleanupsUntracked
<1>3. ASSUME NEW v \in VApps, Past(v), ~ Owned(v), ~ Unused(v)
      PROVE  Past(v)'
  BY <1>3 DEF Past
<1>4. \A s \in Slots : ops'[s].pc \in CleanupPcs => ops[s].pc \in CleanupPcs /\ ops'[s].vapp = ops[s].vapp
  BY DEF CleanupPcs, DeletePcs
<1>5. \A s \in Slots : ops'[s].pc \in DeletePcs => ops[s].pc \in DeletePcs /\ ops'[s].vapp = ops[s].vapp
  BY DEF CleanupPcs, DeletePcs
<1>6. \A s \in Slots : ops[s].pc \in CleanupPcs =>
         ops[s].vapp \in VApps /\ ~ Owned(ops[s].vapp) /\ ~ Unused(ops[s].vapp)
  BY OwnedApart DEF IInv, OpShape, CleanupPcs, OwningPcs, Unused
<1>7. CleanupsNamed'
  <2>1. ASSUME NEW s \in Slots, ops'[s].pc \in CleanupPcs
        PROVE  (ops[s].vapp \in failedCreateCleanups \/ Past(ops[s].vapp))'
    <3>1. PICK v \in VApps : v = ops[s].vapp /\ v = ops'[s].vapp /\ ~ Owned(v) /\ ~ Unused(v)
      BY <1>4, <1>6, <2>1
    <3>2. v \in failedCreateCleanups \/ Past(v)
      BY <1>4, <2>1, <3>1 DEF CleanupsAlone, CleanupsNamed
    <3>3. Past(v) => Past(v)'
      BY <1>3, <3>1
    <3>4. v \in failedCreateCleanups' \/ Past(v)'
      BY <3>2, <3>3
    <3>. QED  BY <3>1, <3>4 DEF Past, Listed
  <2>2. ASSUME pc' = "cleanupLoop", NEW v \in work'
        PROVE  v \in failedCreateCleanups' \/ Past(v)'
    <3>1. CASE v \in failedCreateCleanups
      BY <3>1
    <3>2. CASE v \notin failedCreateCleanups
      <4>1. v \in VApps /\ pc = "cleanupLoop" /\ v \in work
        BY <2>2, <3>2
      <4>2. ~ Owned(v) /\ Past(v) /\ ~ Unused(v)
        BY <3>2, <4>1, OwnedApart DEF CleanupsAlone, CleanupsNamed, Unused
      <4>. QED  BY <1>3, <4>1, <4>2
    <3>. QED  BY <3>1, <3>2
  <2>. QED  BY <2>1, <2>2 DEF CleanupsNamed
<1>8. CleanupsApart'
  <2>1. \A s \in Slots : ops[s].vapp \in forgotten => ops[s].vapp \in forgotten'
    BY DEF Unused
  <2>2. ASSUME NEW s \in Slots, ops'[s].pc \in DeletePcs, pc' = "cleanupLoop",
               ops'[s].vapp \in work'
        PROVE  ops'[s].vapp \in forgotten'
    BY <1>5, <2>1, <2>2 DEF CleanupsAlone, CleanupsApart
  <2>3. ASSUME NEW s \in Slots, NEW t \in Slots, ops'[s].pc \in DeletePcs,
               ops'[t].pc \in CleanupPcs, ops'[t].vapp = ops'[s].vapp
        PROVE  ops'[s].vapp \in forgotten'
    BY <1>4, <1>5, <2>1, <2>3 DEF CleanupsAlone, CleanupsApart
  <2>. QED  BY <1>4, <1>5, <2>2, <2>3 DEF CleanupsAlone, CleanupsApart
<1>. QED  BY <1>2, <1>7, <1>8 DEF CleanupsAlone

\* ownsVApp keeps failed creates from adoption, DispatchCleanup takes a slot for one
\* cleanup of a name.
LEMMA LoopKeepsCleanups ==
    ASSUME IInv, StatesKnown, CleanupsAlone, reconcileOnce
    PROVE  CleanupsAlone'
<1>. USE DEF Listed, PollPcs
<1>1. /\ vcd' = vcd /\ failedCreateCleanups' = failedCreateCleanups /\ forgotten' = forgotten
      /\ ops \in [Slots -> Op] /\ failedCreateCleanups \subseteq VApps
  BY DEF reconcileOnce, PollFails, SearchByFilter, readListedVApps, PollTracked,
         PollUntracked, ownsVApp, PollAdopts, PollEnds, updateStartupHold,
         dispatchCreates, DispatchCreate, dispatchDeletes, DispatchDelete,
         dispatchCreateCleanups, DispatchCleanup, GCAndPrune, ownerVars, ghostVars, IInv, Types
<1>2. CASE PollFails \/ SearchByFilter \/ (\E unread \in SUBSET work : readListedVApps(unread))
  BY <1>1, <1>2, QuietCleanups
     DEF PollFails, SearchByFilter, readListedVApps, storeVars, CleanupPcs, DeletePcs
<1>3. CASE \E v \in VApps, vmRead \in BOOLEAN : PollTracked(v, vmRead)
  BY <1>1, <1>3, QuietCleanups, PollTrackedEffect DEF PollTracked
<1>4. CASE (\E v \in VApps : PollUntracked(v)) \/ ownsVApp
  BY <1>1, <1>4, QuietCleanups DEF PollUntracked, ownsVApp, storeVars
<1>5. CASE PollAdopts
  <2>1. Listed(cur) /\ cur \notin failedCreateCleanups /\ cur \in VApps
    BY <1>5, PollAdoptsEffect DEF PollAdopts, CleanupsAlone, CleanupsUntracked
  <2>2. \A v \in VApps : byVAppHREF'[v] # None => byVAppHREF[v] # None \/ v = cur
    BY <1>5, PollAdoptsEffect DEF IInv, Types, StoreTypeOK
  <2>. QED  BY <1>1, <1>5, <2>1, <2>2, QuietCleanups DEF PollAdopts
<1>6. CASE PollEnds
  BY <1>1, <1>6, QuietCleanups, PollEndsEffect DEF PollEnds
<1>7. CASE \/ \E timeout \in BOOLEAN : updateStartupHold(timeout)
           \/ dispatchCreates \/ dispatchDeletes \/ dispatchCreateCleanups
  BY <1>1, <1>7, QuietCleanups DEF updateStartupHold, dispatchCreates, dispatchDeletes,
                                 dispatchCreateCleanups, storeVars
<1>8. ASSUME NEW i \in Intents, NEW s \in Slots, DispatchCreate(i, s)
      PROVE  CleanupsAlone'
  <2>1. byVAppHREF' = byVAppHREF
    BY <1>8, DispatchCreateEffect
  <2>2. Becomes(s, "init", i, None)
    BY <1>1, <1>8, NewOpBecomes DEF DispatchCreate
  <2>. QED  BY <1>1, <1>8, <2>1, <2>2, QuietCleanups
            DEF DispatchCreate, Becomes, DeletePcs, CleanupPcs
<1>9. ASSUME NEW i \in IDs, NEW s \in Slots, DispatchDelete(i, s)
      PROVE  CleanupsAlone'
  <2>1. PICK v \in VApps : v = instances[i].ID
    BY <1>9, DispatchDeleteEffect
  <2>2. /\ byVAppHREF' = byVAppHREF /\ byVAppHREF[v] # None
        /\ pc = "deleteLoop" /\ pc' = pc
    BY <1>9, <2>1, DispatchDeleteEffect, StoreAssumption DEF DispatchDelete, IDs
  <2>3. Becomes(s, "delete", i, v)
    <3>1. ops' = [ops EXCEPT ![s] = NewOp("delete", i, v)]
      BY <1>9, <2>1 DEF DispatchDelete
    <3>. QED  BY <1>1, <3>1, NewOpBecomes
  <2>4. v \notin failedCreateCleanups /\ (Past(v) => v \in forgotten)
    BY <2>2 DEF CleanupsAlone, CleanupsUntracked, Past
  <2>5. \A t \in Slots : ops[t].pc \in CleanupPcs /\ ops[t].vapp = v => v \in forgotten
    BY <2>4 DEF CleanupsAlone, CleanupsNamed
  <2>6. \A x : Past(x)' <=> Past(x)
    BY <1>1, <2>2 DEF Past
  <2>7. CleanupsUntracked'
    BY <1>1, <2>2 DEF CleanupsAlone, CleanupsUntracked
  <2>8. \A t \in Slots : /\ ops'[t].pc \in CleanupPcs => ops'[t] = ops[t]
                         /\ ops'[t].pc \in DeletePcs => ops'[t] = ops[t] \/ t = s
    BY <2>3 DEF Becomes, CleanupPcs
  <2>9. ops'[s].vapp = v /\ ops'[s].pc \notin CleanupPcs
    BY <2>3 DEF Becomes, CleanupPcs
  <2>10. CleanupsNamed'
    BY <1>1, <2>2, <2>6, <2>8 DEF CleanupsAlone, CleanupsNamed, Past
  <2>11. CleanupsApart'
    BY <1>1, <2>2, <2>4, <2>5, <2>8, <2>9 DEF CleanupsAlone, CleanupsApart
  <2>. QED  BY <2>7, <2>10, <2>11 DEF CleanupsAlone
<1>10. ASSUME NEW v \in VApps, NEW s \in Slots, DispatchCleanup(v, s)
      PROVE  CleanupsAlone'
  <2>1. /\ byVAppHREF' = byVAppHREF /\ pc = "cleanupLoop" /\ pc' = pc
        /\ v \in work /\ work' = work \ {v}
    BY <1>10 DEF DispatchCleanup, storeVars
  <2>2. \A t \in Slots : ops[t].pc \in CleanupPcs => ops[t].vapp # v
    BY <1>10 DEF DispatchCleanup, backgroundDeletes, OpsAt
  <2>3. Becomes(s, "cleanup", None, v)
    BY <1>1, <1>10, NewOpBecomes DEF DispatchCleanup
  <2>4. \A x : Past(x)' <=> Past(x)
    BY <1>1, <2>1 DEF Past
  <2>5. CleanupsUntracked'
    BY <1>1, <2>1 DEF CleanupsAlone, CleanupsUntracked
  <2>6. \A t \in Slots : /\ ops'[t].pc \in CleanupPcs => ops'[t] = ops[t] \/ t = s
                         /\ ops'[t].pc \in DeletePcs => ops'[t] = ops[t]
    BY <2>3 DEF Becomes, DeletePcs
  <2>7. ops'[s].vapp = v /\ ops'[s].pc \notin DeletePcs
    BY <2>3 DEF Becomes, DeletePcs
  <2>8. CleanupsNamed'
    BY <1>1, <2>1, <2>4, <2>6, <2>7 DEF CleanupsAlone, CleanupsNamed, Past
  <2>9. CleanupsApart'
    BY <1>1, <2>1, <2>2, <2>6, <2>7 DEF CleanupsAlone, CleanupsApart
  <2>. QED  BY <2>5, <2>8, <2>9 DEF CleanupsAlone
<1>11. CASE GCAndPrune
  BY <1>1, <1>11, QuietCleanups, GCAndPruneEffect DEF GCAndPrune
<1>. QED  BY <1>2, <1>3, <1>4, <1>5, <1>6, <1>7, <1>8, <1>9, <1>10, <1>11 DEF reconcileOnce

\* Only Abort adds a name, one that no delete or cleanup has.
LEMMA CreateKeepsCleanups ==
    ASSUME IInv, StatesKnown, CleanupsAlone, NEW s \in Slots, doCreate(s)
    PROVE  CleanupsAlone'
<1>1. ops \in [Slots -> Op] /\ vcd \in [VApps -> VAppStates] /\ work \subseteq IDs
  BY DEF IInv, Types
<1>2. pc = "cleanupLoop" => \A v \in work : v \in VApps
  BY DEF IInv, WorkFresh
<1>3. UNCHANGED <<pc, cur, work>> /\ \A v \in VApps : Listed(v)' <=> Listed(v)
  BY DEF doCreate, CreatePreludeFails, ChooseName, createRawVApp, AddMetadata, BuildVM,
         Abort, Disown, CreateReturnsError, CreateReturnsOK, createRecorded, loopVars, Listed
<1>. DEFINE NoneStarts ==
        \A t \in Slots : ops'[t] = ops[t] \/ ops'[t].pc \notin DeletePcs \cup CleanupPcs
<1>4. CASE CreatePreludeFails(s) \/ Disown(s) \/ \E ok \in BOOLEAN : BuildVM(s, ok)
  <2>1. NoneStarts
    BY <1>1, <1>4, GotoMoves DEF CreatePreludeFails, Disown, BuildVM, Moves,
                                 DeletePcs, CleanupPcs
  <2>2. UNCHANGED <<vcd, byVAppHREF, failedCreateCleanups, forgotten>>
    BY <1>4 DEF CreatePreludeFails, Disown, BuildVM, storeVars, ownerVars, ghostVars
  <2>. QED  BY <1>2, <1>3, <2>1, <2>2, QuietCleanups DEF DeletePcs, CleanupPcs
<1>5. ASSUME NEW v \in VApps, ChooseName(s, v)
      PROVE  CleanupsAlone'
  <2>1. NoneStarts
    BY <1>1, <1>5 DEF ChooseName, Op, DeletePcs, CleanupPcs
  <2>2. UNCHANGED <<vcd, byVAppHREF, failedCreateCleanups>>
    BY <1>5 DEF ChooseName, storeVars
  <2>3. forgotten' = forgotten \ {v} /\ Unused(v)
    BY <1>5 DEF ChooseName, Fresh, Unused
  <2>. QED  BY <1>2, <1>3, <2>1, <2>2, <2>3, QuietCleanups DEF DeletePcs, CleanupPcs
<1>6. ASSUME NEW ok \in BOOLEAN, NEW state \in VAppStates,
             createRawVApp(s, ok, state) \/ AddMetadata(s, ok, state)
      PROVE  CleanupsAlone'
  <2>1. PICK v \in VApps : v = ops[s].vapp /\ Owned(v)
    BY <1>6 DEF createRawVApp, AddMetadata, Owned, OwningPcs, IInv, OpShape
  <2>2. /\ vcd' = [vcd EXCEPT ![v] = state]
        /\ UNCHANGED <<byVAppHREF, failedCreateCleanups, forgotten>>
    BY <1>6, <2>1 DEF createRawVApp, AddMetadata, storeVars, ownerVars, ghostVars
  <2>3. NoneStarts
    BY <1>1, <1>6, GotoMoves DEF createRawVApp, AddMetadata, Moves, DeletePcs, CleanupPcs
  <2>. QED  BY <1>1, <1>2, <1>3, <2>1, <2>2, <2>3, QuietCleanups DEF DeletePcs, CleanupPcs
<1>7. CASE Abort(s)
  <2>1. PICK v \in VApps : v = ops[s].vapp /\ Owned(v)
    BY <1>7 DEF Abort, Owned, OwningPcs, IInv, OpShape
  <2>2. /\ failedCreateCleanups' = failedCreateCleanups \cup {v}
        /\ UNCHANGED <<vcd, byVAppHREF, forgotten>>
    BY <1>7, <2>1 DEF Abort, storeVars, ghostVars
  <2>3. Moves(s, "disown")
    BY <1>1, <1>7, GotoMoves DEF Abort
  <2>4. \A t \in Slots :
           /\ ops'[t].pc \in DeletePcs \cup CleanupPcs => ops'[t] = ops[t]
           /\ ops[t].pc \in DeletePcs \cup CleanupPcs => ops[t].vapp # v
    BY <2>1, <2>3, OwnedApart DEF Moves, DeletePcs, CleanupPcs, OwningPcs
  <2>5. CleanupsUntracked'
    BY <1>3, <2>1, <2>2, OwnedApart DEF CleanupsAlone, CleanupsUntracked
  <2>6. \A x \in VApps : Past(x)' <=> Past(x)
    BY <1>3, <2>2 DEF Past
  <2>7. \A t \in Slots : ops[t].pc \in CleanupPcs => ops[t].vapp \in VApps
    BY DEF IInv, OpShape
  <2>8. CleanupsNamed'
    <3>1. ASSUME NEW t \in Slots, ops'[t].pc \in CleanupPcs
          PROVE  (ops[t].vapp \in failedCreateCleanups \/ Past(ops[t].vapp))'
      <4>1. PICK x \in VApps : x = ops[t].vapp /\ x = ops'[t].vapp
        BY <2>4, <2>7, <3>1
      <4>2. x \in failedCreateCleanups \/ Past(x)
        BY <2>4, <3>1, <4>1 DEF CleanupsAlone, CleanupsNamed
      <4>3. x \in failedCreateCleanups' \/ Past(x)'
        BY <2>2, <2>6, <4>2
      <4>. QED  BY <4>1, <4>3 DEF Past, Listed
    <3>2. ASSUME pc' = "cleanupLoop", NEW x \in work'
          PROVE  x \in failedCreateCleanups' \/ Past(x)'
      BY <1>2, <1>3, <2>2, <2>6, <3>2 DEF CleanupsAlone, CleanupsNamed
    <3>. QED  BY <3>1, <3>2 DEF CleanupsNamed
  <2>9. CleanupsApart'
    BY <1>3, <2>2, <2>4 DEF CleanupsAlone, CleanupsApart
  <2>. QED  BY <2>5, <2>8, <2>9 DEF CleanupsAlone
<1>8. CASE CreateReturnsError(s) \/ createRecorded(s)
  <2>1. NoneStarts
    BY <1>1, <1>8, releaseFrees
       DEF CreateReturnsError, createRecorded, Becomes, DeletePcs, CleanupPcs
  <2>2. UNCHANGED <<vcd, byVAppHREF, failedCreateCleanups, forgotten>>
    BY <1>8, CreateReturnsErrorEffect
       DEF CreateReturnsError, createRecorded, storeVars, ownerVars, ghostVars
  <2>. QED  BY <1>2, <1>3, <2>1, <2>2, QuietCleanups DEF DeletePcs, CleanupPcs
<1>9. CASE CreateReturnsOK(s)
  <2>1. PICK v \in VApps : v = ops[s].vapp /\ Owned(v)
    BY <1>9 DEF CreateReturnsOK, Owned, OwningPcs, IInv, OpShape
  <2>2. \A x \in VApps : byVAppHREF'[x] # None => byVAppHREF[x] # None \/ x = v
    BY <1>9, <2>1, CreateReturnsOKEffect DEF IInv, Types, StoreTypeOK
  <2>3. NoneStarts
    BY <1>1, <1>9, GotoMoves DEF CreateReturnsOK, Moves, DeletePcs, CleanupPcs
  <2>4. UNCHANGED <<vcd, failedCreateCleanups, forgotten>>
    BY <1>9 DEF CreateReturnsOK, ownerVars, ghostVars
  <2>. QED  BY <1>2, <1>3, <2>1, <2>2, <2>3, <2>4, QuietCleanups DEF DeletePcs, CleanupPcs
<1>. QED  BY <1>4, <1>5, <1>6, <1>7, <1>8, <1>9 DEF doCreate

\* A name is dropped only by the cleanup of it.
LEMMA DeleteKeepsCleanups ==
    ASSUME IInv, StatesKnown, CleanupsAlone, NEW s \in Slots, doDelete(s) \/ doCleanup(s)
    PROVE  CleanupsAlone'
<1>1. ops \in [Slots -> Op] /\ vcd \in [VApps -> VAppStates]
  BY DEF IInv, Types
<1>2. pc = "cleanupLoop" => \A v \in work : v \in VApps
  BY DEF IInv, WorkFresh
<1>3. UNCHANGED <<pc, cur, work>> /\ \A v \in VApps : Listed(v)' <=> Listed(v)
  BY DEF doDelete, deleteInstance, DeleteReturnsError, DeleteReturnsOK, doCleanup,
         cleanUpInstanceByName, CleanupReturns, loopVars, Listed
<1>4. byVAppHREF' = byVAppHREF
  BY DeleteReturnsEffect DEF doDelete, deleteInstance, DeleteReturnsError, DeleteReturnsOK,
     doCleanup, cleanUpInstanceByName, CleanupReturns, storeVars, DeleteRecords
<1>5. ASSUME NEW ok \in BOOLEAN, NEW gone \in BOOLEAN, deleteInstance(s, ok, gone)
      PROVE  CleanupsAlone'
  <2>1. \A t \in Slots : \/ ops'[t] = ops[t]
                         \/ /\ ops'[t].vapp = ops[t].vapp
                            /\ ops'[t].pc \in DeletePcs /\ ops[t].pc \in DeletePcs
    BY <1>1, <1>5, GotoMoves DEF deleteInstance, Moves, DeletePcs
  <2>2. \A v \in VApps : vcd[v] = "absent" => vcd'[v] = "absent"
    BY <1>1, <1>5 DEF deleteInstance
  <2>. QED  BY <1>2, <1>3, <1>4, <1>5, <2>1, <2>2, QuietCleanups
            DEF deleteInstance, ownerVars, ghostVars
<1>6. ASSUME NEW ok \in BOOLEAN, NEW gone \in BOOLEAN, cleanUpInstanceByName(s, ok, gone)
      PROVE  CleanupsAlone'
  <2>1. \A t \in Slots : \/ ops'[t] = ops[t]
                         \/ /\ ops'[t].vapp = ops[t].vapp
                            /\ ops'[t].pc \in CleanupPcs /\ ops[t].pc \in CleanupPcs
    BY <1>1, <1>6, GotoMoves DEF cleanUpInstanceByName, Moves, CleanupPcs
  <2>2. \A v \in VApps : vcd[v] = "absent" => vcd'[v] = "absent"
    BY <1>1, <1>6 DEF cleanUpInstanceByName
  <2>. QED  BY <1>2, <1>3, <1>4, <1>6, <2>1, <2>2, QuietCleanups
            DEF cleanUpInstanceByName, ownerVars, ghostVars
<1>7. CASE DeleteReturnsError(s) \/ DeleteReturnsOK(s)
  <2>1. \A t \in Slots : ops'[t] = ops[t] \/ ops'[t].pc = "free"
    BY <1>1, <1>7, releaseFrees DEF DeleteReturnsError, DeleteReturnsOK, Becomes
  <2>2. UNCHANGED <<vcd, failedCreateCleanups, forgotten>>
    BY <1>7 DEF DeleteReturnsError, DeleteReturnsOK, ownerVars, ghostVars
  <2>. QED  BY <1>2, <1>3, <1>4, <2>1, <2>2, QuietCleanups DEF DeletePcs, CleanupPcs
<1>8. CASE CleanupReturns(s)
  <2>1. PICK v \in VApps : v = ops[s].vapp
    BY <1>8 DEF CleanupReturns, IInv, OpShape, CleanupPcs
  <2>2. Becomes(s, "free", None, None) /\ ops[s].pc \in CleanupPcs
    BY <1>1, <1>8, releaseFrees DEF CleanupReturns, CleanupPcs
  <2>3. /\ failedCreateCleanups' \subseteq failedCreateCleanups
        /\ \A x \in failedCreateCleanups :
              x \in failedCreateCleanups' \/ (x = v /\ (vcd[v] = "absent" \/ v \in forgotten'))
        /\ forgotten \subseteq forgotten'
        /\ vcd' = vcd
    <3>1. ops[s].pc = "cleanupOK" => vcd[v] = "absent" \/ Exists(v)
      BY <1>1, <2>1 DEF StatesKnown, OpState, Exists, VAppStates
    <3>. QED  BY <1>8, <2>1, <3>1 DEF CleanupReturns
  <2>4. \A t \in Slots :
           /\ ops'[t].pc \in DeletePcs \cup CleanupPcs => ops'[t] = ops[t] /\ t # s
           /\ ops[t].pc \in CleanupPcs /\ t # s => ops[t].vapp # v
    BY <2>1, <2>2 DEF Becomes, DeletePcs, CleanupPcs, CleanupsAlone, CleanupsApart
  <2>5. CleanupsUntracked'
    BY <1>3, <1>4, <2>3 DEF CleanupsAlone, CleanupsUntracked
  <2>6. \A x \in VApps : Past(x) \/ x \in forgotten' => Past(x)'
    BY <1>3, <1>4, <2>3 DEF Past
  <2>7. \A t \in Slots : ops[t].pc \in CleanupPcs => ops[t].vapp \in VApps
    BY DEF IInv, OpShape
  <2>8. CleanupsNamed'
    <3>1. ASSUME NEW t \in Slots, ops'[t].pc \in CleanupPcs
          PROVE  (ops[t].vapp \in failedCreateCleanups \/ Past(ops[t].vapp))'
      <4>1. PICK x \in VApps : x = ops[t].vapp /\ x = ops'[t].vapp /\ x # v
        BY <2>4, <2>7, <3>1
      <4>2. x \in failedCreateCleanups \/ Past(x)
        BY <2>4, <3>1, <4>1 DEF CleanupsAlone, CleanupsNamed
      <4>3. x \in failedCreateCleanups' \/ Past(x)'
        BY <2>3, <2>6, <4>1, <4>2
      <4>. QED  BY <4>1, <4>3 DEF Past, Listed
    <3>2. ASSUME pc' = "cleanupLoop", NEW x \in work'
          PROVE  x \in failedCreateCleanups' \/ Past(x)'
      <4>1. x \in VApps /\ pc = "cleanupLoop" /\ (x \in failedCreateCleanups \/ Past(x))
        BY <1>2, <1>3, <3>2 DEF CleanupsAlone, CleanupsNamed
      <4>2. x = v /\ v \in failedCreateCleanups /\ vcd[v] = "absent" => Past(x)
        BY <4>1 DEF Past, Listed, PollPcs, CleanupsAlone, CleanupsUntracked
      <4>. QED  BY <2>3, <2>6, <4>1, <4>2
    <3>. QED  BY <3>1, <3>2 DEF CleanupsNamed
  <2>9. CleanupsApart'
    BY <1>3, <2>3, <2>4 DEF CleanupsAlone, CleanupsApart
  <2>. QED  BY <2>5, <2>8, <2>9 DEF CleanupsAlone
<1>. QED  BY <1>5, <1>6, <1>7, <1>8 DEF doDelete, doCleanup

\* A restart drops names and operations alike.
LEMMA EnvironmentKeepsCleanups ==
    ASSUME IInv, StatesKnown, CleanupsAlone, Environment
    PROVE  CleanupsAlone'
<1>1. ops \in [Slots -> Op] /\ vcd \in [VApps -> VAppStates]
  BY DEF IInv, Types
<1>2. pc = "cleanupLoop" => \A v \in work : v \in VApps
  BY DEF IInv, WorkFresh
<1>3. ASSUME NEW i \in IDs, (i \in Intents /\ Increase(i)) \/ Decrease(i)
      PROVE  CleanupsAlone'
  <2>1. byVAppHREF' = byVAppHREF
    BY <1>3, IncreaseEffect, DecreaseEffect
  <2>2. UNCHANGED <<vcd, ops, pc, work, cur, failedCreateCleanups, forgotten>>
    BY <1>3 DEF Increase, Decrease, loopVars, ownerVars, ghostVars
  <2>. QED  BY <1>2, <2>1, <2>2, QuietCleanups DEF Listed
<1>4. ASSUME NEW v \in VApps, LateCommit(v) \/ VAppVanishes(v)
      PROVE  CleanupsAlone'
  <2>1. UNCHANGED <<byVAppHREF, ops, pc, work, cur, failedCreateCleanups, forgotten>>
    BY <1>4 DEF LateCommit, VAppVanishes, storeVars, loopVars, ownerVars, ghostVars
  <2>2. \A x \in VApps : vcd[x] = "absent" => vcd'[x] = "absent"
    BY <1>1, <1>4 DEF LateCommit, VAppVanishes
  <2>. QED  BY <1>2, <2>1, <2>2, QuietCleanups DEF Listed
<1>5. CASE CooldownEnds
  BY <1>2, <1>5, QuietCleanups
     DEF CooldownEnds, storeVars, loopVars, ownerVars, ghostVars, Listed
<1>6. ASSUME NEW sent \in SUBSET VApps, Restart(sent)
      PROVE  CleanupsAlone'
  <2>1. ops' = [t \in Slots |-> Free] /\ pc' = "idle" /\ failedCreateCleanups' = {}
    BY <1>6 DEF Restart
  <2>. QED  BY <2>1 DEF Free, CleanupsAlone, CleanupsUntracked, CleanupsNamed,
                        CleanupsApart, DeletePcs, CleanupPcs
<1>. QED  BY <1>3, <1>4, <1>5, <1>6 DEF Environment, IDs

\* So it is in every reachable state.
LEMMA CleanupsHold == Spec => []CleanupsAlone
<1>1. Init => CleanupsAlone
  BY DEF Init, Free, CleanupsAlone, CleanupsUntracked, CleanupsNamed, CleanupsApart,
         DeletePcs, CleanupPcs
<1>2. IInv /\ StatesKnown /\ CleanupsAlone /\ [Next]_vars => CleanupsAlone'
  <2>1. ASSUME IInv, CleanupsAlone, UNCHANGED vars
        PROVE  CleanupsAlone'
    <3>1. pc = "cleanupLoop" => \A v \in work : v \in VApps
      BY <2>1 DEF IInv, WorkFresh
    <3>. QED  BY <2>1, <3>1, QuietCleanups
              DEF vars, storeVars, loopVars, ownerVars, ghostVars, Listed
  <2>. QED  BY <2>1, LoopKeepsCleanups, CreateKeepsCleanups, DeleteKeepsCleanups,
               EnvironmentKeepsCleanups
            DEF Next
<1>. QED  BY <1>1, <1>2, InvariantHolds, StatesHold, PTL DEF Spec

-----------------------------------------------------------------------------
(* One create per intent, one delete per vApp.                             *)

\* Creates have their intents to themselves, the one that is about to give up its
\* vApp's name too: its entry has left the phases that dispatchCreates looks at.
CreatesAlone ==
    /\ \A s \in Slots : ops[s].pc = "record" =>
          instances[ops[s].intent].Phase \notin {"PendingCreate", "Creating"}
    /\ \A s, t \in Slots : s # t /\ ops[s].pc \in CreatePcs /\ ops[t].pc \in CreatePcs =>
          ops[s].intent # ops[t].intent

\* A step that starts no create and takes no entry back to those phases.
LEMMA QuietCreates ==
    ASSUME IInv, CreatesAlone,
           \A i \in IDs : instances'[i].Phase \in {"PendingCreate", "Creating"} =>
                             instances[i].Phase \in {"PendingCreate", "Creating"},
           \A s \in Slots : ops'[s].pc \in CreatePcs =>
              /\ ops[s].pc \in CreatePcs /\ ops'[s].intent = ops[s].intent
              /\ ops'[s].pc = "record" => ops[s].pc = "record"
    PROVE  CreatesAlone'
<1>1. \A s \in Slots : ops[s].pc \in CreatePcs => ops[s].intent \in IDs
  BY DEF IInv, OpShape, IDs
<1>. QED  BY <1>1 DEF CreatesAlone, CreatePcs

\* DispatchCreate takes an intent that is pending, and a create that fails gives it back.
LEMMA StepKeepsCreates ==
    ASSUME IInv, CreatesAlone, Next
    PROVE  CreatesAlone'
<1>1. ops \in [Slots -> Op]
  BY DEF IInv, Types
<1>2. CASE reconcileOnce
  <2>1. ASSUME UNCHANGED <<instances, ops>>
        PROVE  CreatesAlone'
    BY <2>1, QuietCreates
  <2>2. CASE PollFails \/ SearchByFilter \/ (\E unread \in SUBSET work : readListedVApps(unread))
             \/ (\E v \in VApps : PollUntracked(v)) \/ ownsVApp
             \/ (\E timeout \in BOOLEAN : updateStartupHold(timeout))
             \/ dispatchCreates \/ dispatchDeletes \/ dispatchCreateCleanups
    BY <2>1, <2>2 DEF PollFails, SearchByFilter, readListedVApps, PollUntracked, ownsVApp,
          updateStartupHold, dispatchCreates, dispatchDeletes, dispatchCreateCleanups, storeVars
  <2>3. CASE \E v \in VApps, vmRead \in BOOLEAN : PollTracked(v, vmRead)
    BY <2>3, QuietCreates, PollTrackedEffect DEF PollTracked
  <2>4. CASE PollAdopts
    BY <2>4, QuietCreates, PollAdoptsEffect DEF PollAdopts
  <2>5. CASE PollEnds
    BY <2>5, QuietCreates, PollEndsEffect DEF PollEnds, Misses
  <2>6. CASE GCAndPrune
    BY <2>6, QuietCreates, GCAndPruneEffect DEF GCAndPrune
  <2>7. ASSUME NEW i \in Intents, NEW s \in Slots, DispatchCreate(i, s)
        PROVE  CreatesAlone'
    <3>1. Becomes(s, "init", i, None)
      BY <1>1, <2>7, NewOpBecomes DEF DispatchCreate
    <3>2. \A t \in Slots : t # s /\ ops[t].pc \in CreatePcs => ops[t].intent \in IDs \ {i}
      BY <2>7, DispatchCreateEffect
         DEF CreatesAlone, IInv, OpShape, IntentOwned, PendingPcs, CreatePcs, IDs
    <3>. QED  BY <2>7, <3>1, <3>2, DispatchCreateEffect DEF Becomes, Sets, CreatesAlone, CreatePcs
  <2>8. ASSUME NEW i \in IDs, NEW s \in Slots, DispatchDelete(i, s)
        PROVE  CreatesAlone'
    <3>1. \A t \in Slots : ops'[t] = ops[t] \/ ops'[t].pc = "delete"
      BY <1>1, <2>8 DEF DispatchDelete, NewOp
    <3>. QED  BY <2>8, <3>1, QuietCreates, DispatchDeleteEffect DEF Sets, CreatePcs
  <2>9. ASSUME NEW v \in VApps, NEW s \in Slots, DispatchCleanup(v, s)
        PROVE  CreatesAlone'
    <3>1. \A t \in Slots : ops'[t] = ops[t] \/ ops'[t].pc = "cleanup"
      BY <1>1, <2>9 DEF DispatchCleanup, NewOp
    <3>. QED  BY <2>9, <3>1, QuietCreates DEF DispatchCleanup, storeVars, CreatePcs
  <2>. QED  BY <1>2, <2>2, <2>3, <2>4, <2>5, <2>6, <2>7, <2>8, <2>9 DEF reconcileOnce
<1>3. ASSUME NEW s \in Slots, doCreate(s)
      PROVE  CreatesAlone'
  <2>1. CASE \/ CreatePreludeFails(s) \/ Abort(s) \/ Disown(s)
             \/ (\E ok \in BOOLEAN : BuildVM(s, ok))
             \/ (\E ok \in BOOLEAN, state \in VAppStates : createRawVApp(s, ok, state))
             \/ (\E ok \in BOOLEAN, state \in VAppStates : AddMetadata(s, ok, state))
    <3>1. instances' = instances
      BY <2>1 DEF CreatePreludeFails, Abort, Disown, BuildVM, createRawVApp, AddMetadata, storeVars
    <3>2. PICK at : Moves(s, at) /\ at # "record" /\ ops[s].pc \in CreatePcs
      BY <1>1, <2>1, GotoMoves DEF CreatePreludeFails, Abort, Disown, BuildVM, createRawVApp,
                                   AddMetadata, CreatePcs
    <3>. QED  BY <3>1, <3>2, QuietCreates DEF Moves
  <2>2. ASSUME NEW v \in VApps, ChooseName(s, v)
        PROVE  CreatesAlone'
    <3>1. /\ \A t \in Slots : t # s => ops'[t] = ops[t]
          /\ ops'[s].pc = "post" /\ ops'[s].intent = ops[s].intent /\ ops[s].pc = "init"
      BY <1>1, <2>2 DEF ChooseName, Op
    <3>. QED  BY <2>2, <3>1, QuietCreates DEF ChooseName, storeVars, CreatePcs
  <2>3. CASE CreateReturnsError(s) \/ createRecorded(s)
    <3>1. \A t \in Slots : ops'[t] = ops[t] \/ ops'[t].pc = "free"
      BY <1>1, <2>3, releaseFrees DEF CreateReturnsError, createRecorded, Becomes
    <3>. QED  BY <2>3, <3>1, QuietCreates, CreateReturnsErrorEffect
              DEF createRecorded, storeVars, Sets, CreatePcs
  <2>4. CASE CreateReturnsOK(s)
    <3>1. Moves(s, "record") /\ ops[s].pc = "created"
      BY <1>1, <2>4, GotoMoves DEF CreateReturnsOK
    <3>2. \A t \in Slots : t # s /\ ops[t].pc \in CreatePcs => ops[t].intent \in IDs \ {ops[s].intent}
      BY <3>1 DEF CreatesAlone, IInv, OpShape, CreatePcs, IDs
    <3>. QED  BY <2>4, <3>1, <3>2, CreateReturnsOKEffect DEF Moves, Sets, CreatesAlone, CreatePcs
  <2>. QED  BY <1>3, <2>1, <2>2, <2>3, <2>4 DEF doCreate
<1>4. ASSUME NEW s \in Slots, doDelete(s) \/ doCleanup(s)
      PROVE  CreatesAlone'
  <2>1. CASE \/ \E ok, gone \in BOOLEAN : deleteInstance(s, ok, gone)
             \/ \E ok, gone \in BOOLEAN : cleanUpInstanceByName(s, ok, gone)
    <3>1. instances' = instances
      BY <2>1 DEF deleteInstance, cleanUpInstanceByName, storeVars
    <3>2. PICK at : Moves(s, at) /\ at \notin CreatePcs
      BY <1>1, <2>1, GotoMoves DEF deleteInstance, cleanUpInstanceByName, CreatePcs
    <3>. QED  BY <3>1, <3>2, QuietCreates DEF Moves
  <2>2. CASE DeleteReturnsError(s) \/ DeleteReturnsOK(s) \/ CleanupReturns(s)
    <3>1. \A t \in Slots : ops'[t] = ops[t] \/ ops'[t].pc = "free"
      BY <1>1, <2>2, releaseFrees
         DEF DeleteReturnsError, DeleteReturnsOK, CleanupReturns, Becomes
    <3>. QED  BY <2>2, <3>1, QuietCreates, DeleteReturnsEffect
              DEF CleanupReturns, storeVars, DeleteRecords, Sets, CreatePcs
  <2>. QED  BY <1>4, <2>1, <2>2 DEF doDelete, doCleanup
<1>5. CASE Environment
  <2>1. ASSUME NEW i \in Intents, Increase(i)
        PROVE  CreatesAlone'
    <3>1. ops' = ops /\ \A s \in Slots : ops[s].intent # i
      BY <2>1 DEF Increase
    <3>2. \A s \in Slots : ops[s].pc = "record" => ops[s].intent \in IDs
      BY DEF IInv, OpShape, CreatePcs, IDs
    <3>. QED  BY <2>1, <3>1, <3>2, IncreaseEffect DEF CreatesAlone
  <2>2. ASSUME NEW id \in IDs, Decrease(id)
        PROVE  CreatesAlone'
    BY <2>2, QuietCreates, DecreaseEffect DEF Decrease
  <2>3. CASE (\E v \in VApps : LateCommit(v) \/ VAppVanishes(v)) \/ CooldownEnds
    BY <2>3, QuietCreates DEF LateCommit, VAppVanishes, CooldownEnds, storeVars
  <2>4. ASSUME NEW sent \in SUBSET VApps, Restart(sent)
        PROVE  CreatesAlone'
    BY <2>4 DEF Restart, Free, CreatesAlone, CreatePcs
  <2>. QED  BY <1>5, <2>1, <2>2, <2>3, <2>4 DEF Environment
<1>. QED  BY <1>2, <1>3, <1>4, <1>5 DEF Next

\* So it is in every reachable state.
LEMMA CreatesHold == Spec => []CreatesAlone
<1>1. Init => CreatesAlone
  BY DEF Init, Free, CreatesAlone, CreatePcs
<1>2. IInv /\ CreatesAlone /\ [Next]_vars => CreatesAlone'
  <2>1. ASSUME IInv, CreatesAlone, UNCHANGED vars
        PROVE  CreatesAlone'
    BY <2>1, QuietCreates DEF vars, storeVars
  <2>. QED  BY <2>1, StepKeepsCreates
<1>. QED  BY <1>1, <1>2, InvariantHolds, PTL DEF Spec

-----------------------------------------------------------------------------

\* A complete listing begun by now has v, if v is there to be listed.
Seen(v) ==
    vcd[v] = "tagged" =>
       /\ pc = "read" => v \in work
       /\ pc \in PollPcs => v \in known

\* The delete in slot s still has its entry, and its vApp is not being missed.
UnderWay(s) ==
    /\ instances[ops[s].intent].Phase = "Deleting"
    /\ Seen(ops[s].vapp)

\* v is gone, and whatever entry it still has says so.
Over(v) ==
    /\ vcd[v] = "absent" /\ ~ Listed(v)
    /\ \A i \in IDs : instances[i].ID = v => instances[i].Phase = "Deleted"

\* A delete keeps its entry in Deleting for as long as there is something to
\* delete, and so keeps other deletes of the vApp away.
DeletesAlone ==
    /\ \A s \in Slots : ops[s].pc \in DeletePcs => UnderWay(s) \/ Over(ops[s].vapp)
    /\ \A s, t \in Slots : s # t /\ ops[s].pc \in DeletePcs /\ ops[t].pc \in DeletePcs =>
          ops[s].vapp # ops[t].vapp
    /\ pc = "deleteLoop" => \A i \in work, s \in Slots :
          ops[s].pc \in DeletePcs => ops[s].vapp # instances[i].ID

\* The vApp of a delete, and its entry while the delete is under way.
LEMMA DeleteHasVApp ==
    ASSUME IInv, NEW s \in Slots, ops[s].pc \in DeletePcs
    PROVE  /\ ops[s].vapp \in VApps /\ ops[s].vapp # None /\ ops[s].intent \in IDs
           /\ ~ Owned(ops[s].vapp)
           /\ UnderWay(s) => /\ instances[ops[s].intent].ID = ops[s].vapp
                             /\ byVAppHREF[ops[s].vapp] = ops[s].intent
<1>1. ops[s].vapp \in VApps /\ ops[s].vapp # None /\ ops[s].intent \in IDs
  BY StoreAssumption DEF IInv, OpShape, IDs
<1>2. ~ Owned(ops[s].vapp)
  BY OwnedApart DEF OwningPcs, DeletePcs
<1>3. UnderWay(s) => instances[ops[s].intent].ID = ops[s].vapp
  BY DEF UnderWay, IInv, IntentOwned
<1>. QED  BY <1>1, <1>2, <1>3 DEF IInv, IndexConsistent

\* A step that starts no delete, lets no entry leave Deleting or Deleted, and
\* brings a vApp back or gives it an entry only where a create counts on it or a
\* poll has listed it.
LEMMA QuietDeletes ==
    ASSUME IInv, DeletesAlone,
           \A s \in Slots : ops'[s].pc \in DeletePcs =>
              /\ ops[s].pc \in DeletePcs
              /\ ops'[s].intent = ops[s].intent /\ ops'[s].vapp = ops[s].vapp,
           \A v \in VApps : ~ Owned(v) => /\ vcd[v] = "absent" => vcd'[v] = "absent"
                                          /\ Seen(v) => Seen(v)',
           \A v \in VApps : Listed(v)' => Listed(v) \/ vcd[v] = "tagged",
           \A i \in IDs : instances[i].Phase = "Deleting" => instances'[i].Phase = "Deleting",
           \A i \in IDs : instances'[i].ID # None =>
              \/ /\ instances'[i].ID = instances[i].ID
                 /\ instances[i].Phase = "Deleted" => instances'[i].Phase = "Deleted"
              \/ Owned(instances'[i].ID)
              \/ Listed(instances'[i].ID),
           pc' = "deleteLoop" =>
              /\ pc = "deleteLoop"
              /\ \A i \in work' : i \in work /\ instances'[i].ID = instances[i].ID
    PROVE  DeletesAlone'
<1>1. ASSUME NEW s \in Slots, ops'[s].pc \in DeletePcs
      PROVE  UnderWay(s)' \/ Over(ops[s].vapp)'
  <2>1. PICK v \in VApps, i \in IDs :
           /\ v = ops[s].vapp /\ v = ops'[s].vapp /\ i = ops[s].intent /\ i = ops'[s].intent
           /\ ops[s].pc \in DeletePcs /\ ~ Owned(v) /\ v # None
    BY <1>1, DeleteHasVApp
  <2>2. CASE UnderWay(s)
    <3>1. Seen(v)' /\ instances'[i].Phase = "Deleting"
      BY <2>1, <2>2 DEF UnderWay
    <3>. QED  BY <2>1, <3>1 DEF UnderWay, Seen
  <2>3. CASE Over(ops[s].vapp)
    <3>1. vcd'[v] = "absent" /\ ~ Listed(v)'
      BY <2>1, <2>3 DEF Over
    <3>2. \A j \in IDs : instances'[j].ID = v => instances'[j].Phase = "Deleted"
      BY <2>1, <2>3 DEF Over
    <3>3. Over(v)'
      BY <3>1, <3>2 DEF Over
    <3>. QED  BY <2>1, <3>3 DEF Over, Listed
  <2>. QED  BY <2>1, <2>2, <2>3 DEF DeletesAlone
<1>2. \A s, t \in Slots : s # t /\ ops'[s].pc \in DeletePcs /\ ops'[t].pc \in DeletePcs =>
         ops'[s].vapp # ops'[t].vapp
  BY DEF DeletesAlone
<1>3. pc' = "deleteLoop" => \A i \in work', s \in Slots :
         ops'[s].pc \in DeletePcs => ops'[s].vapp # instances'[i].ID
  BY DEF DeletesAlone
<1>. QED  BY <1>1, <1>2, <1>3 DEF DeletesAlone

\* The entry of a delete in progress is neither missed too often nor pruned while its
\* vApp is there, so dispatchDeletes and discovery do not meet it.
LEMMA LoopKeepsDeletes ==
    ASSUME IInv, StatesKnown, DeletesAlone, ~ ListingMayOmit, reconcileOnce
    PROVE  DeletesAlone'
<1>. USE DEF Listed, PollPcs, Seen
<1>1. vcd' = vcd /\ ops \in [Slots -> Op] /\ work \subseteq IDs
  BY DEF reconcileOnce, PollFails, SearchByFilter, readListedVApps, PollTracked,
         PollUntracked, ownsVApp, PollAdopts, PollEnds, updateStartupHold,
         dispatchCreates, DispatchCreate, dispatchDeletes, DispatchDelete,
         dispatchCreateCleanups, DispatchCleanup, GCAndPrune, IInv, Types
<1>2. CASE PollFails \/ SearchByFilter
  BY <1>1, <1>2, QuietDeletes DEF PollFails, SearchByFilter, storeVars
<1>3. ASSUME NEW unread \in SUBSET work, readListedVApps(unread)
      PROVE  DeletesAlone'
  BY <1>1, <1>3, QuietDeletes DEF readListedVApps, storeVars, Exists
<1>4. CASE \E v \in VApps, vmRead \in BOOLEAN : PollTracked(v, vmRead)
  BY <1>1, <1>4, QuietDeletes, PollTrackedEffect DEF PollTracked
<1>5. CASE (\E v \in VApps : PollUntracked(v)) \/ ownsVApp
  BY <1>1, <1>5, QuietDeletes DEF PollUntracked, ownsVApp, storeVars
<1>6. CASE PollAdopts
  BY <1>1, <1>6, QuietDeletes, PollAdoptsEffect DEF PollAdopts
<1>7. CASE PollEnds
  <2>1. /\ pc = "poll" /\ pc' = "hold" /\ ops' = ops
        /\ \A i \in IDs : instances'[i] = instances[i] \/ Misses(i)
    BY <1>7, PollEndsEffect DEF PollEnds
  <2>2. ASSUME NEW s \in Slots, ops'[s].pc \in DeletePcs
        PROVE  UnderWay(s)' \/ Over(ops[s].vapp)'
    <3>1. PICK v \in VApps, i \in IDs :
             /\ v = ops[s].vapp /\ v = ops'[s].vapp /\ i = ops[s].intent /\ i = ops'[s].intent
             /\ ops[s].pc \in DeletePcs /\ v # None
             /\ UnderWay(s) => instances[i].ID = v /\ byVAppHREF[v] = i
      BY <2>1, <2>2, DeleteHasVApp
    <3>2. CASE UnderWay(s)
      <4>1. CASE instances'[i].Phase = "Deleting"
        BY <2>1, <3>1, <4>1 DEF UnderWay
      <4>2. CASE instances'[i].Phase # "Deleting"
        <5>1. instances'[i].Phase = "Deleted" /\ v \notin known
          BY <2>1, <3>1, <3>2, <4>2 DEF UnderWay, Misses
        <5>2. vcd[v] = "absent"
          <6>1. LabelledOrGone(v)
            BY <3>1 DEF StatesKnown, OpState
          <6>. QED  BY <2>1, <3>1, <3>2, <5>1, <6>1 DEF UnderWay, LabelledOrGone
        <5>3. \A j \in IDs : instances'[j].ID = v => j = i
          <6>1. \A j \in IDs : instances'[j].ID = instances[j].ID
            BY <2>1 DEF Misses
          <6>. QED  BY <3>1, <3>2, <6>1 DEF IInv, IndexConsistent
        <5>4. Over(v)'
          BY <1>1, <2>1, <5>1, <5>2, <5>3 DEF Over
        <5>. QED  BY <3>1, <5>4 DEF Over
      <4>. QED  BY <4>1, <4>2
    <3>3. CASE Over(ops[s].vapp)
      <4>1. Over(v)'
        BY <1>1, <2>1, <3>1, <3>3 DEF Over, Misses
      <4>. QED  BY <3>1, <4>1 DEF Over
    <3>. QED  BY <3>1, <3>2, <3>3 DEF DeletesAlone
  <2>. QED  BY <2>1, <2>2 DEF DeletesAlone
<1>8. CASE \/ \E timeout \in BOOLEAN : updateStartupHold(timeout)
           \/ dispatchCreates \/ dispatchCreateCleanups
  BY <1>1, <1>8, QuietDeletes DEF updateStartupHold, dispatchCreates,
                                 dispatchCreateCleanups, storeVars
<1>9. CASE dispatchDeletes
  <2>1. /\ UNCHANGED <<instances, ops>> /\ pc = "createLoop" /\ pc' = "deleteLoop"
        /\ \A i \in work' : i \in IDs /\ instances[i].Phase = "PendingDelete"
    BY <1>9 DEF dispatchDeletes, PendingSnapshots, InPhase, storeVars
  <2>2. \A s \in Slots : UnderWay(s)' <=> UnderWay(s)
    BY <1>1, <2>1 DEF UnderWay
  <2>3. \A v : Over(v)' <=> Over(v)
    BY <1>1, <2>1 DEF Over
  <2>4. ASSUME NEW i \in work', NEW s \in Slots, ops'[s].pc \in DeletePcs
        PROVE  ops'[s].vapp # instances'[i].ID
    <3>1. SUFFICES ASSUME ops[s].vapp = instances[i].ID PROVE FALSE
      BY <2>1
    <3>2. ~ Over(ops[s].vapp)
      BY <2>1, <2>4, <3>1 DEF Over
    <3>3. UnderWay(s) => ops[s].intent = i
      BY <2>1, <2>4, <3>1, DeleteHasVApp DEF IInv, IndexConsistent
    <3>. QED  BY <2>1, <2>4, <3>2, <3>3 DEF DeletesAlone, UnderWay
  <2>5. \A s \in Slots : ops'[s].pc \in DeletePcs => UnderWay(s)' \/ Over(ops[s].vapp)'
    BY <2>1, <2>2, <2>3 DEF DeletesAlone, Over
  <2>. QED  BY <2>1, <2>4, <2>5 DEF DeletesAlone
<1>10. ASSUME NEW i \in Intents, NEW s \in Slots, DispatchCreate(i, s)
      PROVE  DeletesAlone'
  <2>1. Becomes(s, "init", i, None)
    BY <1>1, <1>10, NewOpBecomes DEF DispatchCreate
  <2>. QED  BY <1>1, <1>10, <2>1, QuietDeletes, DispatchCreateEffect
            DEF DispatchCreate, Becomes, DeletePcs, Sets
<1>11. ASSUME NEW i \in IDs, NEW s \in Slots, DispatchDelete(i, s)
      PROVE  DeletesAlone'
  <2>1. PICK v \in VApps : v = instances[i].ID
    BY <1>11, DispatchDeleteEffect
  <2>2. /\ Sets(i, "Deleting", v) /\ byVAppHREF[v] = i
        /\ pc = "deleteLoop" /\ pc' = pc /\ i \in work /\ work' = work \ {i}
    BY <1>11, <2>1, DispatchDeleteEffect DEF DispatchDelete
  <2>3. Becomes(s, "delete", i, v)
    <3>1. ops' = [ops EXCEPT ![s] = NewOp("delete", i, v)]
      BY <1>11, <2>1 DEF DispatchDelete
    <3>. QED  BY <1>1, <3>1, NewOpBecomes
  <2>4. \A t \in Slots : ops[t].pc \in DeletePcs => ops[t].vapp # v
    BY <2>1, <2>2 DEF DeletesAlone
  <2>5. UnderWay(s)'
    BY <1>1, <2>2, <2>3 DEF UnderWay, Sets, Becomes
  <2>6. ASSUME NEW t \in Slots, t # s, ops'[t].pc \in DeletePcs
        PROVE  UnderWay(t)' \/ Over(ops[t].vapp)'
    <3>1. PICK x \in VApps, j \in IDs :
             /\ x = ops[t].vapp /\ x = ops'[t].vapp /\ j = ops[t].intent /\ j = ops'[t].intent
             /\ ops[t].pc \in DeletePcs /\ x # v
             /\ UnderWay(t) => instances[j].ID = x
      BY <2>3, <2>4, <2>6, DeleteHasVApp DEF Becomes
    <3>2. CASE UnderWay(t)
      BY <1>1, <2>1, <2>2, <3>1, <3>2 DEF UnderWay, Sets
    <3>3. CASE Over(ops[t].vapp)
      <4>1. Over(x)'
        BY <1>1, <2>1, <2>2, <3>1, <3>3 DEF Over, Sets
      <4>. QED  BY <3>1, <4>1 DEF Over
    <3>. QED  BY <3>1, <3>2, <3>3 DEF DeletesAlone
  <2>7. \A t, u \in Slots : t # u /\ ops'[t].pc \in DeletePcs /\ ops'[u].pc \in DeletePcs =>
           ops'[t].vapp # ops'[u].vapp
    BY <2>3, <2>4 DEF Becomes, DeletesAlone
  <2>8. ASSUME NEW j \in work', NEW t \in Slots, ops'[t].pc \in DeletePcs
        PROVE  ops'[t].vapp # instances'[j].ID
    <3>1. j \in IDs /\ j # i /\ j \in work /\ instances'[j] = instances[j] /\ instances[j].ID # v
      BY <1>1, <2>2, <2>8 DEF Sets, IInv, IndexConsistent, WorkFresh
    <3>. QED  BY <2>2, <2>3, <2>8, <3>1 DEF Becomes, DeletesAlone
  <2>. QED  BY <2>5, <2>6, <2>7, <2>8 DEF DeletesAlone
<1>12. ASSUME NEW v \in VApps, NEW s \in Slots, DispatchCleanup(v, s)
      PROVE  DeletesAlone'
  <2>1. Becomes(s, "cleanup", None, v)
    BY <1>1, <1>12, NewOpBecomes DEF DispatchCleanup
  <2>. QED  BY <1>1, <1>12, <2>1, QuietDeletes
            DEF DispatchCleanup, storeVars, Becomes, DeletePcs
<1>13. CASE GCAndPrune
  BY <1>1, <1>13, QuietDeletes, GCAndPruneEffect DEF GCAndPrune
<1>. QED  BY <1>2, <1>3, <1>4, <1>5, <1>6, <1>7, <1>8, <1>9, <1>10, <1>11, <1>12, <1>13
          DEF reconcileOnce

\* The vApp of a create has no delete.
LEMMA CreateKeepsDeletes ==
    ASSUME IInv, DeletesAlone, NEW s \in Slots, doCreate(s)
    PROVE  DeletesAlone'
<1>1. ops \in [Slots -> Op] /\ vcd \in [VApps -> VAppStates] /\ work \subseteq IDs
  BY DEF IInv, Types
<1>2. UNCHANGED <<pc, cur, work, known>> /\ \A v \in VApps : Listed(v)' <=> Listed(v)
  BY DEF doCreate, CreatePreludeFails, ChooseName, createRawVApp, AddMetadata, BuildVM,
         Abort, Disown, CreateReturnsError, CreateReturnsOK, createRecorded, loopVars, Listed
<1>3. \A t \in Slots : ops'[t] = ops[t] \/ ops'[t].pc \notin DeletePcs
  <2>1. CASE \E v \in VApps : ChooseName(s, v)
    BY <1>1, <2>1 DEF ChooseName, Op, DeletePcs
  <2>2. CASE CreateReturnsError(s) \/ createRecorded(s)
    BY <1>1, <2>2, releaseFrees DEF CreateReturnsError, createRecorded, Becomes, DeletePcs
  <2>3. CASE \/ CreatePreludeFails(s) \/ Abort(s) \/ Disown(s) \/ CreateReturnsOK(s)
             \/ (\E ok \in BOOLEAN : BuildVM(s, ok))
             \/ (\E ok \in BOOLEAN, state \in VAppStates : createRawVApp(s, ok, state))
             \/ (\E ok \in BOOLEAN, state \in VAppStates : AddMetadata(s, ok, state))
    BY <1>1, <2>3, GotoMoves DEF CreatePreludeFails, Abort, Disown, CreateReturnsOK, BuildVM,
                                 createRawVApp, AddMetadata, Moves, DeletePcs
  <2>. QED  BY <2>1, <2>2, <2>3 DEF doCreate
<1>4. ASSUME NEW v \in VApps, ~ Owned(v)
      PROVE  vcd'[v] = vcd[v]
  <2>1. ops[s].vapp = v => ops[s].pc \notin {"post", "meta"}
    BY <1>4 DEF Owned, OwningPcs
  <2>. QED  BY <1>1, <2>1 DEF doCreate, CreatePreludeFails, ChooseName, createRawVApp, AddMetadata,
         BuildVM, Abort, Disown, CreateReturnsError, CreateReturnsOK, createRecorded
<1>5. \A v \in VApps : ~ Owned(v) => (Seen(v) => Seen(v)')
  BY <1>2, <1>4 DEF Seen
<1>6. CASE instances' = instances
  BY <1>2, <1>3, <1>4, <1>5, <1>6, QuietDeletes
<1>7. CASE CreateReturnsError(s)
  BY <1>1, <1>2, <1>3, <1>4, <1>5, <1>7, QuietDeletes, CreateReturnsErrorEffect DEF Sets
<1>8. CASE CreateReturnsOK(s)
  <2>1. Owned(ops[s].vapp)
    BY <1>8 DEF CreateReturnsOK, Owned, OwningPcs
  <2>2. pc = "deleteLoop" => ops[s].intent \notin work
    BY <1>8, CreateReturnsOKEffect DEF IInv, WorkFresh
  <2>. QED  BY <1>1, <1>2, <1>3, <1>4, <1>5, <1>8, <2>1, <2>2, QuietDeletes,
               CreateReturnsOKEffect DEF Sets
<1>. QED  BY <1>6, <1>7, <1>8 DEF doCreate, CreatePreludeFails, ChooseName, createRawVApp,
         AddMetadata, BuildVM, Abort, Disown, createRecorded, storeVars

\* A delete that ends leaves its entry Deleted or pending once more.
LEMMA DeleteKeepsDeletes ==
    ASSUME IInv, DeletesAlone, NEW s \in Slots, doDelete(s) \/ doCleanup(s)
    PROVE  DeletesAlone'
<1>1. ops \in [Slots -> Op] /\ vcd \in [VApps -> VAppStates] /\ work \subseteq IDs
  BY DEF IInv, Types
<1>2. UNCHANGED <<pc, cur, work, known>> /\ \A v \in VApps : Listed(v)' <=> Listed(v)
  BY DEF doDelete, deleteInstance, DeleteReturnsError, DeleteReturnsOK, doCleanup,
         cleanUpInstanceByName, CleanupReturns, loopVars, Listed
<1>3. \A v \in VApps : vcd'[v] \in {vcd[v], "absent"}
  BY <1>1 DEF doDelete, deleteInstance, DeleteReturnsError, DeleteReturnsOK, doCleanup,
              cleanUpInstanceByName, CleanupReturns
<1>4. \A v \in VApps : Seen(v) => Seen(v)'
  BY <1>2, <1>3 DEF Seen
<1>5. CASE \/ \E ok, gone \in BOOLEAN : deleteInstance(s, ok, gone)
           \/ \E ok, gone \in BOOLEAN : cleanUpInstanceByName(s, ok, gone)
  <2>1. PICK at : Moves(s, at) /\ (at \in DeletePcs => ops[s].pc \in DeletePcs)
    BY <1>1, <1>5, GotoMoves DEF deleteInstance, cleanUpInstanceByName, DeletePcs
  <2>2. instances' = instances
    BY <1>5 DEF deleteInstance, cleanUpInstanceByName, storeVars
  <2>. QED  BY <1>2, <1>3, <1>4, <2>1, <2>2, QuietDeletes DEF Moves
<1>6. CASE CleanupReturns(s)
  <2>1. Becomes(s, "free", None, None)
    BY <1>1, <1>6, releaseFrees DEF CleanupReturns
  <2>. QED  BY <1>2, <1>3, <1>4, <1>6, <2>1, QuietDeletes
            DEF CleanupReturns, storeVars, Becomes, DeletePcs
<1>7. ASSUME NEW ph, DeleteRecords(s, ph), ops[s].pc \in DeletePcs, release(s)
      PROVE  DeletesAlone'
  <2>1. Becomes(s, "free", None, None)
    BY <1>1, <1>7, releaseFrees
  <2>2. \A t \in Slots : ops'[t].pc \in DeletePcs =>
           ops'[t] = ops[t] /\ t # s /\ ops[t].vapp # ops[s].vapp
    BY <1>7, <2>1 DEF Becomes, DeletePcs, DeletesAlone
  <2>3. \A i \in IDs : /\ instances'[i].ID = instances[i].ID
                       /\ instances'[i] = instances[i] \/ instances[i].ID = ops[s].vapp
    BY <1>7 DEF DeleteRecords, Sets
  <2>4. ASSUME NEW t \in Slots, ops'[t].pc \in DeletePcs
        PROVE  UnderWay(t)' \/ Over(ops[t].vapp)'
    <3>1. PICK x \in VApps, j \in IDs :
             /\ x = ops[t].vapp /\ x = ops'[t].vapp /\ j = ops[t].intent /\ j = ops'[t].intent
             /\ ops[t].pc \in DeletePcs /\ x # ops[s].vapp
             /\ UnderWay(t) => instances[j].ID = x
      BY <2>2, <2>4, DeleteHasVApp
    <3>2. CASE UnderWay(t)
      <4>1. Seen(x)' /\ instances'[j].Phase = "Deleting"
        BY <1>4, <2>3, <3>1, <3>2 DEF UnderWay
      <4>. QED  BY <3>1, <4>1 DEF UnderWay, Seen
    <3>3. CASE Over(ops[t].vapp)
      <4>1. Over(x)'
        BY <1>2, <1>3, <2>3, <3>1, <3>3 DEF Over
      <4>. QED  BY <3>1, <4>1 DEF Over, Listed
    <3>. QED  BY <3>1, <3>2, <3>3 DEF DeletesAlone
  <2>. QED  BY <1>1, <1>2, <2>2, <2>3, <2>4 DEF DeletesAlone
<1>8. CASE DeleteReturnsError(s) \/ DeleteReturnsOK(s)
  BY <1>7, <1>8, DeleteReturnsEffect DEF DeleteReturnsError, DeleteReturnsOK, DeletePcs
<1>. QED  BY <1>5, <1>6, <1>8 DEF doDelete, doCleanup

\* Decrease marks only Running entries.
LEMMA EnvironmentKeepsDeletes ==
    ASSUME IInv, DeletesAlone, Environment
    PROVE  DeletesAlone'
<1>1. ops \in [Slots -> Op] /\ vcd \in [VApps -> VAppStates] /\ work \subseteq IDs
  BY DEF IInv, Types
<1>2. ASSUME NEW i \in IDs, (i \in Intents /\ Increase(i)) \/ Decrease(i)
      PROVE  DeletesAlone'
  <2>1. UNCHANGED <<vcd, ops, pc, work, cur, known>>
    BY <1>2 DEF Increase, Decrease, loopVars
  <2>2. \A v \in VApps : (Listed(v)' <=> Listed(v)) /\ (Seen(v)' <=> Seen(v))
    BY <2>1 DEF Listed, Seen
  <2>. QED  BY <1>1, <1>2, <2>1, <2>2, QuietDeletes, IncreaseEffect, DecreaseEffect
<1>3. ASSUME NEW v \in VApps, LateCommit(v) \/ VAppVanishes(v)
      PROVE  DeletesAlone'
  <2>1. UNCHANGED <<instances, ops, pc, work, cur, known>>
    BY <1>3 DEF LateCommit, VAppVanishes, storeVars, loopVars
  <2>2. \A x \in VApps : /\ vcd[x] = "absent" => vcd'[x] = "absent"
                         /\ vcd'[x] = "tagged" => vcd[x] = "tagged"
    BY <1>1, <1>3 DEF LateCommit, VAppVanishes
  <2>3. \A x \in VApps : (Listed(x)' <=> Listed(x)) /\ (Seen(x) => Seen(x)')
    BY <2>1, <2>2 DEF Listed, Seen
  <2>. QED  BY <2>1, <2>2, <2>3, QuietDeletes
<1>4. CASE CooldownEnds
  BY <1>4, QuietDeletes DEF CooldownEnds, storeVars, loopVars, Listed, Seen
<1>5. ASSUME NEW sent \in SUBSET VApps, Restart(sent)
      PROVE  DeletesAlone'
  <2>1. ops' = [t \in Slots |-> Free] /\ pc' = "idle"
    BY <1>5 DEF Restart
  <2>. QED  BY <2>1 DEF Free, DeletesAlone, DeletePcs
<1>. QED  BY <1>2, <1>3, <1>4, <1>5 DEF Environment, IDs

\* Where a listing is complete, a delete stays the only one of its vApp.
LEMMA DeletesHold ==
    ASSUME ~ ListingMayOmit
    PROVE  Spec => []DeletesAlone
<1>1. Init => DeletesAlone
  BY DEF Init, Free, DeletesAlone, DeletePcs
<1>2. IInv /\ StatesKnown /\ DeletesAlone /\ [Next]_vars => DeletesAlone'
  <2>1. ASSUME IInv, DeletesAlone, UNCHANGED vars
        PROVE  DeletesAlone'
    BY <2>1, QuietDeletes DEF vars, storeVars, loopVars, Listed, Seen
  <2>. QED  BY <2>1, LoopKeepsDeletes, CreateKeepsDeletes, DeleteKeepsDeletes,
               EnvironmentKeepsDeletes
            DEF Next
<1>. QED  BY <1>1, <1>2, InvariantHolds, StatesHold, PTL DEF Spec

\* A create runs once per intent, and a vApp is deleted by one goroutine at a time:
\* dispatchCreates and dispatchDeletes move the entry on before they start the
\* goroutine, and dispatchCreateCleanups passes over the names it has in flight; a
\* delete and a cleanup meet only on a vApp whose cleanup was once given up.
\* Where searches may omit vApps this fails: after missedPollsBeforeDisappeared
\* omissions the entry of a delete in progress is pruned and the vApp adopted anew.
THEOREM OneAtATime ==
    ASSUME ~ ListingMayOmit
    PROVE  Spec => []OneOperationEach
<1>1. CreatesAlone /\ CleanupsAlone /\ DeletesAlone => OneOperationEach
  <2>. SUFFICES ASSUME CreatesAlone, CleanupsAlone, DeletesAlone,
                       NEW s \in Slots, NEW t \in Slots, s # t
                PROVE  /\ {s, t} \subseteq OpsAt(CreatePcs) => ops[s].intent # ops[t].intent
                       /\ /\ {s, t} \subseteq OpsAt({"delete", "cleanup"})
                          /\ ops[s].vapp = ops[t].vapp
                          => ops[s].pc # ops[t].pc /\ ops[s].vapp \in forgotten
    BY DEF OneOperationEach
  <2>1. {s, t} \subseteq OpsAt(CreatePcs) => ops[s].intent # ops[t].intent
    BY DEF OpsAt, CreatesAlone
  <2>2. ASSUME {s, t} \subseteq OpsAt({"delete", "cleanup"}), ops[s].vapp = ops[t].vapp
        PROVE  ops[s].pc # ops[t].pc /\ ops[s].vapp \in forgotten
    <3>1. ops[s].pc \in {"delete", "cleanup"} /\ ops[t].pc \in {"delete", "cleanup"}
      BY <2>2 DEF OpsAt
    <3>2. ops[s].pc # ops[t].pc
      BY <2>2, <3>1 DEF CleanupsAlone, CleanupsApart, DeletesAlone, DeletePcs, CleanupPcs
    <3>. QED  BY <2>2, <3>1, <3>2 DEF CleanupsAlone, CleanupsApart, DeletePcs, CleanupPcs
  <2>. QED  BY <2>1, <2>2
<1>. QED  BY <1>1, CreatesHold, CleanupsHold, DeletesHold, PTL

-----------------------------------------------------------------------------
(* The startup hold.                                                       *)

\* v has an entry, and one that does not say it is gone.
Adopted(v) == instances[v].Phase \notin {"Untracked", "Deleted"}

\* The vApps of earlier runs belong to no create of this run, and none that is
\* there is taken for gone.
OldApart ==
    /\ \A v \in old : v \notin inflightCreates \cup failedCreateCleanups
    /\ \A i \in Intents : instances[i].ID \notin old
    /\ \A v \in old : /\ Seen(v)
                      /\ instances[v].Phase = "Deleted" => vcd[v] # "tagged"

\* After a complete poll every labelled one has been adopted.
OldAdopted ==
    /\ startup = "held" => \A v \in old : vcd[v] = "tagged" => Adopted(v)
    /\ startup = "unpolled" /\ pollOK /\ pc \in PollPcs \cup {"hold"} =>
          \A v \in old : vcd[v] = "tagged" => Adopted(v) \/ Listed(v)

OldKept == OldApart /\ OldAdopted

\* The vApp of an earlier run has no entry but one under its own HREF.
LEMMA OldEntry ==
    ASSUME IInv, OldKept, NEW v \in old
    PROVE  /\ v \in VApps /\ v \in IDs /\ ~ Owned(v)
           /\ byVAppHREF[v] # None => byVAppHREF[v] = v /\ Tracked(v)
<1>1. v \in VApps /\ v \in IDs
  BY DEF IInv, Types, IDs
<1>2. ~ Owned(v)
  BY OwnedApart DEF OldKept, OldApart
<1>3. byVAppHREF[v] # None => byVAppHREF[v] = v /\ Tracked(v)
  <2>1. SUFFICES ASSUME byVAppHREF[v] # None PROVE byVAppHREF[v] = v /\ Tracked(v)
    OBVIOUS
  <2>2. /\ byVAppHREF[v] \in IDs /\ Tracked(byVAppHREF[v]) /\ instances[byVAppHREF[v]].ID = v
    BY <1>1, <2>1 DEF IInv, Types, StoreTypeOK, IndexConsistent
  <2>3. byVAppHREF[v] \in VApps
    BY <2>2 DEF OldKept, OldApart, IDs
  <2>4. instances[byVAppHREF[v]].ID = byVAppHREF[v]
    BY <2>2, <2>3 DEF IInv, EntryShape, Tracked
  <2>. QED  BY <2>2, <2>4
<1>. QED  BY <1>1, <1>2, <1>3

\* A step of a goroutine other than the loop, or of the environment.
LEMMA QuietOld ==
    ASSUME IInv, OldKept, UNCHANGED <<pc, work, cur, known, pollOK, startup>>,
           old' \subseteq old,
           \A v \in old' : /\ v \notin inflightCreates' \cup failedCreateCleanups'
                           /\ vcd'[v] = "tagged" => vcd[v] = "tagged"
                           /\ Adopted(v) => Adopted(v)' \/ vcd'[v] # "tagged"
                           /\ instances'[v].Phase = "Deleted" =>
                                 instances[v].Phase = "Deleted" \/ vcd'[v] # "tagged",
           \A i \in Intents : instances'[i].ID \notin old'
    PROVE  OldKept'
<1>1. OldApart'
  BY DEF OldKept, OldApart, Seen
<1>2. \A v \in old' : Listed(v)' <=> Listed(v)
  BY DEF Listed
<1>3. OldAdopted'
  BY <1>2 DEF OldKept, OldAdopted
<1>. QED  BY <1>1, <1>3 DEF OldKept

\* A poll that succeeds adopts every labelled vApp of an earlier run.
LEMMA LoopKeepsOld ==
    ASSUME IInv, OldKept, ~ ListingMayOmit, reconcileOnce
    PROVE  OldKept'
<1>. USE DEF Listed, PollPcs, Seen
<1>1. UNCHANGED <<vcd, inflightCreates, failedCreateCleanups, old>>
  BY DEF reconcileOnce, PollFails, SearchByFilter, readListedVApps, PollTracked,
         PollUntracked, ownsVApp, PollAdopts, PollEnds, updateStartupHold,
         dispatchCreates, DispatchCreate, dispatchDeletes, DispatchDelete,
         dispatchCreateCleanups, DispatchCleanup, GCAndPrune, ownerVars, ghostVars
<1>2. old \subseteq VApps /\ old \subseteq IDs
  BY DEF IInv, Types, IDs
<1>3. CASE PollFails \/ SearchByFilter
  BY <1>1, <1>2, <1>3 DEF PollFails, SearchByFilter, storeVars, OldKept, OldApart, OldAdopted,
                          Adopted
<1>4. ASSUME NEW unread \in SUBSET work, readListedVApps(unread)
      PROVE  OldKept'
  <2>1. /\ pc = "read" /\ pc' = "poll" /\ UNCHANGED <<instances, startup>>
        /\ work' = {v \in work \ unread : Exists(v)} /\ known' = unread \cup {v \in work : Exists(v)}
        /\ pollOK' = (unread = {})
    BY <1>4 DEF readListedVApps, storeVars
  <2>2. \A v \in old : vcd[v] = "tagged" => v \in known'
    BY <2>1 DEF OldKept, OldApart, Exists
  <2>3. OldApart'
    BY <1>1, <2>1, <2>2 DEF OldKept, OldApart
  <2>4. unread = {} => \A v \in old : vcd[v] = "tagged" => v \in work'
    BY <2>1 DEF OldKept, OldApart, Exists
  <2>5. OldAdopted'
    BY <1>1, <2>1, <2>4 DEF OldKept, OldAdopted, Adopted
  <2>. QED  BY <2>3, <2>5 DEF OldKept
<1>5. ASSUME NEW v \in VApps, NEW vmRead \in BOOLEAN, PollTracked(v, vmRead)
      PROVE  OldKept'
  <2>1. /\ byVAppHREF[v] # None /\ work' = work \ {v}
        /\ UNCHANGED <<pc, cur, known, pollOK, startup>> /\ pc = "poll"
        /\ \A i \in IDs : /\ instances'[i].Phase = instances[i].Phase
                          /\ instances'[i].ID = instances[i].ID
    BY <1>5, PollTrackedEffect DEF PollTracked
  <2>2. v \in old /\ vcd[v] = "tagged" => Adopted(v)
    BY <2>1, OldEntry DEF OldKept, OldApart, Adopted, Tracked
  <2>3. OldApart'
    BY <1>1, <1>2, <2>1 DEF OldKept, OldApart, IDs
  <2>4. OldAdopted'
    BY <1>1, <1>2, <2>1, <2>2 DEF OldKept, OldAdopted, Adopted
  <2>. QED  BY <2>3, <2>4 DEF OldKept
<1>6. CASE (\E v \in VApps : PollUntracked(v)) \/ ownsVApp
  <2>1. UNCHANGED <<instances, known, pollOK, startup>> /\ pc \in PollPcs /\ pc' \in PollPcs
    BY <1>6 DEF PollUntracked, ownsVApp, storeVars
  <2>2. \A v \in old : Listed(v) => Listed(v)'
    BY <1>6 DEF PollUntracked, ownsVApp, OldKept, OldApart
  <2>3. OldApart'
    BY <1>1, <1>2, <2>1 DEF OldKept, OldApart
  <2>4. OldAdopted'
    BY <1>1, <1>2, <2>1, <2>2 DEF OldKept, OldAdopted, Adopted
  <2>. QED  BY <2>3, <2>4 DEF OldKept
<1>7. CASE PollAdopts
  <2>1. PICK v \in VApps : v = cur /\ v \in IDs
    BY <1>7, PollAdoptsEffect
  <2>2. /\ UNCHANGED <<known, pollOK, startup, work>> /\ pc = "adopt" /\ pc' = "poll"
        /\ \A i \in IDs : i # v => instances'[i] = instances[i]
        /\ byVAppHREF[v] # None => instances'[v] = instances[v]
        /\ byVAppHREF[v] = None => instances'[v].Phase = "PendingDelete"
    BY <1>7, <2>1, PollAdoptsEffect DEF PollAdopts
  <2>3. v \in old /\ vcd[v] = "tagged" => Adopted(v)'
    <3>1. v \in old /\ vcd[v] = "tagged" /\ byVAppHREF[v] # None => Adopted(v)
      BY OldEntry DEF OldKept, OldApart, Adopted, Tracked
    <3>. QED  BY <2>2, <3>1 DEF Adopted
  <2>4. OldApart'
    BY <1>1, <1>2, <2>1, <2>2, StoreAssumption DEF OldKept, OldApart, IDs
  <2>5. OldAdopted'
    BY <1>1, <1>2, <2>1, <2>2, <2>3 DEF OldKept, OldAdopted, Adopted
  <2>. QED  BY <2>4, <2>5 DEF OldKept
<1>8. CASE PollEnds
  <2>1. /\ UNCHANGED <<pollOK, startup, work>> /\ pc = "poll" /\ pc' = "hold" /\ work = {}
        /\ \A i \in IDs : instances'[i] = instances[i] \/ Misses(i)
    BY <1>8, PollEndsEffect DEF PollEnds
  <2>2. \A i \in IDs : instances'[i].ID = instances[i].ID
    BY <2>1 DEF Misses
  <2>3. \A v \in old : vcd[v] = "tagged" => instances'[v].Phase = instances[v].Phase
    <3>1. SUFFICES ASSUME NEW v \in old, vcd[v] = "tagged", Misses(v), v \in IDs, v \in VApps
                   PROVE  FALSE
      BY <1>2, <2>1
    <3>2. v \in known /\ instances[v].ID = v
      BY <2>1, <3>1 DEF OldKept, OldApart, IInv, EntryShape, Misses
    <3>. QED  BY <3>1, <3>2 DEF Misses
  <2>4. OldApart'
    BY <1>1, <1>2, <2>1, <2>2, <2>3 DEF OldKept, OldApart, IDs
  <2>5. OldAdopted'
    BY <1>1, <2>1, <2>3 DEF OldKept, OldAdopted, Adopted
  <2>. QED  BY <2>4, <2>5 DEF OldKept
<1>9. ASSUME NEW timeout \in BOOLEAN, updateStartupHold(timeout)
      PROVE  OldKept'
  <2>1. /\ UNCHANGED <<instances, work, cur, known>> /\ pc = "hold" /\ pc' = "dispatchCreates"
        /\ startup' = "held" => startup = "held" \/ (startup = "unpolled" /\ pollOK)
    BY <1>9 DEF updateStartupHold, storeVars, IInv, Types
  <2>2. OldApart'
    BY <1>1, <1>2, <2>1 DEF OldKept, OldApart
  <2>3. OldAdopted'
    BY <1>1, <1>2, <2>1 DEF OldKept, OldAdopted, Adopted
  <2>. QED  BY <2>2, <2>3 DEF OldKept
<1>10. CASE dispatchCreates \/ dispatchDeletes \/ dispatchCreateCleanups
            \/ \E v \in VApps, s \in Slots : DispatchCleanup(v, s)
  BY <1>1, <1>2, <1>10 DEF dispatchCreates, dispatchDeletes, dispatchCreateCleanups,
        DispatchCleanup, storeVars, OldKept, OldApart, OldAdopted, Adopted
<1>11. ASSUME NEW i \in Intents, NEW s \in Slots, DispatchCreate(i, s)
      PROVE  OldKept'
  <2>1. /\ UNCHANGED <<pc, cur, known, pollOK, startup>> /\ pc = "createLoop"
        /\ instances'[i].ID = None /\ i \notin VApps /\ None \notin old
        /\ \A j \in IDs : j # i => instances'[j] = instances[j]
    BY <1>2, <1>11, DispatchCreateEffect, StoreAssumption DEF DispatchCreate, Sets
  <2>. QED  BY <1>1, <1>2, <2>1 DEF OldKept, OldApart, OldAdopted, Adopted, IDs
<1>12. ASSUME NEW i \in IDs, NEW s \in Slots, DispatchDelete(i, s)
      PROVE  OldKept'
  <2>1. /\ UNCHANGED <<pc, cur, known, pollOK, startup>> /\ pc = "deleteLoop"
        /\ instances'[i].ID = instances[i].ID /\ instances'[i].Phase = "Deleting"
        /\ \A j \in IDs : j # i => instances'[j] = instances[j]
    BY <1>12, DispatchDeleteEffect DEF DispatchDelete, Sets
  <2>. QED  BY <1>1, <1>2, <2>1 DEF OldKept, OldApart, OldAdopted, Adopted, IDs
<1>13. CASE GCAndPrune
  <2>1. UNCHANGED <<cur, known, pollOK, startup>> /\ pc = "cleanupLoop" /\ pc' = "idle"
    BY <1>13 DEF GCAndPrune
  <2>2. \A i \in IDs : instances'[i].ID \in {instances[i].ID, None}
    BY <1>13, GCAndPruneEffect
  <2>3. \A v \in old : /\ instances'[v].Phase = "Deleted" => instances[v].Phase = "Deleted"
                       /\ Adopted(v) => Adopted(v)'
    BY <1>2, <1>13, GCAndPruneEffect DEF Adopted
  <2>4. None \notin old
    BY <1>2, StoreAssumption
  <2>. QED  BY <1>1, <1>2, <2>1, <2>2, <2>3, <2>4 DEF OldKept, OldApart, OldAdopted, IDs
<1>. QED  BY <1>3, <1>4, <1>5, <1>6, <1>7, <1>8, <1>9, <1>10, <1>11, <1>12, <1>13
          DEF reconcileOnce

\* A create takes a name that nothing refers to.
LEMMA CreateKeepsOld ==
    ASSUME IInv, OldKept, NEW s \in Slots, doCreate(s)
    PROVE  OldKept'
<1>1. /\ ops \in [Slots -> Op] /\ vcd \in [VApps -> VAppStates]
      /\ old \subseteq VApps /\ old \subseteq IDs /\ None \notin old /\ Intents \subseteq IDs
      /\ \A v \in VApps : v \notin Intents
  BY StoreAssumption DEF IInv, Types, IDs
<1>2. UNCHANGED <<pc, work, cur, known, pollOK, startup>>
  BY DEF doCreate, CreatePreludeFails, ChooseName, createRawVApp, AddMetadata, BuildVM,
         Abort, Disown, CreateReturnsError, CreateReturnsOK, createRecorded, loopVars
<1>3. old' \subseteq old
  BY DEF doCreate, CreatePreludeFails, ChooseName, createRawVApp, AddMetadata, BuildVM,
         Abort, Disown, CreateReturnsError, CreateReturnsOK, createRecorded, ghostVars
<1>4. ASSUME NEW v \in old
      PROVE  /\ vcd'[v] = vcd[v]
             /\ v \in old' => v \notin inflightCreates' \cup failedCreateCleanups'
  <2>1. v \in VApps /\ v \notin inflightCreates \cup failedCreateCleanups
    BY <1>1 DEF OldKept, OldApart
  <2>2. ops[s].pc \in OwningPcs => ops[s].vapp # v
    BY <2>1 DEF IInv, VAppOwned
  <2>3. vcd'[v] = vcd[v]
    BY <1>1, <2>1, <2>2 DEF doCreate, CreatePreludeFails, ChooseName, createRawVApp,
         AddMetadata, BuildVM, Abort, Disown, CreateReturnsError, CreateReturnsOK,
         createRecorded, OwningPcs
  <2>4. v \in old' => v \notin inflightCreates' \cup failedCreateCleanups'
    BY <2>1, <2>2 DEF doCreate, CreatePreludeFails, ChooseName, createRawVApp,
         AddMetadata, BuildVM, Abort, Disown, CreateReturnsError, CreateReturnsOK,
         createRecorded, ownerVars, OwningPcs
  <2>. QED  BY <2>3, <2>4
<1>5. CASE instances' = instances
  <2>1. \A v \in old : Adopted(v)' <=> Adopted(v)
    BY <1>5 DEF Adopted
  <2>2. \A i \in Intents : instances'[i].ID \notin old'
    BY <1>3, <1>5 DEF OldKept, OldApart
  <2>. QED  BY <1>2, <1>3, <1>4, <1>5, <2>1, <2>2, QuietOld
<1>6. ASSUME NEW i \in Intents, NEW ph, NEW v, Sets(i, ph, v), v \notin old'
      PROVE  OldKept'
  <2>1. \A x \in old : instances'[x] = instances[x]
    BY <1>1, <1>6 DEF Sets
  <2>2. \A x \in old : Adopted(x)' <=> Adopted(x)
    BY <2>1 DEF Adopted
  <2>3. \A j \in Intents : instances'[j].ID \notin old'
    BY <1>1, <1>3, <1>6 DEF Sets, OldKept, OldApart
  <2>. QED  BY <1>2, <1>3, <1>4, <2>1, <2>2, <2>3, QuietOld
<1>7. CASE CreateReturnsError(s)
  BY <1>1, <1>3, <1>6, <1>7, CreateReturnsErrorEffect
<1>8. CASE CreateReturnsOK(s)
  <2>1. ops[s].vapp \notin old
    BY <1>8 DEF CreateReturnsOK, OldKept, OldApart, IInv, VAppOwned, OwningPcs
  <2>. QED  BY <1>3, <1>6, <1>8, <2>1, CreateReturnsOKEffect
<1>. QED  BY <1>5, <1>7, <1>8 DEF doCreate, CreatePreludeFails, ChooseName, createRawVApp,
         AddMetadata, BuildVM, Abort, Disown, createRecorded, storeVars

\* A leftover is Deleted only once it is gone.
LEMMA DeleteKeepsOld ==
    ASSUME IInv, StatesKnown, OldKept, NEW s \in Slots, doDelete(s) \/ doCleanup(s)
    PROVE  OldKept'
<1>1. /\ ops \in [Slots -> Op] /\ vcd \in [VApps -> VAppStates]
      /\ old \subseteq VApps /\ old \subseteq IDs /\ Intents \subseteq IDs
  BY DEF IInv, Types, IDs
<1>2. UNCHANGED <<pc, work, cur, known, pollOK, startup, old>>
  BY DEF doDelete, deleteInstance, DeleteReturnsError, DeleteReturnsOK, doCleanup,
         cleanUpInstanceByName, CleanupReturns, loopVars, ghostVars
<1>3. /\ \A v \in VApps : vcd'[v] \in {vcd[v], "absent"}
      /\ inflightCreates' = inflightCreates
      /\ failedCreateCleanups' \subseteq failedCreateCleanups
  BY <1>1 DEF doDelete, deleteInstance, DeleteReturnsError, DeleteReturnsOK, doCleanup,
              cleanUpInstanceByName, CleanupReturns, ownerVars
<1>4. \A v \in old : /\ v \notin inflightCreates' \cup failedCreateCleanups'
                     /\ vcd'[v] = "tagged" => vcd[v] = "tagged"
  BY <1>1, <1>3 DEF OldKept, OldApart
<1>5. CASE instances' = instances
  <2>1. \A v \in old : Adopted(v)' <=> Adopted(v)
    BY <1>5 DEF Adopted
  <2>. QED  BY <1>2, <1>4, <1>5, <2>1, QuietOld DEF OldKept, OldApart
<1>6. ASSUME NEW ph, DeleteRecords(s, ph), ops[s].pc \in DeletePcs,
             ph \in {"PendingDelete", "Deleted"},
             ph = "Deleted" => vcd[ops[s].vapp] = "absent" /\ vcd' = vcd
      PROVE  OldKept'
  <2>1. \A i \in IDs : instances'[i].ID = instances[i].ID
    BY <1>6 DEF DeleteRecords, Sets
  <2>2. ASSUME NEW v \in old
        PROVE  /\ Adopted(v) => Adopted(v)' \/ vcd'[v] # "tagged"
               /\ instances'[v].Phase = "Deleted" =>
                     instances[v].Phase = "Deleted" \/ vcd'[v] # "tagged"
    <3>1. CASE instances'[v] = instances[v]
      BY <3>1 DEF Adopted
    <3>2. CASE instances'[v] # instances[v]
      <4>1. v \in IDs /\ v \in VApps /\ v = ops[s].intent /\ Sets(v, ph, ops[s].vapp)
        BY <1>1, <1>6, <3>2 DEF DeleteRecords, Sets
      <4>2. v = ops[s].vapp
        BY <1>6, <4>1, StoreAssumption DEF IInv, OpShape
      <4>. QED  BY <1>6, <4>1, <4>2 DEF Sets, Adopted
    <3>. QED  BY <3>1, <3>2
  <2>. QED  BY <1>1, <1>2, <1>4, <2>1, <2>2, QuietOld DEF OldKept, OldApart
<1>7. CASE DeleteReturnsError(s)
  BY <1>6, <1>7, DeleteReturnsEffect DEF DeleteReturnsError, DeletePcs
<1>8. CASE DeleteReturnsOK(s)
  <2>1. vcd[ops[s].vapp] = "absent" /\ vcd' = vcd /\ ops[s].pc \in DeletePcs
    BY <1>8 DEF DeleteReturnsOK, StatesKnown, OpState, DeletePcs
  <2>. QED  BY <1>6, <1>8, <2>1, DeleteReturnsEffect
<1>. QED  BY <1>5, <1>7, <1>8 DEF doDelete, deleteInstance, doCleanup, cleanUpInstanceByName,
             CleanupReturns, storeVars

\* A restart turns what is there into leftovers.
LEMMA EnvironmentKeepsOld ==
    ASSUME IInv, OldKept, Environment
    PROVE  OldKept'
<1>1. /\ vcd \in [VApps -> VAppStates] /\ old \subseteq VApps /\ old \subseteq IDs
      /\ None \notin VApps /\ Intents \subseteq IDs /\ \A v \in VApps : v \notin Intents
  BY StoreAssumption DEF IInv, Types, IDs
<1>2. ASSUME NEW i \in IDs, (i \in Intents /\ Increase(i)) \/ Decrease(i)
      PROVE  OldKept'
  <2>1. UNCHANGED <<pc, work, cur, known, pollOK, startup, old, vcd, inflightCreates,
                    failedCreateCleanups>>
    BY <1>2 DEF Increase, Decrease, loopVars, ghostVars, ownerVars
  <2>2. \A v \in old : /\ Adopted(v) => Adopted(v)'
                       /\ instances'[v].Phase = "Deleted" => instances[v].Phase = "Deleted"
    BY <1>1, <1>2, IncreaseEffect, DecreaseEffect DEF Adopted
  <2>3. \A j \in Intents : instances'[j].ID \in {instances[j].ID, None}
    BY <1>1, <1>2, IncreaseEffect, DecreaseEffect
  <2>. QED  BY <1>1, <2>1, <2>2, <2>3, QuietOld DEF OldKept, OldApart
<1>3. ASSUME NEW v \in VApps, LateCommit(v) \/ VAppVanishes(v)
      PROVE  OldKept'
  <2>1. UNCHANGED <<pc, work, cur, known, pollOK, startup, old, instances, inflightCreates,
                    failedCreateCleanups>>
    BY <1>3 DEF LateCommit, VAppVanishes, storeVars, loopVars, ghostVars, ownerVars
  <2>2. \A x \in VApps : vcd'[x] = "tagged" => vcd[x] = "tagged"
    BY <1>1, <1>3 DEF LateCommit, VAppVanishes
  <2>. QED  BY <1>1, <2>1, <2>2, QuietOld DEF OldKept, OldApart, Adopted
<1>4. CASE CooldownEnds
  BY <1>4, QuietOld DEF CooldownEnds, storeVars, loopVars, ghostVars, ownerVars, OldKept,
                        OldApart, Adopted
<1>5. ASSUME NEW sent \in SUBSET VApps, Restart(sent)
      PROVE  OldKept'
  <2>1. /\ inflightCreates' = {} /\ failedCreateCleanups' = {} /\ pc' = "idle"
        /\ pollOK' = FALSE /\ startup' = "unpolled" /\ old' \subseteq VApps
        /\ instances' = [i \in IDs |-> NoInstance]
    BY <1>5 DEF Restart
  <2>2. \A i \in IDs : instances'[i].ID = None /\ instances'[i].Phase = "Untracked"
    BY <2>1 DEF NoInstance, NewInstance
  <2>3. old' \subseteq IDs
    BY <2>1 DEF IDs
  <2>. QED  BY <1>1, <2>1, <2>2, <2>3 DEF OldKept, OldApart, OldAdopted, Seen, PollPcs
<1>. QED  BY <1>2, <1>3, <1>4, <1>5 DEF Environment, IDs

\* Where a listing is complete, no labelled vApp of an earlier run is lost sight of.
LEMMA OldHolds ==
    ASSUME ~ ListingMayOmit
    PROVE  Spec => []OldKept
<1>1. Init => OldKept
  <2>. SUFFICES ASSUME Init PROVE OldKept
    OBVIOUS
  <2>1. \A i \in IDs : instances[i].ID = None /\ instances[i].Phase = "Untracked"
    BY DEF Init, newDesiredStateStore, NoInstance, NewInstance
  <2>2. old \subseteq VApps /\ None \notin VApps /\ old \subseteq IDs /\ Intents \subseteq IDs
    BY ReconcilerAssumption, StoreAssumption DEF Init, IDs
  <2>. QED  BY <2>1, <2>2 DEF Init, OldKept, OldApart, OldAdopted, Seen, PollPcs
<1>2. IInv /\ StatesKnown /\ OldKept /\ [Next]_vars => OldKept'
  <2>1. ASSUME IInv, OldKept, UNCHANGED vars
        PROVE  OldKept'
    BY <2>1, QuietOld DEF vars, storeVars, loopVars, ghostVars, ownerVars, OldKept, OldApart,
                          Adopted
  <2>. QED  BY <2>1, LoopKeepsOld, CreateKeepsOld, DeleteKeepsOld, EnvironmentKeepsOld DEF Next
<1>. QED  BY <1>1, <1>2, InvariantHolds, StatesHold, PTL DEF Spec

\* Only AddLeftover makes an entry for a leftover.
LEMMA OnlyPollsAdopt ==
    ASSUME IInv, Next, NEW v \in VApps, Tracked(v)'
    PROVE  Tracked(v) \/ v = cur
<1>1. v \in IDs /\ v \notin Intents
  BY StoreAssumption DEF IDs
<1>2. CASE reconcileOnce
  <2>1. CASE instances' = instances
    BY <2>1 DEF Tracked
  <2>2. CASE \E x \in VApps, vmRead \in BOOLEAN : PollTracked(x, vmRead)
    BY <1>1, <2>2, PollTrackedEffect DEF Tracked
  <2>3. CASE PollAdopts
    BY <1>1, <2>3, PollAdoptsEffect DEF Tracked
  <2>4. CASE PollEnds
    BY <1>1, <2>4, PollEndsEffect DEF Tracked, Misses
  <2>5. CASE \E i \in Intents, s \in Slots : DispatchCreate(i, s)
    BY <1>1, <2>5, DispatchCreateEffect DEF Tracked, Sets
  <2>6. CASE \E i \in IDs, s \in Slots : DispatchDelete(i, s)
    BY <1>1, <2>6, DispatchDeleteEffect DEF Tracked, Sets, DyingPhases
  <2>7. CASE GCAndPrune
    BY <1>1, <2>7, GCAndPruneEffect DEF Tracked
  <2>. QED  BY <1>2, <2>1, <2>2, <2>3, <2>4, <2>5, <2>6, <2>7
            DEF reconcileOnce, PollFails, SearchByFilter, readListedVApps, PollUntracked, ownsVApp,
                updateStartupHold, dispatchCreates, dispatchDeletes, dispatchCreateCleanups,
                DispatchCleanup, storeVars
<1>3. ASSUME NEW s \in Slots, doCreate(s)
      PROVE  Tracked(v)
  <2>1. CASE instances' = instances
    BY <2>1 DEF Tracked
  <2>2. CASE CreateReturnsError(s) \/ CreateReturnsOK(s)
    BY <1>1, <2>2, CreateReturnsErrorEffect, CreateReturnsOKEffect DEF Tracked, Sets
  <2>. QED  BY <1>3, <2>1, <2>2 DEF doCreate, CreatePreludeFails, ChooseName, createRawVApp,
               AddMetadata, BuildVM, Abort, Disown, createRecorded, storeVars
<1>4. ASSUME NEW s \in Slots, doDelete(s) \/ doCleanup(s)
      PROVE  Tracked(v)
  <2>1. CASE instances' = instances
    BY <2>1 DEF Tracked
  <2>2. CASE DeleteReturnsError(s) \/ DeleteReturnsOK(s)
    BY <1>1, <2>2, DeleteReturnsEffect DEF DeleteRecords, Tracked, Sets, DyingPhases
  <2>. QED  BY <1>4, <2>1, <2>2 DEF doDelete, deleteInstance, doCleanup, cleanUpInstanceByName,
               CleanupReturns, storeVars
<1>5. CASE Environment
  <2>1. CASE instances' = instances
    BY <2>1 DEF Tracked
  <2>2. CASE (\E i \in Intents : Increase(i)) \/ (\E id \in IDs : Decrease(id))
    BY <1>1, <2>2, IncreaseEffect, DecreaseEffect DEF Tracked
  <2>3. ASSUME NEW sent \in SUBSET VApps, Restart(sent)
        PROVE  FALSE
    BY <1>1, <2>3 DEF Restart, Tracked, NoInstance, NewInstance
  <2>. QED  BY <1>5, <2>1, <2>2, <2>3 DEF Environment, LateCommit, VAppVanishes, CooldownEnds,
               storeVars
<1>. QED  BY <1>2, <1>3, <1>4, <1>5 DEF Next

\* The store never has infinitely many leftovers, so that LeftoverCount counts.
FinitelyMany == IsFiniteSet({v \in VApps : Tracked(v)})

\* Leftovers are adopted one at a time.
LEMMA FinitelyManyLeftovers == Spec => []FinitelyMany
<1>1. Init => FinitelyMany
  <2>1. Init => {v \in VApps : Tracked(v)} = {}
    BY DEF Init, newDesiredStateStore, Tracked, NoInstance, NewInstance, IDs
  <2>. QED  BY <2>1, FS_EmptySet DEF FinitelyMany
<1>2. IInv /\ FinitelyMany /\ [Next]_vars => FinitelyMany'
  <2>. DEFINE S == {v \in VApps : Tracked(v)}
  <2>1. ASSUME IInv, FinitelyMany, Next
        PROVE  IsFiniteSet(S')
    <3>1. IsFiniteSet(S \cup {cur})
      BY <2>1, FS_AddElement DEF FinitelyMany
    <3>2. S' \subseteq S \cup {cur}
      BY <2>1, OnlyPollsAdopt
    <3>. QED  BY <3>1, <3>2, FS_Subset
  <2>2. ASSUME FinitelyMany, UNCHANGED vars
        PROVE  IsFiniteSet(S')
    <3>1. S' = S
      BY <2>2 DEF vars, storeVars, Tracked
    <3>. QED  BY <2>2, <3>1 DEF FinitelyMany
  <2>. QED  BY <2>1, <2>2 DEF FinitelyMany
<1>. QED  BY <1>1, <1>2, InvariantHolds, PTL DEF Spec

\* With LeftoverCount at 0 no entry of a leftover is left.
LEMMA NoLeftoverLeft ==
    ASSUME FinitelyMany, LeftoverCount = 0, NEW v \in VApps
    PROVE  ~ Adopted(v)
<1>. DEFINE L == {i \in IDs : Leftover(i) /\ instances[i].Phase \notin {"Untracked", "Deleted"}}
<1>1. L \subseteq {x \in VApps : Tracked(x)}
  BY DEF Leftover, Tracked
<1>2. IsFiniteSet(L) /\ Cardinality(L) = 0
  BY <1>1, FS_Subset DEF FinitelyMany, LeftoverCount
<1>3. L = {}
  BY <1>2, FS_EmptySet
<1>. QED  BY <1>3 DEF Adopted, Leftover, IDs

\* The startup hold ends without a timeout only when every labelled vApp of the
\* previous run is gone, however polls, deletes that fail, other runs' requests
\* and restarts interleave with it (updateStartupHold, src/reconciler.go). Where
\* searches may omit vApps this fails: one that the first poll omits is not held for.
THEOREM HoldOutlastsLeftovers ==
    ASSUME ~ ListingMayOmit
    PROVE  Spec => HoldEndsClean
<1>. DEFINE Ends == startup # "clean" /\ startup' = "clean" =>
                       \A v \in old : vcd[v] # "tagged"
<1>1. ASSUME IInv, OldKept, FinitelyMany, Next
      PROVE  Ends
  <2>1. SUFFICES ASSUME startup # "clean", startup' = "clean", NEW v \in old, vcd[v] = "tagged"
                 PROVE  FALSE
    OBVIOUS
  <2>2. PICK timeout \in BOOLEAN : updateStartupHold(timeout)
    <3>1. CASE reconcileOnce
      BY <2>1, <3>1 DEF reconcileOnce, PollFails, SearchByFilter, readListedVApps, PollTracked,
              PollUntracked, ownsVApp, PollAdopts, PollEnds,
              dispatchCreates, DispatchCreate, dispatchDeletes, DispatchDelete,
              dispatchCreateCleanups, DispatchCleanup, GCAndPrune
    <3>2. CASE \E s \in Slots : doCreate(s)
      BY <2>1, <3>2 DEF doCreate, CreatePreludeFails, ChooseName, createRawVApp, AddMetadata,
              BuildVM, Abort, Disown, CreateReturnsError, CreateReturnsOK, createRecorded
    <3>3. CASE \E s \in Slots : doDelete(s) \/ doCleanup(s)
      BY <2>1, <3>3 DEF doDelete, deleteInstance, DeleteReturnsError, DeleteReturnsOK, doCleanup,
              cleanUpInstanceByName, CleanupReturns
    <3>4. CASE Environment
      BY <2>1, <3>4 DEF Environment, Increase, Decrease, LateCommit, VAppVanishes, CooldownEnds,
              Restart
    <3>. QED  BY <1>1, <3>1, <3>2, <3>3, <3>4 DEF Next
  <2>3. /\ LeftoverCount = 0 /\ pc = "hold"
        /\ startup = "held" \/ (startup = "unpolled" /\ pollOK)
    BY <1>1, <2>1, <2>2 DEF updateStartupHold, IInv, Types
  <2>4. v \in VApps
    BY <1>1, <2>1 DEF IInv, Types
  <2>5. ~ Listed(v)
    BY <2>3 DEF Listed, PollPcs
  <2>6. Adopted(v)
    BY <1>1, <2>1, <2>3, <2>5 DEF OldKept, OldAdopted
  <2>. QED  BY <1>1, <2>3, <2>4, <2>6, NoLeftoverLeft
<1>2. IInv /\ OldKept /\ FinitelyMany /\ [Next]_vars => [Ends]_vars
  BY <1>1
<1>. QED  BY <1>2, InvariantHolds, OldHolds, FinitelyManyLeftovers, PTL DEF Spec, HoldEndsClean

-----------------------------------------------------------------------------
(* No labelled vApp of this run is lost sight of.                          *)

\* A labelled vApp is missed at most once: by a poll that searched before its
\* create labelled it. So only an entry of a vApp that is gone is Deleted.
EntryCounts(i) ==
    /\ instances[i].ID # None /\ vcd[instances[i].ID] = "tagged" =>
          \/ instances[i].MissedPolls = 0
          \/ instances[i].MissedPolls = 1 /\ Seen(instances[i].ID)
    /\ instances[i].Phase = "Deleted" => vcd[instances[i].ID] = "absent"
    /\ instances[i].Phase \in {"PendingCreate", "Creating"} => instances[i].MissedPolls = 0

MissesCount == \A i \in IDs : EntryCounts(i)

\* Where a create holds its vApp's name, or is about to give it up.
NamingPcs == OwningPcs \cup {"record", "disown"}

\* A labelled vApp of this run has an owner, the create, the cleanup or the store,
\* unless its cleanup was given up.
NamesKept ==
    /\ \A v \in VApps \ (old \cup forgotten) : vcd[v] = "tagged" =>
          v \in inflightCreates \cup failedCreateCleanups \/ byVAppHREF[v] # None
    /\ \A s \in Slots :
          /\ ops[s].pc = "record" =>
                vcd[ops[s].vapp] = "absent" \/ byVAppHREF[ops[s].vapp] # None
          /\ ops[s].pc = "disown" =>
                vcd[ops[s].vapp] = "absent" \/ ops[s].vapp \in failedCreateCleanups \cup forgotten
    /\ \A v \in inflightCreates :
          \E s \in Slots : ops[s].pc \in NamingPcs /\ ops[s].vapp = v

\* Entries that keep their HREF and count no miss, and new ones.
LEMMA QuietMisses ==
    ASSUME IInv, MissesCount,
           \A v \in VApps : ~ Owned(v) => /\ vcd[v] = "absent" => vcd'[v] = "absent"
                                          /\ vcd'[v] = "tagged" => vcd[v] = "tagged"
                                          /\ Seen(v) => Seen(v)',
           \A i \in IDs :
              \/ /\ instances'[i].ID = instances[i].ID
                 /\ instances'[i].MissedPolls \in {0, instances[i].MissedPolls}
                 /\ instances'[i].Phase = "Deleted" =>
                       instances[i].Phase = "Deleted" \/ vcd'[instances[i].ID] = "absent"
                 /\ instances'[i].Phase \in {"PendingCreate", "Creating"} =>
                       instances[i].Phase \in {"PendingCreate", "Creating"}
              \/ instances'[i].Phase = "Untracked" /\ instances'[i].ID = None
              \/ instances'[i].MissedPolls = 0 /\ instances'[i].Phase # "Deleted"
    PROVE  MissesCount'
<1>. SUFFICES ASSUME NEW i \in IDs PROVE EntryCounts(i)'
  BY DEF MissesCount
<1>1. EntryCounts(i)
  BY DEF MissesCount
<1>2. instances[i].Phase = "Deleted" => instances[i].ID # None
  BY DEF IInv, EntryShape
<1>3. instances[i].ID # None => instances[i].ID \in VApps /\ ~ Owned(instances[i].ID)
  BY OwnedApart, StoreAssumption DEF IInv, Types, StoreTypeOK, Instance, IndexConsistent, IDs
<1>4. CASE instances'[i].ID = instances[i].ID
  <2>1. CASE instances[i].ID = None
    BY <1>1, <1>2, <1>4, <2>1 DEF EntryCounts
  <2>2. CASE instances[i].ID # None
    <3>1. PICK v \in VApps : v = instances[i].ID /\ v = instances'[i].ID /\ v # None /\ ~ Owned(v)
      BY <1>3, <1>4, <2>2
    <3>2. vcd'[v] = "tagged" =>
             \/ instances'[i].MissedPolls = 0
             \/ instances'[i].MissedPolls = 1 /\ Seen(v)'
      BY <1>1, <3>1 DEF EntryCounts
    <3>3. instances'[i].Phase = "Deleted" => vcd'[v] = "absent"
      BY <1>1, <3>1 DEF EntryCounts
    <3>4. instances'[i].Phase \in {"PendingCreate", "Creating"} => instances'[i].MissedPolls = 0
      BY <1>1, <3>1 DEF EntryCounts
    <3>. QED  BY <3>1, <3>2, <3>3, <3>4 DEF EntryCounts, Seen
  <2>. QED  BY <2>1, <2>2
<1>5. CASE instances'[i].ID # instances[i].ID
  BY <1>5 DEF EntryCounts
<1>. QED  BY <1>4, <1>5

\* A poll that searched after the vApp was labelled finds it.
LEMMA LoopKeepsMisses ==
    ASSUME IInv, StatesKnown, MissesCount, ~ ListingMayOmit, missedPollsBeforeDisappeared > 1,
           reconcileOnce
    PROVE  MissesCount'
<1>. USE DEF PollPcs, Seen
<1>1. vcd' = vcd
  BY DEF reconcileOnce, PollFails, SearchByFilter, readListedVApps, PollTracked,
         PollUntracked, ownsVApp, PollAdopts, PollEnds, updateStartupHold,
         dispatchCreates, DispatchCreate, dispatchDeletes, DispatchDelete,
         dispatchCreateCleanups, DispatchCleanup, GCAndPrune
<1>2. CASE PollFails \/ SearchByFilter
  BY <1>1, <1>2, QuietMisses DEF PollFails, SearchByFilter, storeVars
<1>3. ASSUME NEW unread \in SUBSET work, readListedVApps(unread)
      PROVE  MissesCount'
  BY <1>1, <1>3, QuietMisses DEF readListedVApps, storeVars, Exists
<1>4. CASE \E v \in VApps, vmRead \in BOOLEAN : PollTracked(v, vmRead)
  BY <1>1, <1>4, QuietMisses, PollTrackedEffect DEF PollTracked
<1>5. CASE (\E v \in VApps : PollUntracked(v)) \/ ownsVApp
  BY <1>1, <1>5, QuietMisses DEF PollUntracked, ownsVApp, storeVars
<1>6. CASE PollAdopts
  BY <1>1, <1>6, QuietMisses, PollAdoptsEffect DEF PollAdopts
<1>7. CASE PollEnds
  <2>1. /\ pc = "poll" /\ pc' = "hold"
        /\ \A i \in IDs : instances'[i] = instances[i] \/ Misses(i)
    BY <1>7, PollEndsEffect DEF PollEnds
  <2>2. ASSUME NEW i \in IDs PROVE EntryCounts(i)'
    <3>1. EntryCounts(i)
      BY DEF MissesCount
    <3>2. CASE instances'[i] = instances[i]
      BY <1>1, <2>1, <3>1, <3>2 DEF EntryCounts
    <3>3. CASE Misses(i)
      <4>1. PICK v \in VApps : v = instances[i].ID /\ v \notin known /\ v = instances'[i].ID
        BY <3>3 DEF Misses
      <4>2. LabelledOrGone(v)
        BY <4>1, StoreAssumption DEF IInv, IndexConsistent, StatesKnown, IDs
      <4>3. CASE vcd[v] = "tagged"
        <5>1. instances[i].MissedPolls = 0
          BY <2>1, <3>1, <4>1, <4>3, StoreAssumption DEF EntryCounts
        <5>2. instances'[i].Phase = instances[i].Phase /\ instances'[i].MissedPolls = 1
          BY <3>3, <5>1, StoreAssumption DEF Misses
        <5>. QED  BY <1>1, <2>1, <3>3, <4>1, <5>2 DEF EntryCounts, Misses
      <4>4. CASE vcd[v] = "absent"
        BY <1>1, <3>3, <4>1, <4>4 DEF EntryCounts, Misses
      <4>. QED  BY <4>2, <4>3, <4>4 DEF LabelledOrGone
    <3>. QED  BY <2>1, <3>2, <3>3
  <2>. QED  BY <2>2 DEF MissesCount
<1>8. CASE \/ \E timeout \in BOOLEAN : updateStartupHold(timeout)
           \/ dispatchCreates \/ dispatchDeletes \/ dispatchCreateCleanups
           \/ \E v \in VApps, s \in Slots : DispatchCleanup(v, s)
  BY <1>1, <1>8, QuietMisses DEF updateStartupHold, dispatchCreates, dispatchDeletes,
                                 dispatchCreateCleanups, DispatchCleanup, storeVars
<1>9. ASSUME NEW i \in Intents, NEW s \in Slots, DispatchCreate(i, s)
      PROVE  MissesCount'
  BY <1>1, <1>9, QuietMisses, DispatchCreateEffect DEF DispatchCreate, Sets
<1>10. ASSUME NEW i \in IDs, NEW s \in Slots, DispatchDelete(i, s)
      PROVE  MissesCount'
  BY <1>1, <1>10, QuietMisses, DispatchDeleteEffect DEF DispatchDelete, Sets
<1>11. CASE GCAndPrune
  BY <1>1, <1>11, QuietMisses, GCAndPruneEffect DEF GCAndPrune
<1>. QED  BY <1>2, <1>3, <1>4, <1>5, <1>6, <1>7, <1>8, <1>9, <1>10, <1>11 DEF reconcileOnce

\* A delete that succeeded marks Deleted a vApp that is gone.
LEMMA OperationKeepsMisses ==
    ASSUME IInv, StatesKnown, MissesCount,
           NEW s \in Slots, doCreate(s) \/ doDelete(s) \/ doCleanup(s)
    PROVE  MissesCount'
<1>1. ops \in [Slots -> Op] /\ vcd \in [VApps -> VAppStates]
  BY DEF IInv, Types
<1>2. UNCHANGED <<pc, work, known>>
  BY DEF doCreate, CreatePreludeFails, ChooseName, createRawVApp, AddMetadata, BuildVM,
         Abort, Disown, CreateReturnsError, CreateReturnsOK, createRecorded, doDelete,
         deleteInstance, DeleteReturnsError, DeleteReturnsOK, doCleanup,
         cleanUpInstanceByName, CleanupReturns, loopVars
<1>3. ASSUME NEW v \in VApps, ~ Owned(v)
      PROVE  vcd'[v] \in {vcd[v], "absent"}
  <2>1. ops[s].vapp = v => ops[s].pc \notin {"post", "meta"}
    BY <1>3 DEF Owned, OwningPcs
  <2>2. CASE doCreate(s)
    BY <1>1, <2>1, <2>2 DEF doCreate, CreatePreludeFails, ChooseName, createRawVApp,
         AddMetadata, BuildVM, Abort, Disown, CreateReturnsError, CreateReturnsOK, createRecorded
  <2>3. CASE doDelete(s) \/ doCleanup(s)
    BY <1>1, <2>3 DEF doDelete, deleteInstance, DeleteReturnsError, DeleteReturnsOK, doCleanup,
                      cleanUpInstanceByName, CleanupReturns
  <2>. QED  BY <2>2, <2>3
<1>4. \A v \in VApps : ~ Owned(v) => (Seen(v) => Seen(v)')
  BY <1>2, <1>3 DEF Seen
<1>5. CASE instances' = instances
  BY <1>3, <1>4, <1>5, QuietMisses
<1>6. CASE CreateReturnsError(s)
  BY <1>3, <1>4, <1>6, QuietMisses, CreateReturnsErrorEffect DEF Sets
<1>7. CASE CreateReturnsOK(s)
  <2>1. instances[ops[s].intent].MissedPolls = 0
    BY <1>7, CreateReturnsOKEffect DEF MissesCount, EntryCounts
  <2>. QED  BY <1>3, <1>4, <1>7, <2>1, QuietMisses, CreateReturnsOKEffect DEF Sets
<1>8. CASE DeleteReturnsError(s)
  BY <1>3, <1>4, <1>8, QuietMisses, DeleteReturnsEffect DEF DeleteRecords, Sets
<1>9. CASE DeleteReturnsOK(s)
  <2>1. vcd'[ops[s].vapp] = "absent"
    BY <1>9 DEF DeleteReturnsOK, StatesKnown, OpState
  <2>. QED  BY <1>3, <1>4, <1>9, <2>1, QuietMisses, DeleteReturnsEffect DEF DeleteRecords, Sets
<1>. QED  BY <1>5, <1>6, <1>7, <1>8, <1>9
          DEF doCreate, CreatePreludeFails, ChooseName, createRawVApp, AddMetadata, BuildVM,
              Abort, Disown, createRecorded, doDelete, deleteInstance, doCleanup,
              cleanUpInstanceByName, CleanupReturns, storeVars

\* vCD loses vApps, and nothing else happens.
LEMMA VanishingKeepsMisses ==
    ASSUME IInv, MissesCount, UNCHANGED <<instances, pc, work, known>>,
           \A v \in VApps : vcd'[v] = "tagged" => vcd[v] = "tagged",
           \A v \in VApps : vcd[v] = "absent" => vcd'[v] = "absent"
    PROVE  MissesCount'
<1>1. \A v \in VApps : Seen(v) => Seen(v)'
  BY DEF Seen
<1>. QED  BY <1>1, QuietMisses

\* Nothing outside counts a miss.
LEMMA EnvironmentKeepsMisses ==
    ASSUME IInv, MissesCount, Environment
    PROVE  MissesCount'
<1>1. vcd \in [VApps -> VAppStates]
  BY DEF IInv, Types
<1>2. ASSUME NEW i \in IDs, (i \in Intents /\ Increase(i)) \/ Decrease(i)
      PROVE  MissesCount'
  <2>1. UNCHANGED <<vcd, pc, work, known>>
    BY <1>2 DEF Increase, Decrease, loopVars
  <2>2. \A v \in VApps : Seen(v)' <=> Seen(v)
    BY <2>1 DEF Seen
  <2>. QED  BY <1>2, <2>1, <2>2, QuietMisses, IncreaseEffect, DecreaseEffect
<1>3. ASSUME NEW v \in VApps, LateCommit(v) \/ VAppVanishes(v)
      PROVE  MissesCount'
  BY <1>1, <1>3, VanishingKeepsMisses DEF LateCommit, VAppVanishes, storeVars, loopVars
<1>4. CASE CooldownEnds
  BY <1>4, VanishingKeepsMisses DEF CooldownEnds, storeVars, loopVars
<1>5. ASSUME NEW sent \in SUBSET VApps, Restart(sent)
      PROVE  MissesCount'
  <2>1. \A i \in IDs : instances'[i].ID = None /\ instances'[i].Phase = "Untracked"
    BY <1>5 DEF Restart, NoInstance, NewInstance
  <2>. QED  BY <2>1 DEF MissesCount, EntryCounts
<1>. QED  BY <1>2, <1>3, <1>4, <1>5 DEF Environment, IDs

\* A step that drops no name, and takes from vCD or from the index only what is gone.
LEMMA QuietNames ==
    ASSUME IInv, NamesKept,
           inflightCreates' = inflightCreates, old' = old, forgotten \subseteq forgotten',
           \A v \in VApps :
              /\ vcd'[v] = "tagged" => vcd[v] = "tagged" \/ v \in inflightCreates
              /\ vcd[v] = "absent" => vcd'[v] = "absent" \/ Owned(v)
              /\ byVAppHREF[v] # None => byVAppHREF'[v] # None \/ vcd'[v] = "absent"
              /\ v \in failedCreateCleanups =>
                    v \in failedCreateCleanups' \cup forgotten' \/ vcd'[v] = "absent",
           \A s \in Slots :
              \/ ops'[s] = ops[s]
              \/ /\ ops[s].pc \notin NamingPcs
                 /\ ops'[s].pc \notin NamingPcs
              \/ /\ ops[s].pc \in NamingPcs /\ ops'[s].vapp = ops[s].vapp
                 /\ ops'[s].pc \in OwningPcs
    PROVE  NamesKept'
<1>1. \A v \in VApps \ (old' \cup forgotten') : vcd'[v] = "tagged" =>
         v \in inflightCreates' \cup failedCreateCleanups' \/ byVAppHREF'[v] # None
  BY DEF NamesKept
<1>2. ASSUME NEW s \in Slots, ops'[s].pc \in {"record", "disown"}
      PROVE  /\ ops'[s].pc = "record" =>
                   vcd'[ops'[s].vapp] = "absent" \/ byVAppHREF'[ops'[s].vapp] # None
             /\ ops'[s].pc = "disown" =>
                   \/ vcd'[ops'[s].vapp] = "absent"
                   \/ ops'[s].vapp \in failedCreateCleanups' \cup forgotten'
  <2>1. ops'[s] = ops[s]
    BY <1>2 DEF NamingPcs, OwningPcs
  <2>2. ops[s].vapp \in VApps /\ ~ Owned(ops[s].vapp)
    BY <1>2, <2>1, OwnedApart DEF IInv, OpShape, OwningPcs
  <2>. QED  BY <1>2, <2>1, <2>2 DEF NamesKept
<1>3. \A v \in inflightCreates' : \E s \in Slots : ops'[s].pc \in NamingPcs /\ ops'[s].vapp = v
  BY DEF NamesKept, NamingPcs
<1>. QED  BY <1>1, <1>2, <1>3 DEF NamesKept

\* The index loses an entry only to Prune, once it is Deleted.
LEMMA LoopKeepsNames ==
    ASSUME IInv, MissesCount, NamesKept, reconcileOnce
    PROVE  NamesKept'
<1>1. /\ UNCHANGED <<vcd, inflightCreates, failedCreateCleanups, old, forgotten>>
      /\ ops \in [Slots -> Op]
  BY DEF reconcileOnce, PollFails, SearchByFilter, readListedVApps, PollTracked,
         PollUntracked, ownsVApp, PollAdopts, PollEnds, updateStartupHold,
         dispatchCreates, DispatchCreate, dispatchDeletes, DispatchDelete,
         dispatchCreateCleanups, DispatchCleanup, GCAndPrune, ownerVars, ghostVars, IInv, Types
<1>2. CASE UNCHANGED <<ops, byVAppHREF>>
  BY <1>1, <1>2, QuietNames
<1>3. CASE PollAdopts
  <2>1. \A v \in VApps : byVAppHREF[v] # None => byVAppHREF'[v] # None
    BY <1>3, PollAdoptsEffect, StoreAssumption DEF IInv, Types, StoreTypeOK
  <2>. QED  BY <1>1, <1>3, <2>1, QuietNames DEF PollAdopts
<1>4. CASE GCAndPrune
  <2>1. \A v \in VApps : byVAppHREF[v] # None => byVAppHREF'[v] # None \/ vcd[v] = "absent"
    BY <1>4, GCAndPruneEffect DEF MissesCount, EntryCounts
  <2>. QED  BY <1>1, <1>4, <2>1, QuietNames DEF GCAndPrune
<1>5. ASSUME NEW s \in Slots, ops[s] = Free, byVAppHREF' = byVAppHREF,
             NEW at \in {"delete", "cleanup", "init"}, NEW i, NEW v,
             ops' = [ops EXCEPT ![s] = NewOp(at, i, v)]
      PROVE  NamesKept'
  <2>1. Becomes(s, at, i, v)
    BY <1>1, <1>5, NewOpBecomes
  <2>2. ops[s].pc \notin NamingPcs /\ at \notin NamingPcs
    BY <1>5 DEF Free, NamingPcs, OwningPcs
  <2>. QED  BY <1>1, <1>5, <2>1, <2>2, QuietNames DEF Becomes
<1>6. ASSUME NEW i \in Intents, NEW s \in Slots, DispatchCreate(i, s)
      PROVE  NamesKept'
  BY <1>5, <1>6, DispatchCreateEffect DEF DispatchCreate, tryAcquireCreate
<1>7. ASSUME NEW i \in IDs, NEW s \in Slots, DispatchDelete(i, s)
      PROVE  NamesKept'
  BY <1>5, <1>7, DispatchDeleteEffect DEF DispatchDelete, tryAcquireDelete
<1>8. ASSUME NEW v \in VApps, NEW s \in Slots, DispatchCleanup(v, s)
      PROVE  NamesKept'
  BY <1>5, <1>8 DEF DispatchCleanup, tryAcquireDelete, storeVars
<1>9. CASE PollEnds \/ \E v \in VApps, vmRead \in BOOLEAN : PollTracked(v, vmRead)
  BY <1>2, <1>9, PollEndsEffect, PollTrackedEffect DEF PollEnds, PollTracked
<1>. QED  BY <1>2, <1>3, <1>4, <1>6, <1>7, <1>8, <1>9
          DEF reconcileOnce, PollFails, SearchByFilter, readListedVApps, PollUntracked, ownsVApp,
              updateStartupHold, dispatchCreates, dispatchDeletes, dispatchCreateCleanups, storeVars

\* The name passes to the store or to the cleanup before it leaves inflightCreates.
LEMMA CreateKeepsNames ==
    ASSUME IInv, NamesKept, NEW s \in Slots, doCreate(s)
    PROVE  NamesKept'
<1>1. ops \in [Slots -> Op] /\ vcd \in [VApps -> VAppStates]
  BY DEF IInv, Types
<1>2. ops[s].pc \in NamingPcs => ops[s].vapp \in VApps
  BY DEF IInv, OpShape, NamingPcs
<1>3. CASE CreatePreludeFails(s)
  <2>1. Moves(s, "failed") /\ ops[s].pc = "init"
    BY <1>1, <1>3, GotoMoves DEF CreatePreludeFails
  <2>. QED  BY <1>3, <2>1, QuietNames
            DEF CreatePreludeFails, Moves, storeVars, ownerVars, ghostVars, NamingPcs, OwningPcs
<1>4. ASSUME NEW v \in VApps, ChooseName(s, v)
      PROVE  NamesKept'
  <2>1. /\ vcd[v] = "absent" /\ inflightCreates' = inflightCreates \cup {v} /\ old' = old \ {v}
        /\ UNCHANGED <<vcd, byVAppHREF, failedCreateCleanups>> /\ ops[s].pc = "init"
        /\ forgotten' = forgotten \ {v} /\ \A t \in Slots : ops[t].vapp # v
    BY <1>4 DEF ChooseName, Fresh, storeVars
  <2>2. /\ \A t \in Slots : t # s => ops'[t] = ops[t]
        /\ ops'[s].pc = "post" /\ ops'[s].vapp = v
    BY <1>1, <1>4 DEF ChooseName, Op
  <2>. QED  BY <2>1, <2>2 DEF NamesKept, NamingPcs, OwningPcs
<1>5. ASSUME NEW ok \in BOOLEAN, NEW state \in VAppStates,
             createRawVApp(s, ok, state) \/ AddMetadata(s, ok, state)
      PROVE  NamesKept'
  <2>1. PICK v \in VApps : v = ops[s].vapp /\ Owned(v) /\ v \in inflightCreates
    BY <1>5 DEF createRawVApp, AddMetadata, Owned, OwningPcs, IInv, OpShape, VAppOwned
  <2>2. /\ vcd' = [vcd EXCEPT ![v] = state]
        /\ UNCHANGED <<byVAppHREF, inflightCreates, failedCreateCleanups, old, forgotten>>
    BY <1>5, <2>1 DEF createRawVApp, AddMetadata, storeVars, ownerVars, ghostVars
  <2>3. PICK at \in OwningPcs : Moves(s, at) /\ ops[s].pc \in NamingPcs
    BY <1>1, <1>5, GotoMoves DEF createRawVApp, AddMetadata, OwningPcs, NamingPcs
  <2>. QED  BY <1>1, <2>1, <2>2, <2>3, QuietNames DEF Moves
<1>6. ASSUME NEW ok \in BOOLEAN, BuildVM(s, ok)
      PROVE  NamesKept'
  <2>1. PICK at \in OwningPcs : Moves(s, at) /\ ops[s].pc \in NamingPcs
    BY <1>1, <1>6, GotoMoves DEF BuildVM, OwningPcs, NamingPcs
  <2>. QED  BY <1>6, <2>1, QuietNames DEF BuildVM, Moves, storeVars, ownerVars, ghostVars
<1>7. CASE Abort(s)
  <2>1. Moves(s, "disown") /\ ops[s].pc = "abort"
    BY <1>1, <1>7, GotoMoves DEF Abort
  <2>2. /\ failedCreateCleanups' = failedCreateCleanups \cup {ops[s].vapp}
        /\ UNCHANGED <<vcd, byVAppHREF, inflightCreates, old, forgotten>>
    BY <1>7 DEF Abort, storeVars, ghostVars
  <2>. QED  BY <2>1, <2>2 DEF Moves, NamesKept, NamingPcs, OwningPcs
<1>8. CASE Disown(s)
  <2>1. Moves(s, "failed") /\ ops[s].pc = "disown"
    BY <1>1, <1>8, GotoMoves DEF Disown
  <2>2. /\ inflightCreates' = inflightCreates \ {ops[s].vapp}
        /\ UNCHANGED <<vcd, byVAppHREF, failedCreateCleanups, old, forgotten>>
    BY <1>8 DEF Disown, storeVars, ghostVars
  <2>. QED  BY <2>1, <2>2 DEF Moves, NamesKept, NamingPcs, OwningPcs
<1>9. CASE CreateReturnsError(s)
  <2>1. Becomes(s, "free", None, None) /\ ops[s].pc = "failed"
    BY <1>1, <1>9, releaseFrees DEF CreateReturnsError
  <2>. QED  BY <1>9, <2>1, QuietNames, CreateReturnsErrorEffect
            DEF CreateReturnsError, Becomes, ownerVars, ghostVars, NamingPcs, OwningPcs
<1>10. CASE CreateReturnsOK(s)
  <2>1. Moves(s, "record") /\ ops[s].pc = "created" /\ ops[s].vapp \in VApps
    BY <1>1, <1>10, GotoMoves, CreateReturnsOKEffect DEF CreateReturnsOK
  <2>2. UNCHANGED <<vcd, inflightCreates, failedCreateCleanups, old, forgotten>>
    BY <1>10 DEF CreateReturnsOK, ownerVars, ghostVars
  <2>3. /\ \A x \in VApps : byVAppHREF[x] # None => byVAppHREF'[x] # None
        /\ byVAppHREF'[ops[s].vapp] # None
    BY <1>10, CreateReturnsOKEffect, StoreAssumption DEF IInv, Types, StoreTypeOK
  <2>4. \A t \in Slots : ops[t].pc = "record" => ops[t].vapp \in VApps
    BY DEF IInv, OpShape
  <2>. QED  BY <2>1, <2>2, <2>3, <2>4 DEF Moves, NamesKept, NamingPcs, OwningPcs
<1>11. CASE createRecorded(s)
  <2>1. Becomes(s, "free", None, None) /\ ops[s].pc = "record"
    BY <1>1, <1>11, releaseFrees DEF createRecorded
  <2>2. /\ inflightCreates' = inflightCreates \ {ops[s].vapp}
        /\ UNCHANGED <<vcd, byVAppHREF, failedCreateCleanups, old, forgotten>>
    BY <1>11 DEF createRecorded, storeVars, ghostVars
  <2>. QED  BY <2>1, <2>2 DEF Becomes, NamesKept, NamingPcs, OwningPcs
<1>. QED  BY <1>3, <1>4, <1>5, <1>6, <1>7, <1>8, <1>9, <1>10, <1>11 DEF doCreate

\* The cleanup drops a name once the vApp is gone, or gives it up.
LEMMA DeleteKeepsNames ==
    ASSUME IInv, StatesKnown, NamesKept, NEW s \in Slots, doDelete(s) \/ doCleanup(s)
    PROVE  NamesKept'
<1>. USE DEF NamingPcs, OwningPcs
<1>1. ops \in [Slots -> Op] /\ vcd \in [VApps -> VAppStates]
  BY DEF IInv, Types
<1>2. /\ \A v \in VApps : vcd'[v] \in {vcd[v], "absent"}
      /\ UNCHANGED <<inflightCreates, old>> /\ forgotten \subseteq forgotten'
  BY <1>1 DEF doDelete, deleteInstance, DeleteReturnsError, DeleteReturnsOK, doCleanup,
              cleanUpInstanceByName, CleanupReturns, ownerVars, ghostVars
<1>3. byVAppHREF' = byVAppHREF
  BY DeleteReturnsEffect DEF doDelete, deleteInstance, DeleteReturnsError, DeleteReturnsOK,
     doCleanup, cleanUpInstanceByName, CleanupReturns, storeVars, DeleteRecords
<1>4. CASE \/ \E ok, gone \in BOOLEAN : deleteInstance(s, ok, gone)
           \/ \E ok, gone \in BOOLEAN : cleanUpInstanceByName(s, ok, gone)
  <2>1. PICK at : Moves(s, at) /\ at \notin NamingPcs /\ ops[s].pc \notin NamingPcs
    BY <1>1, <1>4, GotoMoves DEF deleteInstance, cleanUpInstanceByName
  <2>. QED  BY <1>2, <1>3, <1>4, <2>1, QuietNames
            DEF Moves, deleteInstance, cleanUpInstanceByName, ownerVars
<1>5. CASE DeleteReturnsError(s) \/ DeleteReturnsOK(s)
  <2>1. Becomes(s, "free", None, None) /\ ops[s].pc \notin NamingPcs
    BY <1>1, <1>5, releaseFrees DEF DeleteReturnsError, DeleteReturnsOK
  <2>. QED  BY <1>2, <1>3, <1>5, <2>1, QuietNames
            DEF Becomes, DeleteReturnsError, DeleteReturnsOK, ownerVars
<1>6. CASE CleanupReturns(s)
  <2>1. Becomes(s, "free", None, None) /\ ops[s].pc \notin NamingPcs
    BY <1>1, <1>6, releaseFrees DEF CleanupReturns
  <2>2. \A v \in failedCreateCleanups :
           v \in failedCreateCleanups' \cup forgotten' \/ vcd[v] = "absent"
    <3>1. ops[s].vapp \in VApps
      BY <1>6 DEF CleanupReturns, IInv, OpShape, CleanupPcs
    <3>2. ops[s].pc = "cleanupOK" => vcd[ops[s].vapp] = "absent" \/ Exists(ops[s].vapp)
      BY <1>1, <3>1 DEF StatesKnown, OpState, Exists, VAppStates
    <3>. QED  BY <1>6, <3>2 DEF CleanupReturns
  <2>. QED  BY <1>2, <1>3, <1>6, <2>1, <2>2, QuietNames DEF Becomes
<1>. QED  BY <1>4, <1>5, <1>6 DEF doDelete, doCleanup

\* A vApp that goes needs no owner.
LEMMA VanishingKeepsNames ==
    ASSUME IInv, NamesKept,
           UNCHANGED <<byVAppHREF, ops, inflightCreates, failedCreateCleanups, old, forgotten>>,
           \A v \in VApps : vcd'[v] = "tagged" => vcd[v] = "tagged",
           \A v \in VApps : vcd[v] = "absent" => vcd'[v] = "absent"
    PROVE  NamesKept'
  BY QuietNames

\* A restart leaves no vApp of this run.
LEMMA EnvironmentKeepsNames ==
    ASSUME IInv, NamesKept, Environment
    PROVE  NamesKept'
<1>1. vcd \in [VApps -> VAppStates]
  BY DEF IInv, Types
<1>2. ASSUME NEW i \in IDs, (i \in Intents /\ Increase(i)) \/ Decrease(i)
      PROVE  NamesKept'
  <2>1. UNCHANGED <<vcd, ops, inflightCreates, failedCreateCleanups, old, forgotten>>
    BY <1>2 DEF Increase, Decrease, ownerVars, ghostVars
  <2>. QED  BY <1>2, <2>1, VanishingKeepsNames, IncreaseEffect, DecreaseEffect
<1>3. ASSUME NEW v \in VApps, LateCommit(v) \/ VAppVanishes(v)
      PROVE  NamesKept'
  BY <1>1, <1>3, VanishingKeepsNames
     DEF LateCommit, VAppVanishes, storeVars, ownerVars, ghostVars
<1>4. CASE CooldownEnds
  BY <1>4, VanishingKeepsNames DEF CooldownEnds, storeVars, ownerVars, ghostVars
<1>5. ASSUME NEW sent \in SUBSET VApps, Restart(sent)
      PROVE  NamesKept'
  <2>1. /\ ops' = [t \in Slots |-> Free] /\ old' = {v \in VApps : vcd'[v] # "absent"}
        /\ inflightCreates' = {}
    BY <1>5 DEF Restart
  <2>. QED  BY <2>1 DEF Free, NamesKept
<1>. QED  BY <1>2, <1>3, <1>4, <1>5 DEF Environment, IDs

=============================================================================

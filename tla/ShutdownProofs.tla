--------------------------- MODULE ShutdownProofs ---------------------------
(***************************************************************************)
(* Shutdown deletes alone, and goes through every vApp the program knows   *)
(* of: for any slots, intents and vApps, and whatever calls fail or hang.  *)
(***************************************************************************)
EXTENDS Shutdown, OrphanProofs

\* From the drain on the loop has ended, so that no operation can start, and
\* after the drain none is left.
AloneInv ==
    /\ stage \in {"draining", "cleaning", "deleting"} => loopDone
    /\ stage \in {"cleaning", "deleting"} => \A s \in Slots : ops[s] = Free

\* A free slot has no goroutine.
LEMMA FreeSlotRests ==
    ASSUME NEW s \in Slots, ops[s] = Free, Operation(s)
    PROVE  FALSE
  <1>1. ops[s].pc = "free"
    BY DEF Free
  <1>2. CASE doCreate(s)
    BY <1>1, <1>2 DEF doCreate, CreatePreludeFails, ChooseName, createRawVApp, AddMetadata,
       BuildVM, Abort, Disown, CreateReturnsError, CreateReturnsOK, createRecorded
  <1>3. CASE doDelete(s)
    BY <1>1, <1>3 DEF doDelete, deleteInstance, DeleteReturnsError, DeleteReturnsOK
  <1>4. CASE doCleanup(s)
    BY <1>1, <1>4 DEF doCleanup, cleanUpInstanceByName, CleanupReturns
  <1> QED
    BY <1>2, <1>3, <1>4 DEF Operation

\* While the process lives, what happens outside starts no operation. A restart
\* would count.
LEMMA OutsideStartsNothing ==
    ASSUME IInv, Outside
    PROVE  UNCHANGED <<ops, stage, loopDone>>
  <1>1. ASSUME NEW sent \in SUBSET VApps, Restart(sent) PROVE FALSE
    BY <1>1, ReconcilerAssumption DEF Outside, Restart, IInv, Types
  <1> QED
    BY <1>1 DEF Outside, stopVars, Environment, Increase, Decrease, LateCommit,
       VAppVanishes, CooldownEnds

\* No step of Shutdown, of the loop or of an operation undoes that.
LEMMA AloneStep ==
    ASSUME IInv, AloneInv, [StopNext]_allVars
    PROVE  AloneInv'
  <1> USE DEF AloneInv
  <1>1. CASE Cycle
    BY <1>1 DEF Cycle, stopVars
  <1>2. CASE LoopExits
    BY <1>2 DEF LoopExits, vars
  <1>3. ASSUME NEW s \in Slots, Operation(s) PROVE AloneInv'
    <2>1. ops[s] # Free
      BY <1>3, FreeSlotRests
    <2> QED
      BY <1>3, <2>1 DEF Operation, stopVars
  <1>4. CASE Outside
    BY <1>4, OutsideStartsNothing
  <1>5. CASE BeginShutdown
    BY <1>5 DEF BeginShutdown
  <1>6. CASE ShutdownStep
    BY <1>6 DEF ShutdownStep, AwaitLoop, drain, AbandonCleanUp, GetAll, AbandonDelete,
       ShutdownReturns, vars
  <1>7. CASE ShutdownCall
    BY <1>7 DEF ShutdownCall, CleanUp, DeleteRemaining
  <1>8. CASE CtxEnds
    BY <1>8 DEF CtxEnds, vars
  <1>9. CASE \E v \in VApps, gone \in BOOLEAN : AbandonedEnds(v, gone)
    BY <1>9 DEF AbandonedEnds
  <1>10. CASE UNCHANGED allVars
    BY <1>10 DEF allVars, vars, stopVars
  <1> QED
    BY <1>1, <1>2, <1>3, <1>4, <1>5, <1>6, <1>7, <1>8, <1>9, <1>10 DEF StopNext

\* What Shutdown and the calls it abandoned do to the reconciler's state: vApps go.
Fades ==
    /\ vcd' \in [VApps -> VAppStates]
    /\ \A v \in VApps : vcd'[v] \in {vcd[v], "absent"}
    /\ UNCHANGED <<storeVars, ownerVars, ops, loopVars, startup, breakerVars, ghostVars>>

\* A call that deletes one vApp.
LEMMA DeletesFades ==
    ASSUME vcd \in [VApps -> VAppStates],
           NEW v \in VApps, NEW gone \in BOOLEAN, Deletes(v, gone),
           UNCHANGED <<storeVars, ownerVars, ops, loopVars, startup, breakerVars, ghostVars>>
    PROVE  Fades
  BY DEF Deletes, Fades, VAppStates

\* Until it returns, Shutdown is the reconciler beside a deleter of vApps.
LEMMA StopSteps ==
    ASSUME IInv, [StopNext]_allVars
    PROVE  Next \/ Fades
<1>. vcd \in [VApps -> VAppStates]
  BY DEF IInv, Types
<1>1. CASE Cycle \/ (\E s \in Slots : Operation(s)) \/ Outside
  BY <1>1 DEF Cycle, Operation, Outside, Next
<1>2. CASE UNCHANGED vars
  BY <1>2 DEF Fades, vars
<1>3. CASE LoopExits \/ BeginShutdown \/ ShutdownStep \/ CtxEnds \/ UNCHANGED allVars
  BY <1>2, <1>3 DEF LoopExits, BeginShutdown, ShutdownStep, AwaitLoop, drain, AbandonCleanUp,
                    GetAll, AbandonDelete, ShutdownReturns, CtxEnds, allVars
<1>4. CASE \/ ShutdownCall
           \/ \E v \in VApps, gone \in BOOLEAN : AbandonedEnds(v, gone)
  BY <1>4, DeletesFades DEF ShutdownCall, CleanUp, DeleteRemaining, AbandonedEnds
<1>. QED  BY <1>1, <1>3, <1>4 DEF StopNext

\* The reconciler's invariant says nothing about what vCD holds.
LEMMA FadingStep ==
    ASSUME IInv, Fades
    PROVE  IInv'
<1>1. Types'
  BY DEF Fades, storeVars, ownerVars, loopVars, breakerVars, ghostVars, IInv, Types,
         StoreTypeOK
<1>2. /\ OpShape' /\ EntryShape' /\ IndexConsistent' /\ IntentOwned'
      /\ VAppOwned' /\ DeletesDoomed' /\ WorkFresh'
  BY DEF Fades, storeVars, ownerVars, loopVars, IInv, OpShape, EntryShape,
         IndexConsistent, IntentOwned, VAppOwned, DeletesDoomed, WorkFresh, Tracked, Doomed
<1>. QED  BY <1>1, <1>2 DEF IInv

\* The types of Shutdown's own state.
StopTypes ==
    /\ unprefixed \subseteq Leftovers
    /\ stage \in Stages
    /\ todo \subseteq VApps
    /\ loopDone \in BOOLEAN
    /\ ctxDone \in BOOLEAN
    /\ abandoned \subseteq VApps
    /\ shutdownErr \in BOOLEAN
    /\ notDeleted \subseteq VApps

\* Shutdown takes its lists from the store and from failedCreateCleanups.
LEMMA StopTypesStep ==
    ASSUME IInv, StopTypes, [StopNext]_allVars
    PROVE  StopTypes'
<1>. USE DEF StopTypes, Stages
<1>1. failedCreateCleanups \subseteq VApps /\ \A i \in IDs : instances[i].ID \in VApps \cup {None}
  BY DEF IInv, Types, StoreTypeOK, Instance
<1>2. CASE Cycle \/ (\E s \in Slots : Operation(s)) \/ Outside \/ UNCHANGED allVars
  BY <1>2 DEF Cycle, Operation, Outside, allVars, stopVars
<1>3. CASE LoopExits \/ BeginShutdown \/ CtxEnds
  BY <1>3 DEF LoopExits, BeginShutdown, CtxEnds
<1>4. CASE AwaitLoop \/ drain \/ ShutdownReturns
  BY <1>1, <1>4 DEF AwaitLoop, drain, ShutdownReturns
<1>5. CASE GetAll
  BY <1>1, <1>5 DEF GetAll
<1>6. CASE \/ \E v \in VApps : AbandonCleanUp(v)
           \/ \E pending \in SUBSET VApps : AbandonDelete(pending)
  BY <1>6 DEF AbandonCleanUp, AbandonDelete
<1>7. ASSUME NEW v \in VApps, NEW ok \in BOOLEAN, NEW gone \in BOOLEAN,
             CleanUp(v, ok, gone) \/ DeleteRemaining(v, gone) \/ AbandonedEnds(v, gone)
      PROVE  StopTypes'
  BY <1>7 DEF CleanUp, DeleteRemaining, AbandonedEnds, Deletes
<1>. QED  BY <1>2, <1>3, <1>4, <1>5, <1>6, <1>7 DEF StopNext, ShutdownStep, ShutdownCall

\* The reconciler's invariant holds through Shutdown too.
LEMMA StopInvariant == StopSpec => [](IInv /\ StopTypes /\ AloneInv)
<1>1. StopInit => IInv /\ StopTypes /\ AloneInv
  BY InitIInv DEF StopInit, StopTypes, Stages, AloneInv
<1>2. IInv /\ StopTypes /\ AloneInv /\ [StopNext]_allVars => (IInv /\ StopTypes /\ AloneInv)'
  <2>1. ASSUME IInv, Next PROVE IInv'
    BY <2>1, LoopStep, OperationStep, EnvironmentStep DEF Next
  <2>2. ASSUME IInv, StopTypes, AloneInv, [StopNext]_allVars PROVE IInv'
    BY <2>1, <2>2, StopSteps, FadingStep
  <2>3. ASSUME IInv, StopTypes, AloneInv, [StopNext]_allVars PROVE AloneInv' /\ StopTypes'
    BY <2>3, AloneStep, StopTypesStep
  <2>. QED  BY <2>2, <2>3
<1>. QED  BY <1>1, <1>2, PTL DEF StopSpec

\* Through Shutdown too, every map, operation and list keeps its type: in
\* particular what Shutdown goes through names vApps, never an empty HREF.
THEOREM StopTypesHold == StopSpec => []StopTypeOK
<1>1. IInv /\ StopTypes => StopTypeOK
  BY StoreAssumption DEF IInv, Types, OpShape, TypeOK, StopTypes, StopTypeOK
<1>. QED  BY <1>1, StopInvariant, PTL

\* Shutdown deletes vApps only when the loop has ended and no create, delete or
\* cleanup is in flight, whatever its context does.
THEOREM ShutdownDeletesAlone == StopSpec => []NothingRunsBesideShutdown
<1>1. AloneInv => NothingRunsBesideShutdown
  BY DEF AloneInv, NothingRunsBesideShutdown
<1>. QED  BY <1>1, StopInvariant, PTL

-----------------------------------------------------------------------------
(* Nothing slips between what Shutdown waits for and what it goes through.  *)

\* Every vApp that is left, and that Shutdown may still delete.
Left(v) == v \notin notDeleted \cup (unprefixed \cap old) /\ vcd[v] # "absent"

\* A leftover, or a vApp whose cleanup was given up, that no poll has adopted.
Unadopted(v) == v \in old \cup forgotten /\ byVAppHREF[v] = None

\* Shutdown has dealt with every failed create that it has left behind, and then
\* what is left is on its list.
Covered ==
    /\ stage = "returned" /\ ~ ctxDone => loopDone /\ \A s \in Slots : ops[s] = Free
    /\ stage = "cleaning" /\ ~ ctxDone =>
          \A v \in failedCreateCleanups \ (notDeleted \cup todo) : vcd[v] = "absent"
    /\ stage \in {"deleting", "returned"} /\ ~ ctxDone =>
          \A v \in VApps : Left(v) => v \in todo \/ Unadopted(v)
    /\ stage = "returned" /\ ~ ctxDone => todo = {}

\* What the reconciler knows of the vApps of this run, during Shutdown too.
Known == OrphansKnown /\ StatesKnown /\ MissesCount /\ NamesKept

\* It survives the deletions of Shutdown.
LEMMA FadingKnown ==
    ASSUME IInv, Known, Fades
    PROVE  Known'
<1>1. UNCHANGED <<instances, byVAppHREF, inflightCreates, failedCreateCleanups, ops,
                  pc, work, cur, known, old, forgotten>>
  BY DEF Fades, storeVars, ownerVars, loopVars, ghostVars
<1>2. /\ \A v \in VApps : vcd'[v] \in {vcd[v], "absent"}
      /\ \A v \in VApps : vcd'[v] = "tagged" => vcd[v] = "tagged"
      /\ \A v \in VApps : vcd[v] = "absent" => vcd'[v] = "absent"
  BY DEF Fades
<1>3. OrphansKnown'
  <2>1. \A v \in VApps : Invisible(v)' => Invisible(v)
    BY <1>2 DEF Invisible
  <2>2. \A s \in Slots : ops[s].pc \in ReleasingPcs => ops[s].vapp \in VApps
    BY DEF IInv, OpShape, ReleasingPcs, OwningPcs, CleanupPcs
  <2>3. NoInvisibleOrphan'
    BY <1>1, <2>1 DEF Known, OrphansKnown, NoInvisibleOrphan, Invisible
  <2>. QED  BY <1>1, <1>2, <2>1, <2>2, <2>3 DEF Known, OrphansKnown, Invisible, ReleasingPcs
<1>4. StatesKnown'
  BY <1>1, <1>2, FadingStates DEF Known
<1>5. MissesCount' /\ NamesKept'
  BY <1>1, <1>2, VanishingKeepsMisses, VanishingKeepsNames DEF Known
<1>. QED  BY <1>3, <1>4, <1>5 DEF Known

\* It survives the steps of the reconciler.
LEMMA KnownStep ==
    ASSUME IInv, Known, ~ ListingMayOmit, missedPollsBeforeDisappeared > 1, Next
    PROVE  Known'
<1>1. CASE reconcileOnce
  BY <1>1, LoopKeepsOrphans, LoopKeepsStates, LoopKeepsMisses, LoopKeepsNames DEF Known
<1>2. ASSUME NEW s \in Slots, doCreate(s)
      PROVE  Known'
  BY <1>2, CreateKeepsOrphans, CreateKeepsStates, OperationKeepsMisses, CreateKeepsNames
     DEF Known
<1>3. ASSUME NEW s \in Slots, doDelete(s) \/ doCleanup(s)
      PROVE  Known'
  BY <1>3, DeleteKeepsOrphans, DeleteKeepsStates, OperationKeepsMisses, DeleteKeepsNames
     DEF Known
<1>4. CASE Environment
  BY <1>4, EnvironmentKeepsOrphans, EnvironmentKeepsStates, EnvironmentKeepsMisses,
     EnvironmentKeepsNames DEF Known
<1>. QED  BY <1>1, <1>2, <1>3, <1>4 DEF Next

\* At GetAll nothing is in flight and the failed creates are done with, so what
\* is left of this run has an entry that the deletions start from.
LEMMA GetAllCovers ==
    ASSUME IInv, Known, AloneInv, Covered, GetAll, ~ ctxDone, NEW v \in VApps, Left(v)
    PROVE  v \in todo' \/ Unadopted(v)
<1>1. /\ stage = "cleaning" /\ todo = {}
      /\ todo' = {instances[i].ID : i \in {j \in IDs : instances[j].Phase
                                             \notin {"Untracked", "Deleted"}}}
                     \ ((unprefixed \cap old) \cup {None})
  BY DEF GetAll
<1>2. inflightCreates = {}
  <2>1. \A s \in Slots : ops[s].pc = "free"
    BY <1>1 DEF AloneInv, Free
  <2>. QED  BY <2>1 DEF Known, NamesKept, NamingPcs, OwningPcs
<1>3. v \notin failedCreateCleanups
  BY <1>1 DEF Covered, Left
<1>4. byVAppHREF[v] # None \/ v \in old \cup forgotten
  <2>1. vcd[v] \in {"late", "bare", "tagged"}
    BY DEF Left, IInv, Types, VAppStates
  <2>. QED  BY <1>2, <1>3, <2>1 DEF Known, OrphansKnown, NoInvisibleOrphan, NamesKept
<1>5. CASE byVAppHREF[v] # None
  <2>1. PICK i \in IDs : i = byVAppHREF[v] /\ instances[i].ID = v /\ Tracked(i)
    BY <1>5 DEF IInv, IndexConsistent, Types, StoreTypeOK
  <2>2. instances[i].Phase # "Deleted"
    BY <2>1 DEF Known, MissesCount, EntryCounts, Left
  <2>. QED  BY <1>1, <2>1, <2>2, StoreAssumption DEF Left, Tracked
<1>. QED  BY <1>4, <1>5 DEF Unadopted

\* A call of Shutdown either makes its vApp go or counts as failed.
LEMMA CallCovers ==
    ASSUME IInv, StopTypes, Covered, AloneInv,
           NEW v \in VApps, NEW gone \in BOOLEAN, Deletes(v, gone),
           UNCHANGED <<storeVars, ownerVars, ops, loopVars, startup, breakerVars, ghostVars,
                       unprefixed, stage, loopDone, ctxDone>>,
           todo' \in {todo, todo \ {v}} \/ ctxDone,
           stage = "returned" => todo' = todo
    PROVE  Covered'
<1>1. UNCHANGED <<byVAppHREF, failedCreateCleanups, ops, old, forgotten>>
  BY DEF storeVars, ownerVars, ghostVars
<1>2. /\ \A w \in VApps : vcd'[w] \in {vcd[w], "absent"}
      /\ notDeleted \subseteq notDeleted'
      /\ vcd'[v] = "absent" \/ v \in notDeleted'
  <2>1. vcd \in [VApps -> VAppStates]
    BY DEF IInv, Types
  <2>. QED  BY <2>1 DEF Deletes, Exists, VAppStates
<1>3. \A w \in VApps : Left(w)' => Left(w) /\ w # v
  BY <1>1, <1>2 DEF Left
<1>4. \A w \in VApps : Unadopted(w) => Unadopted(w)'
  BY <1>1 DEF Unadopted
<1>5. failedCreateCleanups \subseteq VApps
  BY DEF IInv, Types
<1>. QED  BY <1>1, <1>2, <1>3, <1>4, <1>5 DEF Covered

\* No step of Shutdown, and nothing that goes on beside it, uncovers a vApp.
LEMMA CoveredStep ==
    ASSUME IInv, StopTypes, AloneInv, Known, Covered, [StopNext]_allVars
    PROVE  Covered'
<1>1. CASE Cycle
  BY <1>1 DEF Cycle, stopVars, AloneInv, Covered
<1>2. CASE LoopExits \/ BeginShutdown \/ CtxEnds \/ UNCHANGED allVars
  BY <1>2 DEF LoopExits, BeginShutdown, CtxEnds, allVars, vars, storeVars, ownerVars,
              ghostVars, stopVars, Covered, Left, Unadopted
<1>3. ASSUME NEW s \in Slots, Operation(s)
      PROVE  Covered'
  <2>1. ops[s] # Free
    BY <1>3, FreeSlotRests
  <2>. QED  BY <1>3, <2>1 DEF Operation, stopVars, AloneInv, Covered
<1>4. CASE Outside
  <2>1. UNCHANGED <<ops, stage, loopDone, todo, ctxDone, notDeleted, unprefixed>>
    BY <1>4, OutsideStartsNothing DEF Outside, stopVars
  <2>2. ASSUME NEW sent \in SUBSET VApps, Restart(sent) PROVE FALSE
    BY <1>4, <2>2, ReconcilerAssumption DEF Outside, Restart, IInv, Types
  <2>3. /\ UNCHANGED <<byVAppHREF, failedCreateCleanups, old, forgotten>>
        /\ \A v \in VApps : vcd[v] = "absent" => vcd'[v] = "absent"
    BY <1>4, <2>2 DEF Outside, Environment, Increase, AddCreateIntent, Decrease,
       MarkForDeletion, LateCommit, VAppVanishes, CooldownEnds, storeVars, ownerVars,
       ghostVars, IInv, Types
  <2>4. failedCreateCleanups \subseteq VApps
    BY DEF IInv, Types
  <2>. QED  BY <2>1, <2>3, <2>4 DEF Covered, Left, Unadopted
<1>5. CASE AwaitLoop \/ drain
  BY <1>5 DEF AwaitLoop, drain, Covered, vars, ownerVars
<1>6. CASE ShutdownReturns
  BY <1>6 DEF ShutdownReturns, AloneInv, Covered, Left, Unadopted, vars, storeVars, ownerVars,
              ghostVars
<1>7. CASE \/ \E v \in VApps : AbandonCleanUp(v)
           \/ \E pending \in SUBSET VApps : AbandonDelete(pending)
  BY <1>7 DEF AbandonCleanUp, AbandonDelete, Covered
<1>8. CASE GetAll
  <2>1. /\ stage' = "deleting" /\ ctxDone' = ctxDone
        /\ \A v \in VApps : Left(v)' = Left(v) /\ Unadopted(v)' = Unadopted(v)
    BY <1>8 DEF GetAll, Left, Unadopted, vars, storeVars, ghostVars
  <2>. QED  BY <1>8, <2>1, GetAllCovers DEF Covered
<1>9. ASSUME NEW v \in VApps, NEW ok \in BOOLEAN, NEW gone \in BOOLEAN,
             CleanUp(v, ok, gone) \/ DeleteRemaining(v, gone) \/ AbandonedEnds(v, gone)
      PROVE  Covered'
  BY <1>9, CallCovers DEF CleanUp, DeleteRemaining, AbandonedEnds
<1>. QED  BY <1>1, <1>2, <1>3, <1>4, <1>5, <1>6, <1>7, <1>8, <1>9
          DEF StopNext, ShutdownStep, ShutdownCall

\* Where vCD's searches return every labelled vApp, and one missed poll does not
\* yet count as gone (missedPollsBeforeDisappeared is 3, src/store.go:17): what
\* Shutdown leaves when it returns in time it failed to delete, could not see yet,
\* was never to delete or had lost the name of to a cleanup that gave up, however
\* creates, deletes and polls were cut short.
THEOREM ShutdownGoesThroughAll ==
    ASSUME ~ ListingMayOmit, missedPollsBeforeDisappeared > 1
    PROVE  StopSpec => []ShutdownMissesNothing
<1>1. StopInit => Known /\ Covered
  <2>1. ASSUME StopInit PROVE OrphansKnown /\ StatesKnown
    BY <2>1 DEF StopInit, Init, newDesiredStateStore, Free, OrphansKnown, NoInvisibleOrphan,
       ReleasingPcs, StatesKnown, OpState, Listed, PollPcs, DeletePcs
  <2>2. ASSUME StopInit PROVE MissesCount /\ NamesKept
    BY <2>2 DEF StopInit, Init, newDesiredStateStore, Free, NoInstance, NewInstance,
       MissesCount, EntryCounts, NamesKept, NamingPcs, OwningPcs
  <2>3. ASSUME StopInit PROVE Covered
    BY <2>3 DEF StopInit, Covered
  <2>. QED  BY <2>1, <2>2, <2>3 DEF Known
<1>2. /\ IInv /\ StopTypes /\ AloneInv
      /\ Known /\ Covered
      /\ [StopNext]_allVars
      => (Known /\ Covered)'
  BY StopSteps, KnownStep, FadingKnown, CoveredStep
<1>3. Covered => ShutdownMissesNothing
  BY DEF Covered, Left, Unadopted, ShutdownMissesNothing, Exists
<1>. QED  BY <1>1, <1>2, <1>3, StopInvariant, PTL DEF StopSpec

=============================================================================

------------------------------ MODULE Shutdown ------------------------------
(***************************************************************************)
(* vcdInstanceGroup.Shutdown (src/reconciler.go) beside the reconcile loop *)
(* and the operations it stops. It cancels the creates, waits for the loop *)
(* and for every operation, and then deletes what is left; a call that     *)
(* outlives its context is abandoned and finishes by itself. shutdownOnce  *)
(* makes a second caller wait for the first, so there is one.              *)
(***************************************************************************)
EXTENDS Reconciler

VARIABLES
    unprefixed,    \* vApps of an earlier run whose names lack VAppNamePrefix
    stage,         \* where Shutdown is
    todo,          \* what the loop it is in has still to visit
    loopDone,      \* doneCh is closed
    ctxDone,       \* the context of Shutdown has ended
    abandoned,     \* vApps whose deletion goes on in the background
    shutdownErr,   \* does Shutdown return an error?
    notDeleted     \* ghost: vApps that a call of Shutdown failed to delete

stopVars == <<unprefixed, stage, todo, loopDone, ctxDone, abandoned, shutdownErr, notDeleted>>
allVars == <<vars, stopVars>>

Stages == {"up", "stopping", "draining", "cleaning", "deleting", "returned"}

Stopping == stage # "up"

StopInit ==
    /\ Init
    /\ unprefixed \in SUBSET Leftovers
    /\ stage = "up"
    /\ todo = {}
    /\ loopDone = FALSE
    /\ ctxDone = FALSE
    /\ abandoned = {}
    /\ shutdownErr = FALSE
    /\ notDeleted = {}

-----------------------------------------------------------------------------
(* The loop and the operations, until they end.                            *)

\* run: the loop looks at stopCh only between two cycles, and its select may
\* prefer a trigger or a tick for a while.
LoopExits ==
    /\ Stopping
    /\ pc = "idle"
    /\ ~loopDone
    /\ loopDone' = TRUE
    /\ UNCHANGED <<vars, unprefixed, stage, todo, ctxDone, abandoned, shutdownErr, notDeleted>>

Cycle ==
    /\ ~loopDone
    /\ reconcileOnce
    /\ UNCHANGED stopVars

\* The wait of a create is not ended by its context.
OperationDeaf(s) ==
    /\ doCreate(s) \/ doDelete(s) \/ doCleanup(s)
    /\ Stopping => ops[s].pc # "post"
    /\ UNCHANGED stopVars

\* createRawVApp ends with a read, which fails once the context has ended. A
\* request already on its way is carried out; so may be the rest of a create
\* that has no call left to make.
Operation(s) ==
    /\ doCreate(s) \/ doDelete(s) \/ doCleanup(s)
    /\ Stopping => ~(ops[s].pc = "post" /\ ops'[s].pc = "meta")
    /\ UNCHANGED stopVars

Outside ==
    /\ Environment
    /\ restarts' = restarts
    /\ UNCHANGED stopVars

-----------------------------------------------------------------------------
(* Shutdown.                                                               *)

BeginShutdown ==
    /\ stage = "up"
    /\ stage' = "stopping"
    /\ UNCHANGED <<vars, unprefixed, todo, loopDone, ctxDone, abandoned, shutdownErr, notDeleted>>

\* The loop has ended, or the context.
AwaitLoop ==
    /\ stage = "stopping"
    /\ \/ loopDone /\ stage' = "draining" /\ UNCHANGED shutdownErr
       \/ ctxDone /\ stage' = "returned" /\ shutdownErr' = TRUE
    /\ UNCHANGED <<vars, unprefixed, todo, loopDone, ctxDone, abandoned, notDeleted>>

\* Operations in flight are not waited for.
drainAtOnce ==
    /\ stage = "draining"
    /\ stage' = "cleaning"
    /\ todo' = failedCreateCleanups
    /\ UNCHANGED <<vars, unprefixed, loopDone, ctxDone, abandoned, shutdownErr, notDeleted>>

\* opLimiter.drain: every slot is free, or the context has ended.
drain ==
    /\ stage = "draining"
    /\ \/ /\ \A s \in Slots : ops[s] = Free
          /\ stage' = "cleaning"
          /\ todo' = failedCreateCleanups
          /\ UNCHANGED shutdownErr
       \/ /\ ctxDone
          /\ stage' = "returned"
          /\ shutdownErr' = TRUE
          /\ UNCHANGED todo
    /\ UNCHANGED <<vars, unprefixed, loopDone, ctxDone, abandoned, notDeleted>>

\* A call that deletes v: it may fail after vCD carried it out, and it does
\* not see a vApp whose POST is still to be committed.
Deletes(v, gone) ==
    /\ vcd' = IF gone /\ Exists(v) THEN [vcd EXCEPT ![v] = "absent"] ELSE vcd
    /\ notDeleted' = IF gone /\ vcd[v] # "late" THEN notDeleted ELSE notDeleted \cup {v}

\* cleanUpInstanceByName. "Not found" is no error: a name that vCD does not
\* know, even when its POST is still to be committed, and an org or a VDC that was
\* not found, with the vApp in place.
CleanUp(v, ok, gone) ==
    /\ stage = "cleaning"
    /\ v \in todo
    /\ Deletes(v, gone)
    /\ vcd[v] \in {"absent", "late"} => gone
    /\ shutdownErr' = (shutdownErr \/ ~ok)
    /\ todo' = IF ctxDone THEN {} ELSE todo \ {v}
    /\ UNCHANGED <<storeVars, ownerVars, ops, loopVars, startup, breakerVars, ghostVars,
                   unprefixed, stage, loopDone, ctxDone, abandoned>>

\* The call is waited for: only a name that vCD does not know ends it.
AbandonCleanUpWaits(v) ==
    /\ stage = "cleaning"
    /\ v \in todo
    /\ ctxDone
    /\ ~Exists(v)
    /\ abandoned' = abandoned \cup {v}
    /\ shutdownErr' = TRUE
    /\ todo' = {}
    /\ UNCHANGED <<vars, unprefixed, stage, loopDone, ctxDone, notDeleted>>

\* withinContext gives up on the call; the Range ends.
AbandonCleanUp(v) ==
    /\ stage = "cleaning"
    /\ v \in todo
    /\ ctxDone
    /\ abandoned' = abandoned \cup {v}
    /\ shutdownErr' = TRUE
    /\ todo' = {}
    /\ UNCHANGED <<vars, unprefixed, stage, loopDone, ctxDone, notDeleted>>

\* Entries without an HREF are not passed over.
GetAllEntries ==
    /\ stage = "cleaning"
    /\ todo = {}
    /\ stage' = "deleting"
    /\ todo' = {instances[i].ID : i \in {j \in IDs : Tracked(j)}}
    /\ UNCHANGED <<vars, unprefixed, loopDone, ctxDone, abandoned, shutdownErr, notDeleted>>

\* Only running instances are looked at.
GetAllRunning ==
    /\ stage = "cleaning"
    /\ todo = {}
    /\ stage' = "deleting"
    /\ todo' = {instances[i].ID : i \in InPhase("Running")} \ {None}
    /\ UNCHANGED <<vars, unprefixed, loopDone, ctxDone, abandoned, shutdownErr, notDeleted>>

\* The deletions start from what the store holds, except entries without an
\* HREF, those already deleted and those of another prefix.
GetAll ==
    /\ stage = "cleaning"
    /\ todo = {}
    /\ stage' = "deleting"
    /\ todo' = {instances[i].ID : i \in {j \in IDs : instances[j].Phase
                                             \notin {"Untracked", "Deleted"}}}
                  \ ((unprefixed \cap old) \cup {None})
    /\ UNCHANGED <<vars, unprefixed, loopDone, ctxDone, abandoned, shutdownErr, notDeleted>>

\* deleteInstance; an error is only logged.
DeleteRemaining(v, gone) ==
    /\ stage = "deleting"
    /\ v \in todo
    /\ ~ctxDone
    /\ Deletes(v, gone)
    /\ todo' = todo \ {v}
    /\ UNCHANGED <<storeVars, ownerVars, ops, loopVars, startup, breakerVars, ghostVars,
                   unprefixed, stage, loopDone, ctxDone, abandoned, shutdownErr>>

\* The context ends during a call or between two.
AbandonDelete(pending) ==
    /\ stage = "deleting"
    /\ ctxDone
    /\ pending \subseteq todo
    /\ Cardinality(pending) <= 1
    /\ abandoned' = abandoned \cup pending
    /\ todo' = {}
    /\ stage' = "returned"
    /\ shutdownErr' = TRUE
    /\ UNCHANGED <<vars, unprefixed, loopDone, ctxDone, notDeleted>>

ShutdownReturns ==
    /\ stage = "deleting"
    /\ todo = {}
    /\ stage' = "returned"
    /\ shutdownErr' = (shutdownErr \/ ctxDone)
    /\ UNCHANGED <<vars, unprefixed, todo, loopDone, ctxDone, abandoned, notDeleted>>

-----------------------------------------------------------------------------

CtxEnds ==
    /\ stage \notin {"up", "returned"}
    /\ ~ctxDone
    /\ ctxDone' = TRUE
    /\ UNCHANGED <<vars, unprefixed, stage, todo, loopDone, abandoned, shutdownErr, notDeleted>>

\* An abandoned call ends.
AbandonedEnds(v, gone) ==
    /\ v \in abandoned
    /\ Deletes(v, gone)
    /\ abandoned' = abandoned \ {v}
    /\ UNCHANGED <<storeVars, ownerVars, ops, loopVars, startup, breakerVars, ghostVars,
                   unprefixed, stage, todo, loopDone, ctxDone, shutdownErr>>

\* What Shutdown's goroutine does without a call of its own returning.
ShutdownStep ==
    \/ AwaitLoop
    \/ drain
    \/ \E v \in VApps : AbandonCleanUp(v)
    \/ GetAll
    \/ \E pending \in SUBSET VApps : AbandonDelete(pending)
    \/ ShutdownReturns

ShutdownCall ==
    \/ \E v \in VApps, ok, gone \in BOOLEAN : CleanUp(v, ok, gone)
    \/ \E v \in VApps, gone \in BOOLEAN : DeleteRemaining(v, gone)

StopNext ==
    \/ Cycle
    \/ LoopExits
    \/ \E s \in Slots : Operation(s)
    \/ Outside
    \/ BeginShutdown
    \/ ShutdownStep
    \/ ShutdownCall
    \/ CtxEnds
    \/ \E v \in VApps, gone \in BOOLEAN : AbandonedEnds(v, gone)

StopSpec == StopInit /\ [][StopNext]_allVars

\* - Shutdown's goroutine runs whenever its select can proceed. No call of vCD is
\*   assumed to return.
PromptSpec == StopSpec /\ WF_allVars(ShutdownStep)

\* Every call that the loop, the operations and Shutdown make returns in the end,
\* and the loop's select takes every ready case. The code does not see to the
\* first: a call may wait for the org's operation limit for ever.
CallsEnd ==
    /\ WF_allVars(ShutdownCall)
    /\ WF_allVars(Cycle)
    /\ SF_allVars(LoopExits)
    /\ \A s \in Slots : WF_allVars(Operation(s))

-----------------------------------------------------------------------------
(* Properties.                                                             *)

StopTypeOK ==
    /\ TypeOK
    /\ unprefixed \subseteq Leftovers
    /\ stage \in Stages
    /\ todo \subseteq VApps
    /\ loopDone \in BOOLEAN
    /\ ctxDone \in BOOLEAN
    /\ abandoned \subseteq VApps
    /\ shutdownErr \in BOOLEAN
    /\ notDeleted \subseteq VApps

\* Shutdown deletes only when nothing else runs: no create that could still
\* build on the vApp, no other goroutine deleting it (the order of Shutdown's
\* waits, and drain in src/oplimiter.go).
NothingRunsBesideShutdown ==
    stage \in {"cleaning", "deleting"} => loopDone /\ \A s \in Slots : ops[s] = Free

\* When Shutdown returns within its context, a vApp of this run, or one that
\* the store adopted, is left only if Shutdown tried and did not delete it, if its
\* POST was still to be committed when Shutdown looked, if its name lacks the
\* prefix, or if an earlier cleanup gave up its name (the org or the VDC was not
\* found): nothing else slips between the cancelled creates, the cleanup of failed
\* creates and the store.
ShutdownMissesNothing ==
    stage = "returned" /\ ~ctxDone =>
       \A v \in VApps \ (notDeleted \cup (unprefixed \cap old)) :
          Exists(v) => v \in old \cup forgotten /\ byVAppHREF[v] = None

\* Once its context has ended Shutdown returns, whatever calls of vCD hang:
\* "each one is bounded by ctx" (src/reconciler.go).
ShutdownObeysContext == ctxDone ~> stage = "returned"

\* Without a deadline Shutdown waits for nothing but calls: the loop ends, cancelled
\* creates give their slots back and no new operation takes them for ever. If it
\* never returns, some call never does: "vCD calls may wait out the org operation
\* limit indefinitely" (src/reconciler.go:723).
ShutdownWaitsOnlyForCalls == CallsEnd => (Stopping ~> stage = "returned")

\* Shutdown "cleans up all instances" (src/instancegroup.go:90): when it reports
\* no error, no instance of the store is left in vCD.
ShutdownCleansUpAll ==
    stage = "returned" /\ ~shutdownErr =>
       \A i \in InPhase("Running") : ~Exists(instances[i].ID)

=============================================================================

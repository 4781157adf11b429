----------------------------- MODULE Reconciler -----------------------------
(***************************************************************************)
(* vcdInstanceGroup (src/reconciler.go) with the vCD operations it runs    *)
(* (src/vcd.go, src/vcd_create.go) and the limiter that bounds them        *)
(* (src/oplimiter.go).                                                     *)
(*                                                                         *)
(* Three kinds of goroutine share the store, the two ownership maps and    *)
(* vCD itself: the reconcile loop (pc, work, cur), one goroutine per       *)
(* operation in progress (ops), and the callers of Increase and Decrease.  *)
(* An action is the stretch of one goroutine between two accesses to       *)
(* shared state; a vCD call is one action that chooses its outcome.        *)
(***************************************************************************)
EXTENDS Store

CONSTANTS
    Slots,                    \* the limiter's slots: MaxConcurrentOperations
    MaxConcurrentCreates,
    MaxConcurrentDeletes,
    circuitBreakerThreshold,
    Leftovers,                \* vApps a previous run left, labelled
    ListingMayOmit,           \* may a search miss a labelled vApp?
    VAppsMayVanish,           \* may someone else delete our vApps?
    MaxRestarts               \* bound on the crashes considered

ASSUME ReconcilerAssumption ==
    /\ IsFiniteSet(Slots)
    /\ MaxConcurrentCreates \in Nat \ {0}
    /\ MaxConcurrentDeletes \in Nat \ {0}
    /\ circuitBreakerThreshold \in Nat \ {0}
    /\ Leftovers \subseteq VApps
    /\ ListingMayOmit \in BOOLEAN
    /\ VAppsMayVanish \in BOOLEAN
    /\ MaxRestarts \in Nat

VARIABLES
    vcd,                    \* what vCD holds under each vApp name
    inflightCreates,        \* InstanceGroup.inflightCreates
    failedCreateCleanups,   \* InstanceGroup.failedCreateCleanups
    ops,                    \* the operation that holds each slot
    pc,                     \* where the reconcile goroutine is
    work,                   \* what the loop it is in has still to visit
    cur,                    \* the vApp pollVCD is deciding about
    known,                  \* pollVCD's knownHREFs
    pollOK,                 \* did the last pollVCD return nil?
    startup,                \* startupHold and startupPolled
    createFailures,         \* consecutiveCreateFailures, capped at the threshold
    breakerOpen,            \* now is before circuitBreakerUntil
    old,                    \* ghost: the vApps of earlier runs
    forgotten,              \* ghost: the vApps whose cleanup was given up
    restarts                \* ghost: crashes so far

ownerVars == <<inflightCreates, failedCreateCleanups>>
loopVars == <<pc, work, cur, known, pollOK>>
breakerVars == <<createFailures, breakerOpen>>
ghostVars == <<old, forgotten, restarts>>
vars == <<storeVars, vcd, ownerVars, ops, loopVars, startup, breakerVars,
          ghostVars>>

\* "late": a POST that vCD will still commit. "bare": a vApp without the group's
\* metadata, which no search returns. "tagged": a vApp with it.
VAppStates == {"absent", "late", "bare", "tagged"}

Exists(v) == vcd[v] \in {"bare", "tagged"}

CreatePcs == {"init", "post", "meta", "build", "created", "record",
              "abort", "disown", "failed"}
DeletePcs == {"delete", "deleteOK", "deleteErr"}
CleanupPcs == {"cleanup", "cleanupOK", "cleanupErr"}

LoopPcs == {"idle", "read", "poll", "inflight", "owned", "adopt", "hold",
            "dispatchCreates", "createLoop", "deleteLoop", "cleanupLoop"}

Op == [pc : {"free"} \cup CreatePcs \cup DeletePcs \cup CleanupPcs,
       intent : IDs \cup {None},
       vapp : VApps \cup {None}]

Free == [pc |-> "free", intent |-> None, vapp |-> None]

NewOp(at, i, v) == [pc |-> at, intent |-> i, vapp |-> v]

Init ==
    /\ newDesiredStateStore
    /\ vcd = [v \in VApps |-> IF v \in Leftovers THEN "tagged" ELSE "absent"]
    /\ inflightCreates = {}
    /\ failedCreateCleanups = {}
    /\ ops = [s \in Slots |-> Free]
    /\ pc = "idle"
    /\ work = {}
    /\ cur = None
    /\ known = {}
    /\ pollOK = FALSE
    /\ startup = "unpolled"
    /\ createFailures = 0
    /\ breakerOpen = FALSE
    /\ old = Leftovers
    /\ forgotten = {}
    /\ restarts = 0

-----------------------------------------------------------------------------
(* Slots and the operation limiter.                                        *)

OpsAt(pcs) == {s \in Slots : ops[s].pc \in pcs}

Goto(s, at) == ops' = [ops EXCEPT ![s].pc = at]

\* The goroutine of slot s ends and releases its slot.
release(s) == ops' = [ops EXCEPT ![s] = Free]

tryAcquireCreate(s) ==
    /\ ops[s] = Free
    /\ Cardinality(OpsAt(CreatePcs)) < MaxConcurrentCreates

\* With more than one slot, deletes leave the last one to creates.
tryAcquireDelete(s) ==
    LET size == Cardinality(Slots)
        deletesInUse == Cardinality(OpsAt(DeletePcs \cup CleanupPcs))
    IN  /\ ops[s] = Free
        /\ deletesInUse < MaxConcurrentDeletes
        /\ size > 1 => deletesInUse < size - 1

-----------------------------------------------------------------------------
(* pollVCD.                                                                *)

\* The group could not be listed: no instance is touched.
PollFails ==
    /\ pc = "idle"
    /\ pc' = "hold"
    /\ pollOK' = FALSE
    /\ UNCHANGED <<storeVars, vcd, ownerVars, ops, work, cur, known, startup,
                   breakerVars, ghostVars>>

\* The search by metadata.
SearchByFilter ==
    LET tagged == {v \in VApps : vcd[v] = "tagged"} IN
    /\ pc = "idle"
    /\ pc' = "read"
    /\ work' \in IF ListingMayOmit THEN SUBSET tagged ELSE {tagged}
    /\ UNCHANGED <<storeVars, vcd, ownerVars, ops, cur, known, pollOK, startup,
                   breakerVars, ghostVars>>

\* A listed vApp that is gone by now is dropped; one that could not be read
\* is known but not visited.
readListedVApps(unread) ==
    /\ pc = "read"
    /\ pc' = "poll"
    /\ work' = {v \in work \ unread : Exists(v)}
    /\ known' = unread \cup {v \in work : Exists(v)}
    /\ pollOK' = (unread = {})
    /\ UNCHANGED <<storeVars, vcd, ownerVars, ops, cur, startup, breakerVars,
                   ghostVars>>

\* A tracked vApp. The VM of an instance of our own is read too: when that
\* fails the last observed state is kept, and with it MissedPolls.
PollTracked(v, vmRead) ==
    /\ pc = "poll"
    /\ v \in work
    /\ byVAppHREF[v] # None
    /\ vmRead \/ ~Leftover(byVAppHREF[v])
    /\ IF vmRead THEN UpdateFromVCD(v) ELSE UNCHANGED storeVars
    /\ work' = work \ {v}
    /\ UNCHANGED <<vcd, ownerVars, ops, pc, cur, known, pollOK, startup,
                   breakerVars, ghostVars>>

PollUntracked(v) ==
    /\ pc = "poll"
    /\ v \in work
    /\ byVAppHREF[v] = None
    /\ pc' = "inflight"
    /\ cur' = v
    /\ work' = work \ {v}
    /\ UNCHANGED <<storeVars, vcd, ownerVars, ops, known, pollOK, startup,
                   breakerVars, ghostVars>>

\* ownsVApp with the two loads swapped.
ownsVAppSwapped ==
    /\ \/ pc = "inflight" /\ pc' = IF cur \in failedCreateCleanups THEN "poll" ELSE "owned"
       \/ pc = "owned" /\ pc' = IF cur \in inflightCreates THEN "poll" ELSE "adopt"
    /\ cur' = IF pc' = "poll" THEN None ELSE cur
    /\ UNCHANGED <<storeVars, vcd, ownerVars, ops, work, known, pollOK, startup,
                   breakerVars, ghostVars>>

\* Two loads of two maps, in this order.
ownsVApp ==
    /\ \/ pc = "inflight" /\ pc' = IF cur \in inflightCreates THEN "poll" ELSE "owned"
       \/ pc = "owned" /\ pc' = IF cur \in failedCreateCleanups THEN "poll" ELSE "adopt"
    /\ cur' = IF pc' = "poll" THEN None ELSE cur
    /\ UNCHANGED <<storeVars, vcd, ownerVars, ops, work, known, pollOK, startup,
                   breakerVars, ghostVars>>

PollAdopts ==
    /\ pc = "adopt"
    /\ AddLeftover(cur)
    /\ pc' = "poll"
    /\ cur' = None
    /\ UNCHANGED <<vcd, ownerVars, ops, work, known, pollOK, startup,
                   breakerVars, ghostVars>>

\* An empty listing counts no misses while the store has instances.
PollEnds ==
    /\ pc = "poll"
    /\ work = {}
    /\ IF known # {} \/ Size = 0 THEN MarkDisappeared(known)
       ELSE UNCHANGED storeVars
    /\ pc' = "hold"
    /\ known' = {}
    /\ UNCHANGED <<vcd, ownerVars, ops, work, cur, pollOK, startup,
                   breakerVars, ghostVars>>

-----------------------------------------------------------------------------
(* The startup hold and the dispatch steps.                                *)

\* The hold ends as soon as no leftover is known, polled or not.
updateStartupHoldUnpolled(timeout) ==
    /\ pc = "hold"
    /\ startup' =
          IF startup \in {"clean", "timedOut"} THEN startup
          ELSE IF LeftoverCount = 0 THEN "clean"
          ELSE IF timeout THEN "timedOut"
          ELSE "held"
    /\ pc' = "dispatchCreates"
    /\ pollOK' = FALSE
    /\ UNCHANGED <<storeVars, vcd, ownerVars, ops, work, cur, known,
                   breakerVars, ghostVars>>

\* Holding: "unpolled" until a complete poll, then "held" until no leftover
\* remains ("clean") or StartupCleanupTimeout has passed ("timedOut").
updateStartupHold(timeout) ==
    /\ pc = "hold"
    /\ startup' =
          IF startup \in {"clean", "timedOut"} THEN startup
          ELSE IF startup = "unpolled" /\ ~pollOK THEN "unpolled"
          ELSE IF LeftoverCount = 0 THEN "clean"
          ELSE IF timeout /\ startup = "held" THEN "timedOut"
          ELSE "held"
    /\ pc' = "dispatchCreates"
    /\ pollOK' = FALSE
    /\ UNCHANGED <<storeVars, vcd, ownerVars, ops, work, cur, known,
                   breakerVars, ghostVars>>

\* A dispatch loop ends when its work is done or when tryAcquire refuses: no
\* slot, or the throttle gate is paused, which the model allows at any time.
\* So the step after a loop may be taken whatever work is left.

\* The startup hold, or the circuit breaker's cooldown after a trip.
CreatesHeld ==
    \/ startup \in {"unpolled", "held"}
    \/ createFailures >= circuitBreakerThreshold /\ breakerOpen

dispatchCreates ==
    /\ pc = "dispatchCreates"
    /\ work' \in IF CreatesHeld THEN {{}} ELSE PendingSnapshots("PendingCreate")
    /\ pc' = "createLoop"
    /\ UNCHANGED <<storeVars, vcd, ownerVars, ops, cur, known, pollOK, startup,
                   breakerVars, ghostVars>>

DispatchCreate(i, s) ==
    /\ pc = "createLoop"
    /\ i \in work
    /\ tryAcquireCreate(s)
    /\ UpdateInstance(i, [instances[i] EXCEPT !.Phase = "Creating"])
    /\ ops' = [ops EXCEPT ![s] = NewOp("init", i, None)]
    /\ work' = work \ {i}
    /\ UNCHANGED <<vcd, ownerVars, pc, cur, known, pollOK, startup,
                   breakerVars, ghostVars>>

dispatchDeletes ==
    /\ pc = "createLoop"
    /\ work' \in PendingSnapshots("PendingDelete")
    /\ pc' = "deleteLoop"
    /\ UNCHANGED <<storeVars, vcd, ownerVars, ops, cur, known, pollOK, startup,
                   breakerVars, ghostVars>>

\* Like the code, this does not look at the entry's phase again.
DispatchDelete(i, s) ==
    /\ pc = "deleteLoop"
    /\ i \in work
    /\ tryAcquireDelete(s)
    /\ UpdateInstance(i, [instances[i] EXCEPT !.Phase = "Deleting"])
    /\ ops' = [ops EXCEPT ![s] = NewOp("delete", i, instances[i].ID)]
    /\ work' = work \ {i}
    /\ UNCHANGED <<vcd, ownerVars, pc, cur, known, pollOK, startup,
                   breakerVars, ghostVars>>

dispatchCreateCleanups ==
    /\ pc = "deleteLoop"
    /\ pc' = "cleanupLoop"
    /\ work' = failedCreateCleanups
    /\ UNCHANGED <<storeVars, vcd, ownerVars, ops, cur, known, pollOK, startup,
                   breakerVars, ghostVars>>

\* The names with a cleanup in flight, which are passed over.
backgroundDeletes == {ops[s].vapp : s \in OpsAt(CleanupPcs)}

DispatchCleanup(v, s) ==
    /\ pc = "cleanupLoop"
    /\ v \in work
    /\ v \notin backgroundDeletes
    /\ tryAcquireDelete(s)
    /\ ops' = [ops EXCEPT ![s] = NewOp("cleanup", None, v)]
    /\ work' = work \ {v}
    /\ UNCHANGED <<storeVars, vcd, ownerVars, pc, cur, known, pollOK, startup,
                   breakerVars, ghostVars>>

\* gcCheck and Prune end the cycle.
GCAndPrune ==
    /\ pc = "cleanupLoop"
    /\ \E aged \in SUBSET InPhase("Running"), dead \in SUBSET InPhase("Deleted") :
          CollectAndPrune(aged, dead)
    /\ pc' = "idle"
    /\ work' = {}
    /\ UNCHANGED <<vcd, ownerVars, ops, cur, known, pollOK, startup,
                   breakerVars, ghostVars>>

-----------------------------------------------------------------------------
(* doCreate and createInstance.                                            *)

\* Names are random. A name may stand for a new one when nothing refers to it.
Fresh(v) ==
    /\ vcd[v] = "absent"
    /\ byVAppHREF[v] = None
    /\ v \notin inflightCreates \cup failedCreateCleanups \cup work \cup known
    /\ v # cur
    /\ \A s \in Slots : ops[s].vapp # v

\* A lookup before the name is chosen failed.
CreatePreludeFails(s) ==
    /\ ops[s].pc = "init"
    /\ Goto(s, "failed")
    /\ UNCHANGED <<storeVars, vcd, ownerVars, loopVars, startup, breakerVars,
                   ghostVars>>

ChooseName(s, v) ==
    /\ ops[s].pc = "init"
    /\ Fresh(v)
    /\ inflightCreates' = inflightCreates \cup {v}
    /\ ops' = [ops EXCEPT ![s].pc = "post", ![s].vapp = v]
    /\ old' = old \ {v}
    /\ forgotten' = forgotten \ {v}
    /\ UNCHANGED <<storeVars, vcd, failedCreateCleanups, loopVars, startup,
                   breakerVars, restarts>>

\* createRawVApp. It fails before the POST, after it, or with the POST still
\* on its way to being committed.
createRawVApp(s, ok, state) ==
    /\ ops[s].pc = "post"
    /\ IF ok THEN state = "bare" ELSE state \in {"absent", "bare", "late"}
    /\ vcd' = [vcd EXCEPT ![ops[s].vapp] = state]
    /\ Goto(s, IF ok THEN "meta" ELSE "abort")
    /\ UNCHANGED <<storeVars, ownerVars, loopVars, startup, breakerVars,
                   ghostVars>>

\* The metadata call; when it fails the entry may have been stored anyway.
AddMetadata(s, ok, state) ==
    LET v == ops[s].vapp IN
    /\ ops[s].pc = "meta"
    /\ IF ok THEN Exists(v) /\ state = "tagged"
       ELSE IF Exists(v) THEN state \in {"bare", "tagged"}
       ELSE state = vcd[v]
    /\ vcd' = [vcd EXCEPT ![v] = state]
    /\ Goto(s, IF ok THEN "build" ELSE "abort")
    /\ UNCHANGED <<storeVars, ownerVars, loopVars, startup, breakerVars,
                   ghostVars>>

\* Network, VM, guest customisation, power on, SSH: the vApp stays labelled.
BuildVM(s, ok) ==
    /\ ops[s].pc = "build"
    /\ ok => Exists(ops[s].vapp)
    /\ Goto(s, IF ok THEN "created" ELSE "abort")
    /\ UNCHANGED <<storeVars, vcd, ownerVars, loopVars, startup, breakerVars,
                   ghostVars>>

\* The deferred function forgets to hand the name to the cleanup.
AbortForgets(s) ==
    /\ ops[s].pc = "abort"
    /\ Goto(s, "disown")
    /\ UNCHANGED <<storeVars, vcd, ownerVars, loopVars, startup, breakerVars,
                   ghostVars>>

\* The deferred function of createInstance: first the cleanup takes the name...
Abort(s) ==
    /\ ops[s].pc = "abort"
    /\ failedCreateCleanups' = failedCreateCleanups \cup {ops[s].vapp}
    /\ Goto(s, "disown")
    /\ UNCHANGED <<storeVars, vcd, inflightCreates, loopVars, startup,
                   breakerVars, ghostVars>>

\* ...then the create gives it up.
Disown(s) ==
    /\ ops[s].pc = "disown"
    /\ inflightCreates' = inflightCreates \ {ops[s].vapp}
    /\ Goto(s, "failed")
    /\ UNCHANGED <<storeVars, vcd, failedCreateCleanups, loopVars, startup,
                   breakerVars, ghostVars>>

recordCreateFailure ==
    LET failures == IF createFailures < circuitBreakerThreshold
                    THEN createFailures + 1 ELSE createFailures
    IN  /\ createFailures' = failures
        /\ breakerOpen' = (breakerOpen \/ failures >= circuitBreakerThreshold)

recordCreateSuccess ==
    /\ createFailures' = 0
    /\ UNCHANGED breakerOpen

\* The failed intent is left in Creating.
CreateReturnsErrorStuck(s) ==
    /\ ops[s].pc = "failed"
    /\ recordCreateFailure
    /\ UpdateInstance(ops[s].intent, [instances[ops[s].intent] EXCEPT !.Retry = TRUE])
    /\ release(s)
    /\ UNCHANGED <<vcd, ownerVars, loopVars, startup, ghostVars>>

\* The failed intent is dropped.
CreateReturnsErrorDrops(s) ==
    /\ ops[s].pc = "failed"
    /\ recordCreateFailure
    /\ instances' = [instances EXCEPT ![ops[s].intent] = NoInstance]
    /\ release(s)
    /\ UNCHANGED <<byVAppHREF, vcd, ownerVars, loopVars, startup, ghostVars>>

CreateReturnsError(s) ==
    /\ ops[s].pc = "failed"
    /\ recordCreateFailure
    /\ UpdateInstance(ops[s].intent,
          [instances[ops[s].intent] EXCEPT !.Phase = "PendingCreate", !.Retry = TRUE])
    /\ release(s)
    /\ UNCHANGED <<vcd, ownerVars, loopVars, startup, ghostVars>>

CreateReturnsOK(s) ==
    /\ ops[s].pc = "created"
    /\ recordCreateSuccess
    /\ UpdateInstance(ops[s].intent,
          [instances[ops[s].intent] EXCEPT !.Phase = "Running",
                                           !.ID = ops[s].vapp, !.Retry = FALSE])
    /\ Goto(s, "record")
    /\ UNCHANGED <<vcd, ownerVars, loopVars, startup, ghostVars>>

\* The name is given up only once the store has the HREF.
createRecorded(s) ==
    /\ ops[s].pc = "record"
    /\ inflightCreates' = inflightCreates \ {ops[s].vapp}
    /\ release(s)
    /\ UNCHANGED <<storeVars, vcd, failedCreateCleanups, loopVars, startup,
                   breakerVars, ghostVars>>

-----------------------------------------------------------------------------
(* doDelete and the cleanup of failed creates.                             *)

\* deleteInstance: success means the vApp is gone (it may have been gone
\* already); an error may come after vCD deleted it.
deleteInstance(s, ok, gone) ==
    /\ ops[s].pc = "delete"
    /\ ok => gone
    /\ vcd' = IF gone /\ Exists(ops[s].vapp)
              THEN [vcd EXCEPT ![ops[s].vapp] = "absent"] ELSE vcd
    /\ Goto(s, IF ok THEN "deleteOK" ELSE "deleteErr")
    /\ UNCHANGED <<storeVars, ownerVars, loopVars, startup, breakerVars,
                   ghostVars>>

DeleteReturnsError(s) ==
    /\ ops[s].pc = "deleteErr"
    /\ UpdateInstance(ops[s].intent,
          [instances[ops[s].intent] EXCEPT !.Phase = "PendingDelete", !.Retry = TRUE])
    /\ release(s)
    /\ UNCHANGED <<vcd, ownerVars, loopVars, startup, breakerVars, ghostVars>>

DeleteReturnsOK(s) ==
    /\ ops[s].pc = "deleteOK"
    /\ UpdateInstance(ops[s].intent,
          [instances[ops[s].intent] EXCEPT !.Phase = "Deleted", !.Retry = FALSE])
    /\ release(s)
    /\ UNCHANGED <<vcd, ownerVars, loopVars, startup, breakerVars, ghostVars>>

\* "Not found" ends the cleanup at once, without the wait for a late POST.
cleanUpInstanceByNameHasty(s, ok, gone) ==
    LET v == ops[s].vapp IN
    /\ ops[s].pc = "cleanup"
    /\ vcd' = IF gone /\ Exists(v) THEN [vcd EXCEPT ![v] = "absent"] ELSE vcd
    /\ Goto(s, IF ok THEN "cleanupOK" ELSE "cleanupErr")
    /\ UNCHANGED <<storeVars, ownerVars, loopVars, startup, breakerVars,
                   ghostVars>>

\* The lookup by name finds a vApp with or without the label. "ok" means that
\* the name counts as cleaned up. "Not found" does so only after
\* safeCallMaxElapsedTime, by when a POST on its way has been committed; but the
\* lookups of the org and the VDC answer it too, with the vApp in place: ok
\* and not gone.
cleanUpInstanceByName(s, ok, gone) ==
    LET v == ops[s].vapp IN
    /\ ops[s].pc = "cleanup"
    /\ ok => vcd[v] # "late"
    /\ vcd' = IF gone /\ Exists(v) THEN [vcd EXCEPT ![v] = "absent"] ELSE vcd
    /\ Goto(s, IF ok THEN "cleanupOK" ELSE "cleanupErr")
    /\ UNCHANGED <<storeVars, ownerVars, loopVars, startup, breakerVars,
                   ghostVars>>

CleanupReturns(s) ==
    LET v == ops[s].vapp
        done == ops[s].pc = "cleanupOK"
    IN  /\ ops[s].pc \in {"cleanupOK", "cleanupErr"}
        /\ failedCreateCleanups' = IF done THEN failedCreateCleanups \ {v}
                                   ELSE failedCreateCleanups
        /\ forgotten' = IF done /\ Exists(v) THEN forgotten \cup {v} ELSE forgotten
        /\ release(s)
        /\ UNCHANGED <<storeVars, vcd, inflightCreates, loopVars, startup,
                       breakerVars, old, restarts>>

-----------------------------------------------------------------------------
(* Callers of the provider interface, vCD, time and crashes.               *)

\* Intent IDs are random too.
Increase(i) ==
    /\ ~Tracked(i)
    /\ i \notin work
    /\ \A s \in Slots : ops[s].intent # i
    /\ AddCreateIntent(i)
    /\ UNCHANGED <<vcd, ownerVars, ops, loopVars, startup, breakerVars,
                   ghostVars>>

Decrease(id) ==
    /\ MarkForDeletion(id)
    /\ UNCHANGED <<vcd, ownerVars, ops, loopVars, startup, breakerVars,
                   ghostVars>>

LateCommit(v) ==
    /\ vcd[v] = "late"
    /\ vcd' = [vcd EXCEPT ![v] = "bare"]
    /\ UNCHANGED <<storeVars, ownerVars, ops, loopVars, startup, breakerVars,
                   ghostVars>>

\* Someone else deletes a vApp.
VAppVanishes(v) ==
    /\ VAppsMayVanish
    /\ Exists(v)
    /\ vcd' = [vcd EXCEPT ![v] = "absent"]
    /\ UNCHANGED <<storeVars, ownerVars, ops, loopVars, startup, breakerVars,
                   ghostVars>>

CooldownEnds ==
    /\ breakerOpen
    /\ breakerOpen' = FALSE
    /\ UNCHANGED <<storeVars, vcd, ownerVars, ops, loopVars, startup,
                   createFailures, ghostVars>>

\* The process dies and a new one starts: only vCD keeps anything. A request on
\* its way when the process dies may still be carried out.
Restart(sent) ==
    LET at(p) == {ops[s].vapp : s \in OpsAt({p})} IN
    /\ restarts < MaxRestarts
    /\ sent \subseteq at("post") \cup {v \in at("meta") : Exists(v)}
    /\ vcd' = [v \in VApps |-> IF v \notin sent THEN vcd[v]
                               ELSE IF v \in at("post") THEN "late" ELSE "tagged"]
    /\ old' = {v \in VApps : vcd'[v] # "absent"}
    /\ forgotten' = {}
    /\ restarts' = restarts + 1
    /\ instances' = [i \in IDs |-> NoInstance]
    /\ byVAppHREF' = [v \in VApps |-> None]
    /\ inflightCreates' = {}
    /\ failedCreateCleanups' = {}
    /\ ops' = [s \in Slots |-> Free]
    /\ pc' = "idle"
    /\ work' = {}
    /\ cur' = None
    /\ known' = {}
    /\ pollOK' = FALSE
    /\ startup' = "unpolled"
    /\ createFailures' = 0
    /\ breakerOpen' = FALSE

-----------------------------------------------------------------------------

reconcileOnce ==
    \/ PollFails
    \/ SearchByFilter
    \/ \E unread \in SUBSET work : readListedVApps(unread)
    \/ \E v \in VApps, vmRead \in BOOLEAN : PollTracked(v, vmRead)
    \/ \E v \in VApps : PollUntracked(v)
    \/ ownsVApp
    \/ PollAdopts
    \/ PollEnds
    \/ \E timeout \in BOOLEAN : updateStartupHold(timeout)
    \/ dispatchCreates
    \/ \E i \in Intents, s \in Slots : DispatchCreate(i, s)
    \/ dispatchDeletes
    \/ \E i \in IDs, s \in Slots : DispatchDelete(i, s)
    \/ dispatchCreateCleanups
    \/ \E v \in VApps, s \in Slots : DispatchCleanup(v, s)
    \/ GCAndPrune

doCreate(s) ==
    \/ CreatePreludeFails(s)
    \/ \E v \in VApps : ChooseName(s, v)
    \/ \E ok \in BOOLEAN, state \in VAppStates : createRawVApp(s, ok, state)
    \/ \E ok \in BOOLEAN, state \in VAppStates : AddMetadata(s, ok, state)
    \/ \E ok \in BOOLEAN : BuildVM(s, ok)
    \/ Abort(s)
    \/ Disown(s)
    \/ CreateReturnsError(s)
    \/ CreateReturnsOK(s)
    \/ createRecorded(s)

doDelete(s) ==
    \/ \E ok, gone \in BOOLEAN : deleteInstance(s, ok, gone)
    \/ DeleteReturnsError(s)
    \/ DeleteReturnsOK(s)

doCleanup(s) ==
    \/ \E ok, gone \in BOOLEAN : cleanUpInstanceByName(s, ok, gone)
    \/ CleanupReturns(s)

Environment ==
    \/ \E i \in Intents : Increase(i)
    \/ \E id \in IDs : Decrease(id)
    \/ \E v \in VApps : LateCommit(v)
    \/ \E v \in VApps : VAppVanishes(v)
    \/ CooldownEnds
    \/ \E sent \in SUBSET VApps : Restart(sent)

Next ==
    \/ reconcileOnce
    \/ \E s \in Slots : doCreate(s) \/ doDelete(s) \/ doCleanup(s)
    \/ Environment

Spec == Init /\ [][Next]_vars

-----------------------------------------------------------------------------
(* Properties.                                                             *)

\* The variables keep their types; in particular every delete and cleanup in
\* progress has a vApp to delete (dispatchDeletes, src/reconciler.go).
TypeOK ==
    /\ StoreTypeOK
    /\ vcd \in [VApps -> VAppStates]
    /\ inflightCreates \subseteq VApps
    /\ failedCreateCleanups \subseteq VApps
    /\ ops \in [Slots -> Op]
    /\ \A s \in Slots : ops[s].pc \in DeletePcs \cup CleanupPcs => ops[s].vapp # None
    /\ pc \in LoopPcs
    /\ work \subseteq IDs
    /\ cur \in VApps \cup {None}
    /\ known \subseteq VApps
    /\ pollOK \in BOOLEAN
    /\ startup \in {"unpolled", "held", "clean", "timedOut"}
    /\ createFailures \in 0 .. circuitBreakerThreshold
    /\ breakerOpen \in BOOLEAN
    /\ old \subseteq VApps
    /\ forgotten \subseteq VApps
    /\ restarts \in 0 .. MaxRestarts

\* desiredStateStore's two maps agree: the HREF index leads to the entry that
\* carries the HREF, and every entry with an HREF is found under it (prune,
\* discovery and the create's own update all write both maps).
IndexConsistent ==
    /\ \A v \in VApps : byVAppHREF[v] # None =>
          /\ Tracked(byVAppHREF[v])
          /\ instances[byVAppHREF[v]].ID = v
    /\ \A i \in IDs : instances[i].ID # None => byVAppHREF[instances[i].ID] = i

\* A vApp in use: its create has not failed, or it backs a Running instance.
LiveCreate(v) ==
    \E s \in OpsAt({"post", "meta", "build", "created"}) : ops[s].vapp = v

Live(v) ==
    LiveCreate(v) \/ \E i \in InPhase("Running") : instances[i].ID = v

\* No goroutine is deleting a vApp in use, neither as a leftover that discovery
\* adopted, nor as a failed create (pollVCD against doCreate: the ownership
\* handover of inflightCreates, failedCreateCleanups and the store).
NeverDeletesLive ==
    \A s \in OpsAt({"delete", "cleanup"}) : ~Live(ops[s].vapp)

\* A create runs once per intent, and a vApp is deleted by one goroutine at a
\* time, whether as an instance, as a leftover or as a failed create. Only a vApp
\* whose cleanup was given up may be adopted by discovery and deleted, while a
\* cleanup from a Range that still had the name runs (dispatchCreateCleanups).
OneOperationEach ==
    \A s, t \in Slots : s # t =>
       /\ {s, t} \subseteq OpsAt(CreatePcs) => ops[s].intent # ops[t].intent
       /\ {s, t} \subseteq OpsAt({"delete", "cleanup"}) /\ ops[s].vapp = ops[t].vapp =>
             ops[s].pc # ops[t].pc /\ ops[s].vapp \in forgotten

\* A vApp of this run that no search can return is remembered by name, so the
\* cleanup of failed creates can reach it (createInstance's deferred function),
\* unless its cleanup was given up because the org or the VDC was not found.
NoInvisibleOrphan ==
    \A v \in VApps \ (old \cup forgotten) :
       vcd[v] \in {"late", "bare"} => v \in inflightCreates \cup failedCreateCleanups

\* The same without that exception, as the comment on dispatchCreateCleanups
\* says: "Failed creates may not have received metadata yet, so discovery cannot
\* be relied on for cleanup. Retain their names until deletion is confirmed."
\* (src/reconciler.go:565)
NamesRetained ==
    \A v \in VApps \ old :
       vcd[v] \in {"late", "bare"} => v \in inflightCreates \cup failedCreateCleanups

\* An instance on its way out never comes back, and an entry keeps its vApp
\* until it is pruned: polls, GC, Decrease and late results of creates and
\* deletes may not undo each other.
InstanceLifecycle ==
    [][\A i \in IDs :
         LET was == instances[i]
             is == instances'[i]
         IN  /\ was.Phase \in {"PendingDelete", "Deleting", "Deleted"} =>
                    is.Phase \notin {"PendingCreate", "Creating", "Running"}
             /\ was.ID # None => is.ID \in {was.ID, None}
             /\ was.Phase \in {"Running", "PendingDelete", "Deleting"} =>
                    is.Phase # "Untracked" \/ restarts' # restarts]_vars

\* The startup hold ends without a timeout only when every labelled vApp of the
\* previous run is gone (updateStartupHold).
HoldEndsClean ==
    [][startup # "clean" /\ startup' = "clean" =>
         \A v \in old : vcd[v] # "tagged"]_vars

\* The same for every vApp of the previous run, as the comment on startupHold
\* says: "held after a start until the vApps left by the previous run are
\* deleted" (src/reconciler.go:111).
HoldEndsEmpty ==
    [][startup # "clean" /\ startup' = "clean" =>
         \A v \in old : vcd[v] = "absent"]_vars

\* MissedPolls counts consecutive polls: one that lists the vApp leaves no miss
\* behind (the comment on Instance.MissedPolls, src/instancegroup.go).
MissesAreConsecutive ==
    [][pc = "poll" /\ pc' = "hold" =>
         \A i \in IDs : instances[i].ID \in known => instances'[i].MissedPolls = 0]_vars

=============================================================================

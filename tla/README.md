# A verification development for fleeting-plugin-vcd

`fleeting-plugin-vcd` is a GitLab *fleeting* plugin: it keeps a group of virtual
machines in VMware Cloud Director (vCD), one VM per vApp, at the size the
autoscaler asks for. Callers write what they want into a store; a reconcile loop
compares the store with what vCD lists and starts creates and deletes, each in a
goroutine of its own. This directory holds TLA+ specifications of that machinery,
the TLC configurations that check them and TLAPS proofs of the properties that
matter most.

Run TLC with `tlc -config handover.cfg MCPromises` (the table of runs names the
module of each configuration) and the prover with `tlapm ReconcilerProofs.tla`, and
likewise the other `*Proofs` modules. `PROJECT.json` lists the runs, what each
definition translates (file and lines), the hazards, the mutants that show that the
properties can fail, and the theorems.

## The system

| component | state | operations | interacts with |
|---|---|---|---|
| desired-state store (`store.go`, `instancegroup.go`) | entries by intent ID (phase, HREF, missed polls, retry time), an index by HREF; one mutex | `AddCreateIntent`, `MarkForDeletion`, `UpdateInstance`, `AddLeftover`, `UpdateFromVCD`, `MarkDisappeared`, `MarkGC`, `Prune` | called by every goroutine |
| reconcile loop (`reconciler.go`) | startup hold, circuit breaker, cleanups in flight | `pollVCD`, `updateStartupHold`, `dispatchCreates`, `dispatchDeletes`, `dispatchCreateCleanups`, `gcCheck`, `Shutdown` | the store; starts `doCreate`, `doDelete` and cleanups |
| create (`createInstance` in `vcd.go`, `vcd_create.go`) | the two ownership maps `inflightCreates` and `failedCreateCleanups` | choose a name, POST the vApp, label it with metadata, build and start the VM, wait for SSH; a deferred function hands a failed create to the cleanup | vCD, discovery (through the maps) |
| delete (`deleteInstance`, `cleanUpInstanceByName`) | none | power off, undeploy, delete; by HREF or by name | vCD |
| operation limiter (`oplimiter.go`) | three semaphores, two counters, the create reserve | `tryAcquire`, `release`, `drain` | the dispatch steps, `Shutdown` |
| throttle gate (`throttle.go`) | end of the pause, backoff | `throttled`, `succeeded`, `paused`, `wait` | vCD calls, the limiter |
| vCD calls (`vcd_safe.go`) | none | `safeVCDCall` retries, `singleVCDCall` does not replay a mutation; both renew the session on 401 | session, throttle gate |
| session (`session.go`, `getVCDClient`) | client, RWMutex, `authGeneration`, time of the last login | `lockSession`, `refreshSession`, `authenticateLocked` | vCD calls |
| shutdown (`Shutdown` in `reconciler.go`) | `stopCh`, `doneCh`, the contexts of creates | stop the loop, cancel creates, drain the limiter, delete failed creates and what the store holds | everything above |
| provider (`provider.go`) | none of its own | `Increase`, `Decrease`, `Update`, `ConnectInfo`, `Heartbeat`, `Shutdown` | store and reconciler |
| configuration, debug server, status, metrics, scripts | | | read-only, or before the start |

What is hard here, and what correctness means:

- **Ownership of a vApp.** vCD lists every vApp that carries the group's label. A
  listed vApp that the store does not know is a leftover of an earlier run and is
  deleted, unless a create in flight or a failed create owns its name. The name
  moves from `inflightCreates` to the store, or to `failedCreateCleanups`, while
  the loop reads those three places one after the other. A gap deletes a VM in use,
  or deletes the same vApp twice.
- **vApps no search returns.** Between the POST and the metadata call a vApp is
  invisible to the search, and a POST whose answer was lost may be committed later.
  The names of such vApps must not be forgotten.
- **Late and stale results.** Dispatch loops work from snapshots; results of deletes
  arrive after the entry disappeared, was pruned or was adopted again.
- **Unreliable listings.** Searches are eventually consistent; vApps vanish or cannot
  be read. Instances may be declared gone only after several polls.
- **Restart.** Nothing is persisted. After a start creates are held until what the
  previous run left is deleted.
- **Progress.** The hold, the breaker, backoffs and the limiter all stop creates; in
  the end every intent must be served and every orphan removed.
- **One session, many goroutines.** Requests share a client that a token exchange
  rewrites. Several 401s at once must cost one exchange, no request may run beside it,
  and a mutation whose fate is unknown must not be sent again.
- **Two semaphores and a counter.** `tryAcquire` and `release` touch them one after the
  other; a slot taken of one only must be given back, and `drain` wants all of them.
- **Shutdown.** It races the loop, creates it has cancelled, deletes still running and
  its own deadline.
- **Tasks nobody waits for.** vCD goes on with a task when its waiter gave up, and
  refuses other requests for the vApp until it ends.

## Modules

| module | what it is |
|---|---|
| `Store` | the store's two maps and one operator per method; each method holds the mutex, so each is atomic |
| `Reconciler` (extends `Store`) | the reconcile loop, the goroutines of creates, deletes and cleanups, the ownership maps, the limiter, the circuit breaker, vCD, crashes; safety properties |
| `FairReconciler` (extends `Reconciler`) | failures that stop, fairness, the two progress properties |
| `Promises` (extends `Reconciler`) | what `Reconciler` promises to fleeting: it implements `FleetingView` |
| `FleetingView` | abstract: what `Update` tells fleeting over time |
| `Shutdown` (extends `Reconciler`) | `Shutdown` composed with the loop and the operations it stops |
| `Limiter` | abstract: slots with a limit, a limit for each kind, a slot left to creates, drain |
| `OpLimiter` | `tryAcquire`, `release` and `drain` step by step; implements `Limiter` |
| `ThrottleGate` | the shared pause after vCD's operation limit, with a clock |
| `Session` | the shared client, its RWMutex, the token exchange |
| `VCDCall` (extends `Session`) | `vcdCall` and its attempts, `getVCDClient` |
| `VAppContract` | abstract: what `Reconciler` assumes of `createInstance`, `deleteInstance` and `cleanUpInstanceByName` |
| `VAppLifecycle` | the single requests and task waits of those functions on one vApp; implements `VAppContract` |
| `MC*` | instances for TLC |
| `ReconcilerProofs` | theorems about `Reconciler`: its inductive invariant and what it implies |
| `OrphanProofs` (extends `ReconcilerProofs`) | who knows of each vApp and who works on it |
| `PromisesProofs` (extends `ReconcilerProofs`) | `Reconciler` implements `FleetingView` |
| `ShutdownProofs` (extends `OrphanProofs`) | theorems about `Shutdown` |
| `VAppProofs` | theorems about `VAppLifecycle`, and that it implements `VAppContract` |
| `VCDCallProofs`, `ThrottleProofs`, `LimiterProofs` | theorems about `VCDCall`, `ThrottleGate`, `OpLimiter` |

How they fit together: `VAppContract` has the steps that `Reconciler` takes for a vApp,
so `VAppLifecycle => VAppContract` justifies modelling a create as POST, metadata,
build and a delete as one outcome. `Limiter` is the limiter `Reconciler` relies on: the
guards `tryAcquireCreate` and `tryAcquireDelete` are those of its `Acquire`, and
`OpLimiter` shows that the step by step code provides it.
`FleetingView` is the promise to the outside. `VCDCall` and `ThrottleGate` are below
`VAppLifecycle`: they justify that a mutation takes effect at most once and that a
call that is cancelled ends.

### State of the reconciler

- `instances`, `byVAppHREF`: the store. An absent entry is in the phase `Untracked`.
  The index holds the entry's key where the code has a pointer. A leftover's intent
  ID is its HREF, as in `AddLeftover`. Timestamps are reduced to choices: an entry
  with a retry time (`Retry`) may or may not be in a snapshot, a Running entry may or
  may not be old enough for GC, a Deleted one for `Prune`.
- `vcd`: what vCD holds under each name: `absent`, `late` (a POST it will still
  commit), `bare` (no label), `tagged`. A vApp's name and HREF are one value.
- `ops`: what runs in each slot of the limiter, with its program counter.
- `pc`, `work`, `cur`, `known`, `pollOK`: the reconcile goroutine: where it is, what
  the loop it is in has still to visit, and `pollVCD`'s locals. `pc` goes through
  `idle` → `read` → `poll` (→ `inflight` → `owned` → `adopt` for an untracked vApp)
  → `hold` → `dispatchCreates` → `createLoop` → `deleteLoop` → `cleanupLoop` → `idle`.
- `startup`, `createFailures`, `breakerOpen`: the hold and the breaker.
- `old`, `restarts`: history, for the properties about restarts. `forgotten`: history
  too, the vApps whose cleanup counted as done although they were there (below). No
  guard reads them.

### Steps of the reconciler

An action is the stretch of one goroutine between two accesses to shared state. So
the check for a tracked HREF, the two loads of `ownsVApp` and `AddLeftover` are four
actions; the deferred function of `createInstance` is two (`Abort`, `Disown`);
`CreateReturnsOK` and `createRecorded` are two. A store method is one. A vCD call is
one action that chooses its outcome, including "failed, and vCD did it anyway".

Abstractions, each one an over-approximation of what the code may do:

- A dispatch loop may be left at any point: `tryAcquire` may refuse because the
  throttle gate is paused. The gate's clock is in `ThrottleGate`.
- The ticker and the trigger channel: a cycle may start whenever the loop is idle.
- A poll may fail to read any subset of the listed vApps, and any VM.
- `Range` over `failedCreateCleanups` is a snapshot taken at its start. A name that a
  cleanup drops meanwhile may so be visited once more; a `sync.Map` allows for it.
- The group search of the code also filters by name prefix (`vcd.go:527-530`);
  `SearchByFilter` returns every labelled vApp, so it adopts more.
- The names of vApps and intents are random in the code. Here a name may be chosen
  when nothing refers to it (`Fresh`), so a small set of names is never exhausted for
  long and histories of any length are covered.

Two assumptions are not. vCD commits a POST, if at all, within `safeCallMaxElapsedTime`
(5 minutes), after which the cleanup believes "not found" (`reconciler.go:594-595`). And
metadata that is on its way when the process dies takes effect, if at all, before the
first search of the next run (`Restart`).

`cleanUpInstanceByName` ends well (`ok`) in three ways: it deleted the vApp, nothing was
under the name for long enough, or the lookup of the org or of the VDC answered "not
found" for as long. The code returns that error unchanged (`vcd.go:644-656`) and the
caller takes it for the second way (`reconciler.go:595`), so the third drops the name of
a vApp that is there: `ok` and not `gone`. Such a vApp joins `forgotten`. If it has its
label, the next poll adopts it; if it has none, nothing in the program leads to it
(`Lost`). The properties name this exception, and `forgotten_name` shows that the code
has it.

`dispatchDeletes` has a branch for an entry without an HREF. It is not an action:
`TypeCorrect` and the invariant's `WorkFresh` show that no such entry is ever pending
deletion, so the branch is dead code.

### The other modules

**`OpLimiter`.** `total` and `perKind` are what is taken of the three semaphores,
`counter` is `createsInUse`/`deletesInUse`. `caller` is the reconcile goroutine inside
`tryAcquire` (the only caller), `op` each operation from `Add(1)` to the end of its
release, `drainer` the one call of `drain`. A semaphore call is one step; as in
`semaphore.Weighted`, `TryAcquire` fails while somebody waits in `Acquire`. `caller` at
`count` waits for an idle member of `Ops`, so `Ops` is larger than the slots.

**`ThrottleGate`.** Time is what is left of the pause and of each call's timer; `Tick`
takes one unit off all of them at any moment, so calls may be arbitrarily slow but no
timer is late by itself. `Pauses` is the jittered backoff.

**`Session`, `VCDCall`.** `writer` is announced before the readers have left, as in
Go's `RWMutex`: `Announce` and `Enter` are the two halves of `Lock`. A request ends
with none, the operation limit, 401, a permanent error or another one, and the last two
may hide that vCD carried it out; `ReadAfter` is what an SDK method reads after its
request, which may be a 401 for a mutation that succeeded. The attempt after a renewal
looks at neither the operation limit nor a second 401 (`vcdCall`). When the exchange of
`lockSession` itself fails with 401 the attempt reports generation 0; `refreshSession(0)`
then sees a newer generation, exchanges nothing and the attempt is repeated. Both are
as in the code. A single call may wait for the operation limit until its context ends.

**`VAppLifecycle`.** `LookupMisleads` is the lookup of the org or the VDC that is taken for
one of the vApp: the create ends `forgotten`, and `VAppContract` has the step as `Forget`.
Only a delete by HREF, after a poll has adopted the labelled vApp, can follow.
`task` is the vApp's last task; `TaskEnds` may happen long after
the waiter gave up. A request is accepted, rejected because a task runs or the state
does not allow it, or accepted with its answer lost. `Complete` is an SDK call that
starts a task and waits for it. Metadata is the exception: a metadata call whose answer
is lost takes effect, if at all, before the failure of the create is noticed. A delete
task may finish after its waiter gave up, which is why `Reconciler` lets vApps vanish
(`VAppsMayVanish`).

**`Shutdown`.** `stage` follows the function; `todo` is what is left of its two loops.
`abandoned` are calls that `withinContext` gave up on and that finish by themselves.
As in the loop, a "not found" of the org or the VDC is no error of a cleanup.
`shutdownOnce` and the closing of the debug server are left out. `unprefixed` are vApps
of an earlier run without the name prefix, which `Shutdown` passes over.

**`FleetingView`.** The requests without a vApp and the state of each vApp. `Gone` is
not visible to fleeting; it separates an instance that is deleted from a name never
used, so that the specification can say that an instance never comes back. The edge
from `Gone` to `Deleting` is there because a delete can fail after `MarkDisappeared`. `run`
is mapped to `restarts`: only a new run of the program forgets what it was asked.

## Runs

| run | module | instance | distinct states | checks |
|---|---|---|---|---|
| `handover` | `MCPromises` | 1 intent, 2 vApps, 2 slots, listings that omit, foreign deletes, 1 missed poll counts as gone, breaker at 1 | 1.64 M | `TypeOK`, `IndexConsistent`, `NeverDeletesLive`, `NoInvisibleOrphan`, `InstanceLifecycle`, `FleetingIsToldTheTruth` |
| `restart` | `MCReconciler` | 2 intents, 1 vApp, 3 slots, two crashes anywhere, complete listings | 472 k | `OneOperationEach`, `HoldEndsClean` |
| `convergence` | `MCFairReconciler` | 1 intent, 1 vApp which is a leftover at first, 2 slots, all failures, fairness | 94 k | `EveryIntentIsServed`, `EveryOrphanIsRemoved` |
| `shutdown` | `MCShutdown` | 1 intent, 1 vApp which is a leftover at first, with the prefix or without, 2 slots, fairness | 215 k | `StopTypeOK`, `NothingRunsBesideShutdown`, `ShutdownMissesNothing`, `ShutdownObeysContext`, `ShutdownWaitsOnlyForCalls` |
| `limiter` | `MCOpLimiter` | 4 operations, limits 3, 2 creates, 3 deletes, fairness | 41 k | `TypeOK`, `SlotsConserved`, `ImplementsLimiter`, `DrainReturns` |
| `throttle` | `MCThrottleGate` | 3 calls, pauses from 2 to 7 units and half as much of jitter | 20 k | `TypeOK`, `BurstsCountOnce`, `WaitsOutThePause` |
| `session` | `MCVCDCall` | a mutation and a repeatable call, one retry, sessions that end twice, fairness | 72 k | `TypeOK`, `RequestsKeepTheirSession`, `MutationsAtMostOnce`, `ReplayInNewerSession`, `NoNeedlessExchange`, `CancelledCallReturns` |
| `lifecycle` | `MCVAppLifecycle` | up to 6 faults, crashes included, fairness | 11 k | `TypeOK`, `CreatedIsReady`, `KeepsContract`, `EventuallyDeleted` |
| `misses` (violation) | `MCReconciler` | | | `MissesAreConsecutive` |
| `unlabelled_leftover` (violation) | `MCReconciler` | | | `HoldEndsEmpty` |
| `shutdown_leaves` (violation) | `MCShutdown` | | | `ShutdownCleansUpAll` |
| `forgotten_name` (violation) | `MCReconciler` | 1 intent, 1 vApp | | `NamesRetained` |

Why these bounds. A conflict in the reconciler is between one create, the operation
that might mistake its vApp for something else, and the loop; one intent with two names
gives a failed create next to its own retry, and a vApp adopted again next to the
delete of its first life. In `restart` two intents share one name, so that a failed
create's vApp, its cleanup and discovery meet in every order, and the second crash makes
a leftover of a vApp made after the first hold; the third slot is needed because deletes
keep off the last one, and two deletions overlap only with two delete slots. `convergence`
has one intent and two slots: it shows recovery from every state, not fairness among
intents that compete. Its one name is used up when its vApp is lost (`Lost`), which
`EveryIntentIsServed` allows for; the code's random names are not. In `limiter` the
delete limit equals the slots, so that only the reserve keeps deletes from the last one,
and the create limit is below it, so that each refusal of `tryAcquire` happens. In
`session` two goroutines and two renewals give each order of a 401 and another
goroutine's exchange. Six faults in `lifecycle` are enough for a create that fails with
its task running and several deletes that fail differently. What holds beyond the bounds
is the subject of the proofs. `SYMMETRY` is used only where no liveness is checked.

`OneOperationEach` is checked with complete listings. With listings that omit a vApp
three times in a row the code may prune an entry whose delete is still running, adopt
the vApp again and start a second delete; `deleteInstance` tolerates a vApp that is
already gone, so the cost is a failed task.

Deadlock is checked except in `limiter` (after a drain nothing may be left to do),
`shutdown` and `shutdown_leaves` (the process ends) and `session` (the calls return). In
`session` calls that block each other would violate `CancelledCallReturns`, since any
call may be cancelled.

### Fairness

`FairReconciler` lets every call fail, in every way `Reconciler` allows, for any
finite time; `healthy` marks the moment after which calls succeed, listings are
complete, backoffs have elapsed and fleeting's demand does not change. Then:

- weak fairness of the loop: the ticker never stops, and calls end: each has a deadline
  (`PollReadTimeout`, `CreateTimeout`, `safeCallMaxElapsedTime`), except that deletes and
  cleanups, which have no context, wait for the org's operation limit as long as it
  stays reached (`vcd_safe.go:97-103`). `healthy` includes that it does not;
- weak fairness of each operation in a slot, on the same grounds;
- a committed POST becomes visible and the breaker's cooldown passes;
- strong fairness of a prune that takes every Deleted entry: `pruneAfter` elapses.

The demand must settle: deletes go before the cleanups of failed creates in every
cycle, so an endless stream of `Decrease` could keep cleanups out of the delete slots;
and with `MaxConcurrentCreates` equal to the slots an endless stream of creates could
keep deletes out. Both follow from the dispatch order and the limiter, and neither
contradicts anything the documentation promises.

The other fair specifications:

- `OpLimiter`: the loop finishes a `tryAcquire` it began and every operation releases
  its slot. `drain` needs no fairness of its own: the release of the last slot grants it.
- `VCDCall`: a goroutine that can take a step does. Every HTTP request has a timeout, a
  pause and a retry's sleep are timers, and Go's `RWMutex` lets a waiting writer in
  before new readers. Lock handover among several writers is not assumed to be fair:
  a call that is cancelled takes finitely many steps and its competitors too.
- `VAppLifecycle`: goroutines go on, the reconciler repeats a delete that failed, vCD
  ends every task. The number of faults is bounded, so vCD behaves in the end.
- `Shutdown`: `PromptSpec` assumes only that `Shutdown`'s own goroutine is scheduled: no
  vCD call is assumed to return. `ShutdownObeysContext` holds under it.
  `ShutdownWaitsOnlyForCalls` is conditional: *if* calls, operations and the cycle end
  (`CallsEnd`), then so does `Shutdown`; the loop's `select`, which picks among ready
  cases at random, takes the stop channel in the end (strong fairness). The code does not
  guarantee the premise, as its own comment says (`reconciler.go:723-724`): a call may
  wait for the operation limit for ever. So this says what an endless `Shutdown` can be
  waiting for, not that there is none.

### Findings

- `misses`: the comments on `MissedPolls` and `missedPollsBeforeDisappeared` speak of
  consecutive polls. A poll that lists the vApp but cannot read it or its VM keeps the
  misses counted so far, so two misses with such a poll between them add up.
- `unlabelled_leftover`: a process that dies between the POST of a vApp and the call
  that labels it leaves a vApp the next run never finds. The startup hold ends with it
  in place, although the comment on `startupHold` and the README's
  `startup_cleanup_timeout` say that what the previous run left is deleted first.
- `shutdown_leaves`: `Shutdown` logs an error of `deleteInstance` and returns nil, so
  an instance can be left although the comment says that it cleans up all instances and
  no error is reported.
- `forgotten_name`: the comment on `dispatchCreateCleanups` says that the names of failed
  creates are retained until deletion is confirmed. A cleanup whose lookup of the org or
  of the VDC answers "not found" drops the name with the vApp in place. When the vApp has
  no label, it stays in vCD until somebody removes it by hand.

Two more observations, without a run of their own. The comment on the create reserve
(`oplimiter.go:46`) says that the reconciler turns it off during the startup cleanup, but
`setCreateReserve` is called by tests only, so the reserve is always on (and so it is in
`Reconciler` and `OpLimiter`; `EveryIntentIsServed` shows that nothing starves). And
`release` takes a delete off its counter before it frees the slot, so for a moment the
last slot of the semaphore can go to another delete, contrary to `oplimiter.go:20-21`;
the deletes that are running keep to the limit (`ImplementsLimiter`).

## Proofs

Every safety property and every refinement that a passing run checks is also a theorem,
for every value of the constants that the modules' `ASSUME`s allow. Two constants that
say how the environment behaves are restricted where it matters:

- `~ListingMayOmit` (a search returns every vApp that is labelled when it runs) in
  `OneAtATime`, `HoldOutlastsLeftovers` and `ShutdownGoesThroughAll`. TLC finds each of
  the three properties violated where searches may omit a vApp;
- `missedPollsBeforeDisappeared > 1` in `ShutdownGoesThroughAll`; it is 3 in
  `store.go:17`. A poll that searched before a create labelled its vApp misses it once
  after the create has recorded it, so with 1 the entry would count as deleted, and
  `Shutdown` would pass the vApp over (again TLC shows it, with two vApps).

All other theorems hold with incomplete searches too.

### `ReconcilerProofs` and `OrphanProofs`

They prove, for all finite sets of slots, all sets of intents and vApps
and all limits allowed by `StoreAssumption` and `ReconcilerAssumption`:

- `TypeCorrect`: `Spec => []TypeOK`
- `StoreIndexed`: `Spec => []IndexConsistent`
- `LiveVAppsAreSafe`: `Spec => []NeverDeletesLive`
- `EntriesNeverComeBack`: `Spec => InstanceLifecycle`
- `NothingForgotten`: `Spec => []NoInvisibleOrphan`
- `OneAtATime`: `Spec => []OneOperationEach`, with complete searches
- `HoldOutlastsLeftovers`: `Spec => HoldEndsClean`, with complete searches

`NothingForgotten` and `OneAtATime` hold with the exception of vApps in `forgotten`, which
`forgotten_name` shows to be needed: the proof says that there is no other way to lose a
name. They rest on `InvariantHolds`: `Spec => []IInv`. None of them is inductive by itself.
`NeverDeletesLive` speaks of deletes in progress; to know that one never *starts* on a
live vApp, the invariant says who owns what at every point of the handover:

- `IntentOwned`: a create in progress has its intent, in phase Creating, to itself; a
  delete's entry, if it is still there, has the HREF being deleted;
- `VAppOwned`: a create that has not given up its vApp is in `inflightCreates`, no
  other operation has that vApp, the index does not know it, and discovery is either
  before the first load of `ownsVApp` or looks at another vApp;
- `DeletesDoomed`: every entry of a vApp that is being deleted, or waits in
  `failedCreateCleanups`, is in a phase from which no instance comes back;
- `EntryShape`, `OpShape`, `WorkFresh`: which entries, operations and snapshot items
  carry an HREF, and what a snapshot still guarantees when an item is visited.

Two ideas carry the step lemmas, one per action. *Aging* (`Ages`): most store methods
leave an entry's HREF alone and move it, if at all, towards deletion; that preserves
everything said about entries (`AgingKeepsStore`, `AgingKeepsIntents`,
`AgingKeepsDoomed`). And `UpdateKeepsHREF`: `UpdateInstance` with an unchanged HREF
touches exactly one entry, because the index already leads to it.

`NothingForgotten` adds `OrphansKnown`: at each point where a goroutine is about to
drop a name from an ownership map, its vApp is labelled, gone, known to the other map,
or, where a cleanup gave up, at least not one that is still to come. The step of `cleanUpInstanceByName` is where the assumption about late POSTs is
used.

`EntriesNeverComeBack` needs no further invariant. It rests on one *effect lemma* for
each action that writes the store (`DispatchDeleteEffect`, `PollEndsEffect`,
`GCAndPruneEffect` and so on), which says entry by entry what the action does; the
later proofs use the same lemmas.

`OneAtATime` has three parts, each an invariant of its own:

- `CreatesAlone`: an intent in a create's hands has left the phases that
  `dispatchCreates` looks at, until the create gives it back;
- `CleanupsAlone`: a name waiting for its cleanup has no entry and is not about to get
  one, a cleanup in progress is of such a name, of a vApp that is gone for good or of a
  forgotten one, and only of a forgotten one can there be a delete as well. It uses `StatesKnown`, which says what vCD can hold
  under each name the program knows: what has an entry, or was listed, is labelled or
  gone. So a failed create that discovery once listed cannot come back as a leftover;
- `DeletesAlone`: a delete in progress either still has its entry in `Deleting`, with the
  poll in progress seeing the vApp, or the vApp is gone and so is every use of its
  entry. Otherwise `MarkDisappeared` and `Prune` would take the entry away from a
  running delete, and discovery would adopt the vApp again; with omissions they do.

`HoldOutlastsLeftovers` follows the vApps of earlier runs (`OldKept`): they are in neither
ownership map, none is taken for gone while it is there, and from the first complete
poll on each labelled one is adopted. The hold ends when `LeftoverCount` is 0, and that
counts a finite set (`FinitelyMany`), so 0 means that no entry is left.

`MissesCount` and `NamesKept`, for the proof about `Shutdown`, say that no labelled vApp
of this run is lost sight of: its entry is missed at most once, by a poll that searched
before the label, only the entries of vApps that are gone are Deleted, and until it has
an entry its create or its cleanup knows the name, or it is forgotten.

### `VCDCallProofs`

For all sets of calls, retries and renewals: `TypeOK`, `RequestsKeepTheirSession`,
`MutationsAtMostOnce`, `ReplayInNewerSession` and `NoNeedlessExchange`, from
`CallInvariant`. Its parts: `LockInv` reads the lock off the program counters (the
readers are the calls in a request, the holder of the write lock is alone);
`GenerationInv` bounds the generation of an attempt by the current one, with equality
while it reads; `RejectedInv` says that a call on its way to renew the current
generation comes from a session vCD no longer accepts, which is what makes an exchange
needed; `MutationInv` says that a mutation that may still be sent has not been carried
out.

### `ThrottleProofs`

For all calls and all pauses: `PausesAreBounded` (`TypeOK`), `BurstsLengthenOnce` and
`PausesAreWaitedOut`. `BurstsCountOnce` is not inductive: it needs `PauseAfterGrowth`,
that after the first growth half of an initial pause has passed since the reset or is
still ahead.

### `LimiterProofs`

For all finite sets of operations and all limits: `LimiterTypes`, `SlotsAreConserved`
and the refinement `OpLimiterImplementsLimiter`, from `LimiterInvariant`. The invariant
adds to `SlotsConserved` that a drained limiter has no holder and nobody about to count
(`DrainedIsEmpty`), and that what `tryAcquire` saw of the reserve still holds when it
counts, because only the loop adds to the counters (`ReserveKept`). One lemma
(`CountsMove`) says how a step of one operation shows in the three cardinalities; each
action is then arithmetic. In the refinement `CountAndStart` is the abstract `Acquire`,
`Uncount` is `Release`, the grant of every slot is `Drain`, all else stutters.

### `VAppProofs`

For any number of faults: `LifecycleTypes`, `CreateLeavesItReady` and the refinement
`LifecycleKeepsContract`, from `LifecycleInvariant`. Its parts follow the create: when the
vApp exists and is labelled (`PostedOnce`), when it has its one VM (`OneVM`), what is
configured (`Configured`), which tasks can still be running (`TasksAreOnVApps`,
`DeletesComeLast`), and that no POST still to come can follow a delete by HREF
(`DeletesAreFinal`). In the refinement most requests stutter: only the POST's outcome,
the label, the end of the create and the end of the vApp show.

### `PromisesProofs`

`FleetingSeesTheTruth` shows that `Reconciler` implements `FleetingView`. `Update` reports
a vApp by its entries; by `IndexConsistent` there is at most one, so its phase is what is
shown (`UpdateReports`). `Increase` is `Ask`, `CreateReturnsOK` is `Ready` (the vApp had no
entry before, by `VAppOwned`), a restart is `Restart`, and every other step only ages
entries or forgets deleted ones, which is `Leave` (`OthersWithdraw`).

### `ShutdownProofs`

A step of `StopNext` is a step of `Next` or only makes vApps go (`StopSteps`), so all that
is proved of `Reconciler` holds during `Shutdown` as soon as it survives vApps that go
(`Fades`). That gives `StopTypesHold`, and:

- `ShutdownDeletesAlone` needs one fact more than it says: from the drain on the loop
  has ended. Then no operation starts, and a free slot has no goroutine that could move;
- `ShutdownGoesThroughAll` (`ShutdownMissesNothing`) from `Covered`: what the loop over
  `failedCreateCleanups` has passed is gone or failed, and from `GetAll` on what is left
  and is to be deleted is on the list. The step of `GetAll` is the heart
  (`GetAllCovers`): nothing is in flight, so by `NoInvisibleOrphan` and `NamesKept` a vApp
  of this run that is left was a failed create, which is done with, is forgotten or has an
  entry, and
  by `MissesCount` that entry is not Deleted.

### Only model-checked

All liveness properties (`EveryIntentIsServed`, `EveryOrphanIsRemoved`,
`CancelledCallReturns`, `ShutdownObeysContext`, `ShutdownWaitsOnlyForCalls`, `DrainReturns`,
`EventuallyDeleted`): they need fairness, which is out of the prover's reach. The four
findings are counterexamples that TLC finds.

## Plan

1. Done: the modules, runs and theorems above.
2. Left: to carry the results on `OneOperationEach` and `HoldEndsClean` through `Shutdown`
   (`StopSpec`), and the safety half of the progress properties, which states the
   reconciler can be stuck in, as invariants of `FairReconciler`.

## Not modelled

- `ConnectInfo` and `Heartbeat` read the store and one vApp and change nothing.
- Configuration parsing and validation, which end before anything runs;
  `getVMNetworkConnectionSection` depends on nothing else.
- The debug server and its page, status and metrics: they read only.
- The SSH handshake (an outcome of `waitForSSHReadiness` here), guest scripts, random
  strings, version and `main`; `renameVM`, which nothing calls.
- Panics: one inside the loop is recovered by `reconcileOnce` and ends the cycle.

----------------------------- MODULE OpLimiter -----------------------------
(***************************************************************************)
(* opLimiter (src/oplimiter.go) step by step. tryAcquire and release each  *)
(* touch two semaphores and a counter, one after the other. One goroutine  *)
(* calls tryAcquire, the reconcile loop; releases come from the goroutines *)
(* of the operations, and drain from Shutdown.                             *)
(*                                                                         *)
(* The semaphores are golang.org/x/sync/semaphore.Weighted: one atomic     *)
(* step per call; TryAcquire also fails while somebody waits in Acquire.   *)
(***************************************************************************)
EXTENDS Naturals, FiniteSets

CONSTANTS
    Ops,                     \* the operations considered
    MaxConcurrentOperations,
    MaxConcurrentCreates,
    MaxConcurrentDeletes

ASSUME LimiterAssumption ==
    /\ IsFiniteSet(Ops)
    /\ MaxConcurrentOperations \in Nat \ {0}
    /\ MaxConcurrentCreates \in Nat \ {0}
    /\ MaxConcurrentDeletes \in Nat \ {0}

VARIABLES
    total,      \* taken of the semaphore total
    perKind,    \* taken of the semaphores creates and deletes
    counter,    \* createsInUse and deletesInUse
    op,         \* where each operation is between Add(1) and the end of release
    caller,     \* where tryAcquire is, and the kind it was called with
    drainer     \* where drain is

vars == <<total, perKind, counter, op, caller, drainer>>

size == MaxConcurrentOperations

Kinds == {"create", "delete"}

\* newOpLimiter: the capacities of the semaphores.
kindSem(kind) ==
    LET max == IF kind = "create" THEN MaxConcurrentCreates ELSE MaxConcurrentDeletes
    IN  IF max < size THEN max ELSE size

OpPcs == {"idle", "running", "uncounted", "freed"}
CallerPcs == {"idle", "reserve", "kind", "total", "undo", "count"}

Idle == [pc |-> "idle", kind |-> "create"]

newOpLimiter ==
    /\ total = 0
    /\ perKind = [kind \in Kinds |-> 0]
    /\ counter = [kind \in Kinds |-> 0]
    /\ op = [o \in Ops |-> Idle]
    /\ caller = Idle
    /\ drainer = "none"

-----------------------------------------------------------------------------
(* tryAcquire.                                                             *)

\* The call, when the throttle gate is not paused.
tryAcquire(kind) ==
    /\ caller.pc = "idle"
    /\ caller' = [pc |-> "reserve", kind |-> kind]
    /\ UNCHANGED <<total, perKind, counter, op, drainer>>

\* An off-by-one that lets deletes have every slot.
CheckReserveAll ==
    /\ caller.pc = "reserve"
    /\ caller' = IF caller.kind = "delete" /\ size > 1 /\ counter["delete"] >= size
                 THEN Idle ELSE [caller EXCEPT !.pc = "kind"]
    /\ UNCHANGED <<total, perKind, counter, op, drainer>>

\* The reserve is on: nothing in the program turns it off.
CheckReserve ==
    /\ caller.pc = "reserve"
    /\ caller' = IF caller.kind = "delete" /\ size > 1 /\ counter["delete"] >= size - 1
                 THEN Idle ELSE [caller EXCEPT !.pc = "kind"]
    /\ UNCHANGED <<total, perKind, counter, op, drainer>>

\* The semaphore of the kind has no limit.
TryAcquireKindBlind ==
    /\ caller.pc = "kind"
    /\ perKind' = [perKind EXCEPT ![caller.kind] = @ + 1]
    /\ caller' = [caller EXCEPT !.pc = "total"]
    /\ UNCHANGED <<total, counter, op, drainer>>

TryAcquireKind ==
    /\ caller.pc = "kind"
    /\ IF perKind[caller.kind] < kindSem(caller.kind)
       THEN /\ perKind' = [perKind EXCEPT ![caller.kind] = @ + 1]
            /\ caller' = [caller EXCEPT !.pc = "total"]
       ELSE caller' = Idle /\ UNCHANGED perKind
    /\ UNCHANGED <<total, counter, op, drainer>>

\* The semaphore grants what is free although somebody waits for all of it.
TryAcquireTotalBarges ==
    /\ caller.pc = "total"
    /\ IF total < size
       THEN total' = total + 1 /\ caller' = [caller EXCEPT !.pc = "count"]
       ELSE caller' = [caller EXCEPT !.pc = "undo"] /\ UNCHANGED total
    /\ UNCHANGED <<perKind, counter, op, drainer>>

TryAcquireTotal ==
    /\ caller.pc = "total"
    /\ IF total < size /\ drainer # "waiting"
       THEN total' = total + 1 /\ caller' = [caller EXCEPT !.pc = "count"]
       ELSE caller' = [caller EXCEPT !.pc = "undo"] /\ UNCHANGED total
    /\ UNCHANGED <<perKind, counter, op, drainer>>

\* The slot of the kind is not given back.
UndoKindForgets ==
    /\ caller.pc = "undo"
    /\ caller' = Idle
    /\ UNCHANGED <<total, perKind, counter, op, drainer>>

UndoKind ==
    /\ caller.pc = "undo"
    /\ perKind' = [perKind EXCEPT ![caller.kind] = @ - 1]
    /\ caller' = Idle
    /\ UNCHANGED <<total, counter, op, drainer>>

\* Add(1), and the operation o starts.
CountAndStart(o) ==
    /\ caller.pc = "count"
    /\ op[o].pc = "idle"
    /\ counter' = [counter EXCEPT ![caller.kind] = @ + 1]
    /\ op' = [op EXCEPT ![o] = [pc |-> "running", kind |-> caller.kind]]
    /\ caller' = Idle
    /\ UNCHANGED <<total, perKind, drainer>>

-----------------------------------------------------------------------------
(* release, in three steps.                                                *)

Uncount(o) ==
    /\ op[o].pc = "running"
    /\ counter' = [counter EXCEPT ![op[o].kind] = @ - 1]
    /\ op' = [op EXCEPT ![o] = [@ EXCEPT !.pc = "uncounted"]]
    /\ UNCHANGED <<total, perKind, caller, drainer>>

\* The last slot given back wakes the drain that waits for all of them.
ReleaseTotal(o) ==
    /\ op[o].pc = "uncounted"
    /\ IF total = 1 /\ drainer = "waiting"
       THEN total' = size /\ drainer' = "drained"
       ELSE total' = total - 1 /\ UNCHANGED drainer
    /\ op' = [op EXCEPT ![o] = [@ EXCEPT !.pc = "freed"]]
    /\ UNCHANGED <<perKind, counter, caller>>

ReleaseKind(o) ==
    /\ op[o].pc = "freed"
    /\ perKind' = [perKind EXCEPT ![op[o].kind] = @ - 1]
    /\ op' = [op EXCEPT ![o] = Idle]
    /\ UNCHANGED <<total, counter, caller, drainer>>

release(o) == Uncount(o) \/ ReleaseTotal(o) \/ ReleaseKind(o)

-----------------------------------------------------------------------------
(* drain.                                                                  *)

drain ==
    /\ drainer = "none"
    /\ IF total = 0 THEN total' = size /\ drainer' = "drained"
       ELSE drainer' = "waiting" /\ UNCHANGED total
    /\ UNCHANGED <<perKind, counter, op, caller>>

\* Its context ends before it has the slots, or had ended before the call.
DrainGivesUp ==
    /\ drainer \in {"none", "waiting"}
    /\ drainer' = "failed"
    /\ UNCHANGED <<total, perKind, counter, op, caller>>

TryAcquireStep ==
    \/ CheckReserve
    \/ TryAcquireKind
    \/ TryAcquireTotal
    \/ UndoKind
    \/ \E o \in Ops : CountAndStart(o)

Next ==
    \/ \E kind \in Kinds : tryAcquire(kind)
    \/ TryAcquireStep
    \/ \E o \in Ops : release(o)
    \/ drain
    \/ DrainGivesUp

Spec == newOpLimiter /\ [][Next]_vars

\* The loop goes on, and every operation ends and releases its slot.
FairSpec ==
    /\ Spec
    /\ WF_vars(TryAcquireStep)
    /\ \A o \in Ops : WF_vars(release(o))

-----------------------------------------------------------------------------
(* Properties.                                                             *)

\* The variables keep their types: in particular no semaphore and no counter
\* goes below zero, which would panic, or above its capacity.
TypeOK ==
    /\ total \in 0 .. size
    /\ perKind \in [Kinds -> Nat]
    /\ counter \in [Kinds -> Nat]
    /\ \A kind \in Kinds : perKind[kind] <= kindSem(kind)
    /\ op \in [Ops -> [pc : OpPcs, kind : Kinds]]
    /\ caller \in [pc : CallerPcs, kind : Kinds]
    /\ drainer \in {"none", "waiting", "drained", "failed"}

OpsAt(pcs) == {o \in Ops : op[o].pc \in pcs}

Taken(kind, pcs) == {o \in OpsAt(pcs) : op[o].kind = kind}

One(condition) == IF condition THEN 1 ELSE 0

\* No slot is lost or counted twice, whatever tryAcquire had to undo and
\* whichever of the two semaphores a release has reached.
SlotsConserved ==
    /\ total = IF drainer = "drained" THEN size
               ELSE Cardinality(OpsAt({"running", "uncounted"})) + One(caller.pc = "count")
    /\ \A kind \in Kinds :
          /\ counter[kind] = Cardinality(Taken(kind, {"running"}))
          /\ perKind[kind] = Cardinality(Taken(kind, {"running", "uncounted", "freed"}))
                + One(caller.kind = kind /\ caller.pc \in {"total", "undo", "count"})

\* The limiter as the reconciler sees it: an operation has its slot from Add(1)
\* to Add(-1).
Abstract == INSTANCE Limiter
    WITH maxCreates <- MaxConcurrentCreates,
         maxDeletes <- MaxConcurrentDeletes,
         inUse <- [o \in Ops |-> IF op[o].pc = "running" THEN op[o].kind ELSE "none"],
         drained <- drainer = "drained"

\* The steps in between never let more operations run than the limits, let
\* deletes take the slot left to creates, or start one after drain.
ImplementsLimiter == Abstract!LimiterSpec

\* drain does not wait for ever although the loop keeps asking for slots: a
\* waiting drain keeps new operations out.
DrainReturns == drainer = "waiting" ~> drainer # "waiting"

=============================================================================

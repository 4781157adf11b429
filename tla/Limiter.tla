------------------------------ MODULE Limiter ------------------------------
(***************************************************************************)
(* What opLimiter (src/oplimiter.go) promises the reconciler: every create *)
(* and delete holds one of size slots, each kind keeps to its own limit,   *)
(* deletes leave a slot to creates, and once it is drained nothing runs    *)
(* and nothing starts. Acquiring and releasing are single steps here; a    *)
(* refusal is no step at all, and may come at any time.                    *)
(***************************************************************************)
EXTENDS Naturals, FiniteSets

CONSTANTS
    Ops,           \* the operations that may hold a slot
    size,          \* MaxConcurrentOperations
    maxCreates,    \* MaxConcurrentCreates
    maxDeletes     \* MaxConcurrentDeletes

VARIABLES
    inUse,         \* what each operation holds: "none", or a slot of a kind
    drained        \* has drain returned without an error?

limiterVars == <<inUse, drained>>

Kinds == {"create", "delete"}

maxOfKind(kind) == IF kind = "create" THEN maxCreates ELSE maxDeletes

InUse(kinds) == {o \in Ops : inUse[o] \in kinds}

LimiterInit ==
    /\ inUse = [o \in Ops |-> "none"]
    /\ drained = FALSE

Acquire(o, kind) ==
    /\ ~drained
    /\ inUse[o] = "none"
    /\ Cardinality(InUse(Kinds)) < size
    /\ Cardinality(InUse({kind})) < maxOfKind(kind)
    /\ kind = "delete" /\ size > 1 => Cardinality(InUse({"delete"})) < size - 1
    /\ inUse' = [inUse EXCEPT ![o] = kind]
    /\ UNCHANGED drained

Release(o) ==
    /\ inUse[o] # "none"
    /\ inUse' = [inUse EXCEPT ![o] = "none"]
    /\ UNCHANGED drained

Drain ==
    /\ InUse(Kinds) = {}
    /\ drained' = TRUE
    /\ UNCHANGED inUse

LimiterNext ==
    \/ \E o \in Ops, kind \in Kinds : Acquire(o, kind)
    \/ \E o \in Ops : Release(o)
    \/ Drain

LimiterSpec == LimiterInit /\ [][LimiterNext]_limiterVars

=============================================================================

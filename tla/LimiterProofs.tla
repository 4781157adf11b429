---------------------------- MODULE LimiterProofs ----------------------------
(***************************************************************************)
(* Proofs about OpLimiter, for any finite number of operations and any     *)
(* limits: its slots are conserved, and it implements Limiter.             *)
(***************************************************************************)
EXTENDS OpLimiter, FiniteSetTheorems, TLAPS

OpState == [pc : OpPcs, kind : Kinds]

\* The operations in one of the states Q.
Members(Q) == {o \in Ops : op[o] \in Q}

Holding(kind, pcs) == [pc : pcs, kind : {kind}]

LEMMA MembersFinite ==
    ASSUME NEW Q
    PROVE  IsFiniteSet(Members(Q)) /\ Cardinality(Members(Q)) \in Nat
  <1>1. IsFiniteSet(Members(Q))
    BY LimiterAssumption, FS_Subset DEF Members
  <1> QED
    BY <1>1, FS_CardinalityType

\* What an operation's state says, and when it is one of those counted.
LEMMA StateParts ==
    ASSUME NEW q \in OpState
    PROVE  /\ q = [pc |-> q.pc, kind |-> q.kind] /\ q.pc \in OpPcs /\ q.kind \in Kinds
           /\ \A pc \in OpPcs : /\ [q EXCEPT !.pc = pc] = [pc |-> pc, kind |-> q.kind]
                               /\ [pc |-> pc, kind |-> q.kind] \in OpState
  BY DEF OpState

LEMMA StateCounted ==
    ASSUME NEW q \in OpState, NEW pcs
    PROVE  /\ q \in [pc : pcs, kind : Kinds] <=> q.pc \in pcs
           /\ \A kind \in Kinds : q \in Holding(kind, pcs) <=> q.kind = kind /\ q.pc \in pcs
  <1>1. q = [pc |-> q.pc, kind |-> q.kind] /\ q.kind \in Kinds
    BY StateParts
  <1> QED
    BY <1>1 DEF Holding

\* How a step of one operation changes the number of those in Q.
LEMMA MembersMove ==
    ASSUME op \in [Ops -> OpState], NEW o \in Ops, NEW r \in OpState, NEW Q,
           op' = [op EXCEPT ![o] = r]
    PROVE  /\ Cardinality(Members(Q)) \in Nat
           /\ Cardinality(Members(Q))'
                 = Cardinality(Members(Q)) + One(r \in Q) - One(op[o] \in Q)
  <1> USE MembersFinite
  <1>1. CASE r \in Q /\ op[o] \in Q
    <2>1. Members(Q)' = Members(Q)
      BY <1>1 DEF Members
    <2> QED
      BY <1>1, <2>1 DEF One
  <1>2. CASE r \notin Q /\ op[o] \notin Q
    <2>1. Members(Q)' = Members(Q)
      BY <1>2 DEF Members
    <2> QED
      BY <1>2, <2>1 DEF One
  <1>3. CASE r \in Q /\ op[o] \notin Q
    <2>1. Members(Q)' = Members(Q) \cup {o} /\ o \notin Members(Q)
      BY <1>3 DEF Members
    <2>2. Cardinality(Members(Q)') = Cardinality(Members(Q)) + 1
      BY <2>1, FS_AddElement
    <2> QED
      BY <1>3, <2>2 DEF One
  <1>4. CASE r \notin Q /\ op[o] \in Q
    <2>1. Members(Q)' = Members(Q) \ {o} /\ o \in Members(Q)
      BY <1>4 DEF Members
    <2>2. Cardinality(Members(Q)') = Cardinality(Members(Q)) - 1
      BY <2>1, FS_RemoveElement
    <2> QED
      BY <1>4, <2>2 DEF One
  <1> QED
    BY <1>1, <1>2, <1>3, <1>4

-----------------------------------------------------------------------------
(* The inductive invariant, on three counts of operations.                 *)

\* Slots of total, of a counter and of a kind's semaphore that operations have.
Held == Cardinality(Members([pc : {"running", "uncounted"}, kind : Kinds]))
Running(kind) == Cardinality(Members(Holding(kind, {"running"})))
Occupied(kind) == Cardinality(Members(Holding(kind, {"running", "uncounted", "freed"})))

Conserved ==
    /\ total = IF drainer = "drained" THEN size ELSE Held + One(caller.pc = "count")
    /\ \A kind \in Kinds :
          /\ counter[kind] = Running(kind)
          /\ perKind[kind] = Occupied(kind)
                + One(caller.kind = kind /\ caller.pc \in {"total", "undo", "count"})

\* drain has every slot: nobody holds one or is about to.
DrainedIsEmpty == drainer = "drained" => Held = 0 /\ caller.pc # "count"

\* What tryAcquire saw of the reserve still holds when it counts: only the
\* loop adds to the counters.
ReserveKept ==
    caller.kind = "delete" /\ caller.pc \in {"kind", "total", "count"} /\ size > 1
       => counter["delete"] < size - 1

LimiterInv == TypeOK /\ Conserved /\ DrainedIsEmpty /\ ReserveKept

LEMMA CountTypes ==
    /\ Held \in Nat
    /\ \A kind \in Kinds : Running(kind) \in Nat /\ Occupied(kind) \in Nat
  BY MembersFinite DEF Held, Running, Occupied

\* How the step of operation o to the state r shows in the counts.
Moved(o, r) ==
    /\ Held' = Held + One(r.pc \in {"running", "uncounted"})
                    - One(op[o].pc \in {"running", "uncounted"})
    /\ \A kind \in Kinds :
          /\ Running(kind)' = Running(kind)
                + One(r.kind = kind /\ r.pc = "running")
                - One(op[o].kind = kind /\ op[o].pc = "running")
          /\ Occupied(kind)' = Occupied(kind)
                + One(r.kind = kind /\ r.pc \in {"running", "uncounted", "freed"})
                - One(op[o].kind = kind /\ op[o].pc \in {"running", "uncounted", "freed"})

LEMMA CountsMove ==
    ASSUME TypeOK, NEW o \in Ops, NEW r \in OpState, op' = [op EXCEPT ![o] = r]
    PROVE  Moved(o, r)
  <1>1. op \in [Ops -> OpState]
    BY DEF TypeOK, OpState
  <1>2. op[o] \in OpState
    BY <1>1
  <1>3. Held' = Held + One(r \in [pc : {"running", "uncounted"}, kind : Kinds])
                     - One(op[o] \in [pc : {"running", "uncounted"}, kind : Kinds])
    BY <1>1, MembersMove DEF Held
  <1>4. ASSUME NEW kind \in Kinds
        PROVE  /\ Running(kind)' = Running(kind)
                     + One(r \in Holding(kind, {"running"}))
                     - One(op[o] \in Holding(kind, {"running"}))
               /\ Occupied(kind)' = Occupied(kind)
                     + One(r \in Holding(kind, {"running", "uncounted", "freed"}))
                     - One(op[o] \in Holding(kind, {"running", "uncounted", "freed"}))
    BY <1>1, MembersMove DEF Running, Occupied
  <1>5. \A kind \in Kinds : \A q \in OpState :
           One(q \in Holding(kind, {"running"})) = One(q.kind = kind /\ q.pc = "running")
    BY StateCounted DEF One
  <1>6. \A kind \in Kinds : \A q \in OpState :
           One(q \in Holding(kind, {"running", "uncounted", "freed"}))
              = One(q.kind = kind /\ q.pc \in {"running", "uncounted", "freed"})
    BY StateCounted DEF One
  <1>7. \A q \in OpState : One(q \in [pc : {"running", "uncounted"}, kind : Kinds])
                              = One(q.pc \in {"running", "uncounted"})
    BY StateCounted DEF One
  <1> QED
    BY <1>2, <1>3, <1>4, <1>5, <1>6, <1>7 DEF Moved

\* Without a step of an operation the counts stay.
LEMMA CountsStay ==
    ASSUME UNCHANGED op
    PROVE  Held' = Held /\ \A kind \in Kinds : Running(kind)' = Running(kind)
                                            /\ Occupied(kind)' = Occupied(kind)
  BY DEF Held, Running, Occupied, Members

\* An operation in a state that has slots shows in the counts.
LEMMA CountsPositive ==
    ASSUME TypeOK, NEW o \in Ops
    PROVE  /\ op[o].pc \in {"running", "uncounted"} => Held > 0
           /\ op[o].pc = "running" => Running(op[o].kind) > 0
           /\ op[o].pc \in {"running", "uncounted", "freed"} => Occupied(op[o].kind) > 0
  <1>1. ASSUME NEW Q, op[o] \in Q PROVE Cardinality(Members(Q)) > 0
    <2>1. Members(Q) # {}
      BY <1>1 DEF Members
    <2> QED
      BY <2>1, MembersFinite, FS_EmptySet
  <1>2. /\ op[o] = [pc |-> op[o].pc, kind |-> op[o].kind]
        /\ op[o].pc \in OpPcs /\ op[o].kind \in Kinds
    BY DEF TypeOK
  <1>3. op[o].pc \in {"running", "uncounted"}
           => op[o] \in [pc : {"running", "uncounted"}, kind : Kinds]
    BY <1>2
  <1>4. op[o].pc = "running" => op[o] \in Holding(op[o].kind, {"running"})
    BY <1>2 DEF Holding
  <1>5. op[o].pc \in {"running", "uncounted", "freed"}
           => op[o] \in Holding(op[o].kind, {"running", "uncounted", "freed"})
    BY <1>2 DEF Holding
  <1> QED
    BY <1>1, <1>3, <1>4, <1>5 DEF Held, Running, Occupied

LEMMA Capacities ==
    /\ size \in Nat \ {0}
    /\ \A kind \in Kinds : kindSem(kind) \in Nat \ {0} /\ kindSem(kind) <= size
  BY LimiterAssumption DEF size, kindSem, Kinds

-----------------------------------------------------------------------------
(* The invariant holds at first and every step keeps it.                   *)

LEMMA InitInv == newOpLimiter => LimiterInv
  <1> SUFFICES ASSUME newOpLimiter PROVE LimiterInv
    OBVIOUS
  <1>1. TypeOK
    BY Capacities DEF newOpLimiter, TypeOK, Idle, OpPcs, CallerPcs, Kinds
  <1>2. ASSUME NEW Q, Idle \notin Q PROVE Cardinality(Members(Q)) = 0
    <2>1. Members(Q) = {}
      BY <1>2 DEF Members, newOpLimiter
    <2> QED
      BY <2>1, FS_EmptySet
  <1>3. Held = 0
    <2>1. Idle \notin [pc : {"running", "uncounted"}, kind : Kinds]
      BY DEF Idle
    <2> QED
      BY <1>2, <2>1 DEF Held
  <1>4. \A kind \in Kinds : Running(kind) = 0 /\ Occupied(kind) = 0
    <2>1. \A kind \in Kinds : /\ Idle \notin Holding(kind, {"running"})
                            /\ Idle \notin Holding(kind, {"running", "uncounted", "freed"})
      BY DEF Idle, Holding
    <2> QED
      BY <1>2, <2>1 DEF Running, Occupied
  <1>5. Conserved
    BY <1>3, <1>4 DEF Conserved, newOpLimiter, Idle, One
  <1>6. DrainedIsEmpty /\ ReserveKept
    BY DEF DrainedIsEmpty, ReserveKept, newOpLimiter, Idle
  <1> QED
    BY <1>1, <1>5, <1>6 DEF LimiterInv

LEMMA CallKeepsInv ==
    ASSUME LimiterInv, NEW kind \in Kinds, tryAcquire(kind)
    PROVE  LimiterInv'
  <1> USE DEF LimiterInv, tryAcquire
  <1>1. TypeOK'
    BY DEF TypeOK, CallerPcs
  <1>2. Conserved'
    BY CountsStay DEF Conserved, One
  <1>3. DrainedIsEmpty' /\ ReserveKept'
    BY CountsStay DEF DrainedIsEmpty, ReserveKept
  <1> QED
    BY <1>1, <1>2, <1>3

LEMMA CheckReserveKeepsInv ==
    ASSUME LimiterInv, CheckReserve
    PROVE  LimiterInv'
  <1> USE DEF LimiterInv, CheckReserve
  <1>1. /\ caller.pc = "reserve" /\ caller.kind \in Kinds
        /\ caller' \in [pc : {"idle", "kind"}, kind : Kinds]
        /\ caller'.pc = "kind" /\ caller'.kind = "delete" /\ size > 1
              => ~(counter["delete"] >= size - 1)
    BY DEF TypeOK, Idle, Kinds
  <1>2. TypeOK'
    BY <1>1 DEF TypeOK, CallerPcs
  <1>3. Conserved'
    BY <1>1, CountsStay DEF Conserved, One
  <1>4. DrainedIsEmpty'
    BY <1>1, CountsStay DEF DrainedIsEmpty
  <1>5. ReserveKept'
    BY <1>1, Capacities DEF ReserveKept, TypeOK, Kinds, size
  <1> QED
    BY <1>2, <1>3, <1>4, <1>5

LEMMA AcquireKindKeepsInv ==
    ASSUME LimiterInv, TryAcquireKind
    PROVE  LimiterInv'
  <1> USE DEF LimiterInv, TryAcquireKind
  <1>1. caller.pc = "kind" /\ caller.kind \in Kinds
    BY DEF TypeOK
  <1>2. CASE perKind[caller.kind] < kindSem(caller.kind)
    <2>1. caller' = [pc |-> "total", kind |-> caller.kind]
      BY <1>1, <1>2 DEF TypeOK
    <2>2. perKind' = [perKind EXCEPT ![caller.kind] = perKind[caller.kind] + 1]
      BY <1>2
    <2>3. TypeOK'
      <3>1. perKind' \in [Kinds -> Nat]
        BY <2>2, <1>1 DEF TypeOK
      <3>2. \A kind \in Kinds : perKind'[kind] <= kindSem(kind)
        BY <2>2, <1>1, <1>2, Capacities DEF TypeOK
      <3> QED
        BY <3>1, <3>2, <2>1, <1>1 DEF TypeOK, CallerPcs
    <2>4. Conserved'
      <3>1. ASSUME NEW kind \in Kinds
            PROVE  perKind'[kind] = Occupied(kind) + One(caller.kind = kind)
        BY <1>1, <2>2, CountTypes DEF Conserved, One, TypeOK
      <3> QED
        BY <3>1, <1>1, <2>1, CountsStay DEF Conserved, One
    <2>5. DrainedIsEmpty' /\ ReserveKept'
      BY <1>1, <2>1, CountsStay DEF DrainedIsEmpty, ReserveKept
    <2> QED
      BY <2>3, <2>4, <2>5
  <1>3. CASE ~(perKind[caller.kind] < kindSem(caller.kind))
    <2>1. caller' = Idle /\ UNCHANGED perKind
      BY <1>3
    <2>2. TypeOK'
      BY <2>1 DEF TypeOK, Idle, CallerPcs, Kinds
    <2>3. Conserved'
      BY <1>1, <2>1, CountsStay DEF Conserved, One, Idle
    <2>4. DrainedIsEmpty' /\ ReserveKept'
      BY <2>1, CountsStay DEF DrainedIsEmpty, ReserveKept, Idle
    <2> QED
      BY <2>2, <2>3, <2>4
  <1> QED
    BY <1>2, <1>3

LEMMA AcquireTotalKeepsInv ==
    ASSUME LimiterInv, TryAcquireTotal
    PROVE  LimiterInv'
  <1> USE DEF LimiterInv, TryAcquireTotal
  <1>1. caller.pc = "total" /\ caller.kind \in Kinds
    BY DEF TypeOK
  <1>2. CASE total < size /\ drainer # "waiting"
    <2>1. caller' = [pc |-> "count", kind |-> caller.kind] /\ total' = total + 1
      BY <1>1, <1>2 DEF TypeOK
    <2>2. TypeOK'
      BY <1>1, <1>2, <2>1, Capacities DEF TypeOK, CallerPcs
    <2>3. drainer # "drained"
      BY <1>2, Capacities DEF Conserved
    <2>4. Conserved'
      <3>1. total' = Held + 1
        BY <1>1, <2>1, <2>3, CountTypes DEF Conserved, One
      <3> QED
        BY <3>1, <1>1, <2>1, <2>3, CountsStay DEF Conserved, One
    <2>5. DrainedIsEmpty' /\ ReserveKept'
      BY <1>1, <2>1, <2>3 DEF DrainedIsEmpty, ReserveKept
    <2> QED
      BY <2>2, <2>4, <2>5
  <1>3. CASE ~(total < size /\ drainer # "waiting")
    <2>1. caller' = [pc |-> "undo", kind |-> caller.kind] /\ UNCHANGED total
      BY <1>1, <1>3 DEF TypeOK
    <2>2. TypeOK'
      BY <1>1, <2>1 DEF TypeOK, CallerPcs
    <2>3. Conserved'
      BY <1>1, <2>1, CountsStay DEF Conserved, One
    <2>4. DrainedIsEmpty' /\ ReserveKept'
      BY <2>1, CountsStay DEF DrainedIsEmpty, ReserveKept
    <2> QED
      BY <2>2, <2>3, <2>4
  <1> QED
    BY <1>2, <1>3

LEMMA UndoKeepsInv ==
    ASSUME LimiterInv, UndoKind
    PROVE  LimiterInv'
  <1> USE DEF LimiterInv, UndoKind
  <1>1. caller.pc = "undo" /\ caller.kind \in Kinds
    BY DEF TypeOK
  <1>2. ASSUME NEW kind \in Kinds
        PROVE  /\ perKind'[kind] = Occupied(kind)
               /\ perKind'[kind] <= perKind[kind]
    BY <1>1, CountTypes DEF Conserved, One, TypeOK
  <1>3. perKind' \in [Kinds -> Nat]
    <2>1. perKind' = [kind \in Kinds |-> perKind'[kind]]
      BY DEF TypeOK
    <2> QED
      BY <2>1, <1>2, CountTypes
  <1>4. TypeOK'
    <2>1. \A kind \in Kinds : perKind'[kind] <= kindSem(kind)
      BY <1>2, <1>3, Capacities DEF TypeOK
    <2> QED
      BY <2>1, <1>3 DEF TypeOK, Idle, CallerPcs, Kinds
  <1>5. Conserved'
    <2>1. ASSUME NEW kind \in Kinds
          PROVE  perKind'[kind] = Occupied(kind) + 0
      BY <1>2, CountTypes
    <2> QED
      BY <1>1, <2>1, CountsStay DEF Conserved, One, Idle
  <1>6. DrainedIsEmpty' /\ ReserveKept'
    BY CountsStay DEF DrainedIsEmpty, ReserveKept, Idle
  <1> QED
    BY <1>4, <1>5, <1>6

LEMMA CountKeepsInv ==
    ASSUME LimiterInv, NEW o \in Ops, CountAndStart(o)
    PROVE  LimiterInv'
  <1> USE DEF LimiterInv
  <1>1. /\ caller.pc = "count" /\ caller.kind \in Kinds /\ op[o].pc = "idle"
        /\ op' = [op EXCEPT ![o] = [pc |-> "running", kind |-> caller.kind]]
        /\ [pc |-> "running", kind |-> caller.kind] \in OpState
        /\ counter' = [counter EXCEPT ![caller.kind] = counter[caller.kind] + 1]
        /\ caller' = Idle
        /\ UNCHANGED <<total, perKind, drainer>>
    BY DEF TypeOK, CountAndStart, OpState, OpPcs
  <1>2. /\ Held' = Held + 1
        /\ \A kind \in Kinds : /\ Running(kind)' = Running(kind) + One(caller.kind = kind)
                              /\ Occupied(kind)' = Occupied(kind) + One(caller.kind = kind)
    <2>1. PICK r \in OpState : r.pc = "running" /\ r.kind = caller.kind
                             /\ op' = [op EXCEPT ![o] = r]
      BY <1>1
    <2>2. TypeOK
      BY DEF LimiterInv
    <2>3. Moved(o, r)
      BY <2>1, <2>2, CountsMove
    <2> QED
      BY <1>1, <2>1, <2>3, CountTypes DEF Moved, One
  <1>3. TypeOK'
    BY <1>1 DEF TypeOK, Idle, CallerPcs, Kinds, OpState
  <1>4. drainer # "drained"
    BY <1>1 DEF DrainedIsEmpty
  <1>5. Conserved'
    <2>1. total' = Held' + 0
      BY <1>1, <1>2, <1>4, CountTypes DEF Conserved, One
    <2>2. ASSUME NEW kind \in Kinds
          PROVE  counter'[kind] = Running(kind)' /\ perKind'[kind] = Occupied(kind)' + 0
      BY <1>1, <1>2, CountTypes DEF Conserved, One, TypeOK
    <2> QED
      BY <1>1, <1>4, <2>1, <2>2 DEF Conserved, One, Idle
  <1>6. DrainedIsEmpty' /\ ReserveKept'
    BY <1>1, <1>4 DEF DrainedIsEmpty, ReserveKept, Idle
  <1> QED
    BY <1>3, <1>5, <1>6

LEMMA UncountKeepsInv ==
    ASSUME LimiterInv, NEW o \in Ops, Uncount(o)
    PROVE  LimiterInv'
  <1> USE DEF LimiterInv
  <1>1. /\ op[o].pc = "running" /\ op[o].kind \in Kinds
        /\ op' = [op EXCEPT ![o] = [pc |-> "uncounted", kind |-> op[o].kind]]
        /\ [pc |-> "uncounted", kind |-> op[o].kind] \in OpState
        /\ counter' = [counter EXCEPT ![op[o].kind] = counter[op[o].kind] - 1]
        /\ UNCHANGED <<total, perKind, caller, drainer>>
    <2>1. op[o] \in OpState
      BY DEF TypeOK, OpState
    <2>2. /\ [op[o] EXCEPT !.pc = "uncounted"] = [pc |-> "uncounted", kind |-> op[o].kind]
          /\ [pc |-> "uncounted", kind |-> op[o].kind] \in OpState /\ op[o].kind \in Kinds
      BY <2>1, StateParts DEF OpPcs
    <2> QED
      BY <2>2 DEF Uncount
  <1>2. /\ Held' = Held
        /\ \A kind \in Kinds : /\ Running(kind)' = Running(kind) - One(op[o].kind = kind)
                              /\ Occupied(kind)' = Occupied(kind)
    <2>1. PICK r \in OpState : r.pc = "uncounted" /\ r.kind = op[o].kind
                             /\ op' = [op EXCEPT ![o] = r]
      BY <1>1
    <2>2. TypeOK
      BY DEF LimiterInv
    <2>3. Moved(o, r)
      BY <2>1, <2>2, CountsMove
    <2> QED
      BY <1>1, <2>1, <2>3, CountTypes DEF Moved, One
  <1>3. counter[op[o].kind] > 0
    BY <1>1, CountsPositive DEF Conserved
  <1>4. counter' \in [Kinds -> Nat] /\ counter'["delete"] <= counter["delete"]
    BY <1>1, <1>3 DEF TypeOK, Kinds
  <1>5. TypeOK'
    BY <1>1, <1>4 DEF TypeOK, OpState
  <1>6. Conserved'
    <2>1. ASSUME NEW kind \in Kinds PROVE counter'[kind] = Running(kind)'
      BY <1>1, <1>2, CountTypes DEF Conserved, One, TypeOK
    <2> QED
      BY <1>1, <1>2, <2>1 DEF Conserved
  <1>7. DrainedIsEmpty'
    BY <1>1, <1>2 DEF DrainedIsEmpty
  <1>8. ReserveKept'
    <2>1. counter["delete"] \in Nat /\ counter'["delete"] \in Nat /\ size \in Nat
      BY <1>4, Capacities DEF TypeOK, Kinds
    <2>2. counter["delete"] < size - 1 => counter'["delete"] < size - 1
      BY <1>4, <2>1
    <2> QED
      BY <1>1, <2>2 DEF ReserveKept, size
  <1> QED
    BY <1>5, <1>6, <1>7, <1>8

LEMMA ReleaseTotalKeepsInv ==
    ASSUME LimiterInv, NEW o \in Ops, ReleaseTotal(o)
    PROVE  LimiterInv' /\ (drainer' # drainer => Held' = 0 /\ drainer' = "drained")
  <1> USE DEF LimiterInv
  <1>1. /\ op[o].pc = "uncounted" /\ op[o].kind \in Kinds
        /\ op' = [op EXCEPT ![o] = [pc |-> "freed", kind |-> op[o].kind]]
        /\ [pc |-> "freed", kind |-> op[o].kind] \in OpState
        /\ UNCHANGED <<perKind, counter, caller>>
    <2>1. op[o] \in OpState
      BY DEF TypeOK, OpState
    <2>2. /\ [op[o] EXCEPT !.pc = "freed"] = [pc |-> "freed", kind |-> op[o].kind]
          /\ [pc |-> "freed", kind |-> op[o].kind] \in OpState /\ op[o].kind \in Kinds
      BY <2>1, StateParts DEF OpPcs
    <2> QED
      BY <2>2 DEF ReleaseTotal
  <1>2. /\ Held' = Held - 1
        /\ \A kind \in Kinds : /\ Running(kind)' = Running(kind)
                              /\ Occupied(kind)' = Occupied(kind)
    <2>1. PICK r \in OpState : r.pc = "freed" /\ r.kind = op[o].kind
                             /\ op' = [op EXCEPT ![o] = r]
      BY <1>1
    <2>2. TypeOK
      BY DEF LimiterInv
    <2>3. Moved(o, r)
      BY <2>1, <2>2, CountsMove
    <2> QED
      BY <1>1, <2>1, <2>3, CountTypes DEF Moved, One
  <1>3. Held > 0 /\ drainer # "drained"
    BY <1>1, CountsPositive, CountTypes DEF DrainedIsEmpty
  <1>4. total = Held + One(caller.pc = "count") /\ total > 0
    BY <1>3, CountTypes DEF Conserved, One
  <1>5. CASE total = 1 /\ drainer = "waiting"
    <2>1. total' = size /\ drainer' = "drained"
      BY <1>5 DEF ReleaseTotal
    <2>2. Held' = 0 /\ caller.pc # "count"
      BY <1>2, <1>3, <1>4, <1>5, CountTypes DEF One
    <2>3. TypeOK'
      BY <1>1, <2>1, Capacities DEF TypeOK, OpState
    <2>4. Conserved'
      BY <1>1, <1>2, <2>1 DEF Conserved, size
    <2>5. DrainedIsEmpty' /\ ReserveKept'
      BY <1>1, <2>1, <2>2 DEF DrainedIsEmpty, ReserveKept, size
    <2> QED
      BY <2>1, <2>2, <2>3, <2>4, <2>5
  <1>6. CASE ~(total = 1 /\ drainer = "waiting")
    <2>1. total' = total - 1 /\ UNCHANGED drainer
      BY <1>6 DEF ReleaseTotal
    <2>2. TypeOK'
      BY <1>1, <1>4, <2>1, Capacities DEF TypeOK, OpState
    <2>3. total' = Held' + One(caller.pc = "count")
      BY <1>2, <1>4, <2>1, CountTypes DEF One
    <2>4. Conserved'
      BY <1>1, <1>2, <1>3, <2>1, <2>3 DEF Conserved
    <2>5. DrainedIsEmpty' /\ ReserveKept'
      BY <1>1, <1>3, <2>1 DEF DrainedIsEmpty, ReserveKept, size
    <2> QED
      BY <2>1, <2>2, <2>4, <2>5
  <1> QED
    BY <1>5, <1>6

LEMMA ReleaseKindKeepsInv ==
    ASSUME LimiterInv, NEW o \in Ops, ReleaseKind(o)
    PROVE  LimiterInv'
  <1> USE DEF LimiterInv
  <1>1. /\ op[o].pc = "freed" /\ op[o].kind \in Kinds
        /\ op' = [op EXCEPT ![o] = Idle]
        /\ Idle \in OpState
        /\ perKind' = [perKind EXCEPT ![op[o].kind] = perKind[op[o].kind] - 1]
        /\ UNCHANGED <<total, counter, caller, drainer>>
    BY DEF TypeOK, ReleaseKind, OpState, OpPcs, Idle, Kinds
  <1>2. Idle.pc = "idle"
    BY DEF Idle
  <1>3. /\ Held' = Held
        /\ \A kind \in Kinds : /\ Running(kind)' = Running(kind)
                              /\ Occupied(kind)' = Occupied(kind) - One(op[o].kind = kind)
    <2>1. PICK r \in OpState : r.pc = "idle" /\ op' = [op EXCEPT ![o] = r]
      BY <1>1, <1>2
    <2>2. TypeOK
      BY DEF LimiterInv
    <2>3. Moved(o, r)
      BY <2>1, <2>2, CountsMove
    <2> QED
      BY <1>1, <2>1, <2>3, CountTypes DEF Moved, One
  <1>4. perKind[op[o].kind] > 0
    <2>1. Occupied(op[o].kind) > 0
      BY <1>1, CountsPositive
    <2> QED
      BY <1>1, <2>1, CountTypes DEF Conserved, One
  <1>5. /\ perKind' \in [Kinds -> Nat]
        /\ \A kind \in Kinds : perKind'[kind] <= kindSem(kind)
    BY <1>1, <1>4, Capacities DEF TypeOK
  <1>6. TypeOK'
    BY <1>1, <1>5 DEF TypeOK, OpState
  <1>7. Conserved'
    <2>1. ASSUME NEW kind \in Kinds
          PROVE  perKind'[kind] = Occupied(kind)'
                    + One(caller.kind = kind /\ caller.pc \in {"total", "undo", "count"})
      BY <1>1, <1>3, CountTypes DEF Conserved, One, TypeOK
    <2> QED
      BY <1>1, <1>3, <2>1 DEF Conserved
  <1>8. DrainedIsEmpty' /\ ReserveKept'
    BY <1>1, <1>3 DEF DrainedIsEmpty, ReserveKept, size
  <1> QED
    BY <1>6, <1>7, <1>8

LEMMA DrainKeepsInv ==
    ASSUME LimiterInv, drain \/ DrainGivesUp
    PROVE  LimiterInv' /\ (drainer' = "drained" => Held' = 0)
  <1> USE DEF LimiterInv
  <1>1. Held' = Held /\ \A kind \in Kinds : /\ Running(kind)' = Running(kind)
                                           /\ Occupied(kind)' = Occupied(kind)
    BY CountsStay DEF drain, DrainGivesUp
  <1>2. UNCHANGED <<perKind, counter, op, caller>> /\ drainer # "drained"
    BY DEF drain, DrainGivesUp
  <1>3. CASE drainer' = "drained"
    <2>1. total = 0 /\ total' = size
      BY <1>3 DEF drain, DrainGivesUp
    <2>2. Held = 0 /\ caller.pc # "count"
      BY <1>2, <2>1, CountTypes DEF Conserved, One
    <2>3. TypeOK'
      BY <1>2, <1>3, <2>1, Capacities DEF TypeOK
    <2>4. Conserved'
      BY <1>1, <1>2, <1>3, <2>1 DEF Conserved, size
    <2>5. DrainedIsEmpty' /\ ReserveKept'
      BY <1>1, <1>2, <2>2 DEF DrainedIsEmpty, ReserveKept, size
    <2> QED
      BY <1>1, <2>2, <2>3, <2>4, <2>5
  <1>4. CASE drainer' # "drained"
    <2>1. UNCHANGED total /\ drainer' \in {"waiting", "failed"}
      BY <1>4 DEF drain, DrainGivesUp
    <2>2. TypeOK'
      BY <1>2, <2>1 DEF TypeOK
    <2>3. Conserved'
      BY <1>1, <1>2, <2>1, <1>4 DEF Conserved
    <2>4. DrainedIsEmpty' /\ ReserveKept'
      BY <1>2, <1>4 DEF DrainedIsEmpty, ReserveKept, size
    <2> QED
      BY <1>4, <2>2, <2>3, <2>4
  <1> QED
    BY <1>3, <1>4

LEMMA NextInv == LimiterInv /\ [Next]_vars => LimiterInv'
  <1> SUFFICES ASSUME LimiterInv, [Next]_vars PROVE LimiterInv'
    OBVIOUS
  <1>1. CASE UNCHANGED vars
    BY <1>1, CountsStay
       DEF vars, LimiterInv, TypeOK, Conserved, DrainedIsEmpty, ReserveKept
  <1> QED
    BY <1>1, CallKeepsInv, CheckReserveKeepsInv, AcquireKindKeepsInv, AcquireTotalKeepsInv,
       UndoKeepsInv, CountKeepsInv, UncountKeepsInv, ReleaseTotalKeepsInv,
       ReleaseKindKeepsInv, DrainKeepsInv
       DEF Next, TryAcquireStep, release

\* The accounts of opLimiter always agree with the operations that have slots
\* (LimiterInv), whatever the limits and however many operations there are.
THEOREM LimiterInvariant == Spec => []LimiterInv
  BY InitInv, NextInv, PTL DEF Spec

\* No semaphore and no counter of opLimiter goes below zero or above its
\* capacity: release never panics.
THEOREM LimiterTypes == Spec => []TypeOK
  <1>1. LimiterInv => TypeOK
    BY DEF LimiterInv
  <1> QED
    BY <1>1, LimiterInvariant, PTL

LEMMA CountsAreCardinalities ==
    ASSUME TypeOK
    PROVE  /\ Held = Cardinality(OpsAt({"running", "uncounted"}))
           /\ \A kind \in Kinds :
                 /\ Running(kind) = Cardinality(Taken(kind, {"running"}))
                 /\ Occupied(kind) = Cardinality(Taken(kind, {"running", "uncounted", "freed"}))
  <1>1. \A o \in Ops : op[o] \in OpState
    BY DEF TypeOK, OpState
  <1>2. Members([pc : {"running", "uncounted"}, kind : Kinds]) = OpsAt({"running", "uncounted"})
    <2>1. \A o \in Ops : op[o] \in [pc : {"running", "uncounted"}, kind : Kinds]
                           <=> op[o].pc \in {"running", "uncounted"}
      BY <1>1, StateCounted
    <2> QED
      BY <2>1 DEF Members, OpsAt
  <1>3. ASSUME NEW kind \in Kinds, NEW pcs
        PROVE  Members(Holding(kind, pcs)) = Taken(kind, pcs)
    <2>1. \A o \in Ops : op[o] \in Holding(kind, pcs) <=> op[o].pc \in pcs /\ op[o].kind = kind
      BY <1>1, StateCounted
    <2> QED
      BY <2>1 DEF Members, Taken, OpsAt
  <1> QED
    BY <1>2, <1>3 DEF Held, Running, Occupied

\* tryAcquire and release never lose a slot or count one twice, however their
\* steps on the two semaphores and the counter interleave.
THEOREM SlotsAreConserved == Spec => []SlotsConserved
  <1>1. LimiterInv => SlotsConserved
    BY CountsAreCardinalities DEF LimiterInv, Conserved, SlotsConserved
  <1> QED
    BY <1>1, LimiterInvariant, PTL

-----------------------------------------------------------------------------
(* OpLimiter implements Limiter.                                           *)

\* Limiter counts with the same Cardinality.
LEMMA SameCardinality ==
    ASSUME NEW S
    PROVE  Abstract!Cardinality(S) = Cardinality(S)
  BY DEF Abstract!Cardinality, Cardinality

LEMMA AbstractCounts ==
    ASSUME TypeOK
    PROVE  /\ Abstract!InUse(Abstract!Kinds) = OpsAt({"running"})
           /\ \A kind \in Kinds : Abstract!InUse({kind}) = Taken(kind, {"running"})
  <1>1. \A o \in Ops : op[o].kind \in {"create", "delete"}
    BY DEF TypeOK, Kinds
  <1> QED
    BY <1>1 DEF Abstract!InUse, Abstract!Kinds, OpsAt, Taken, Kinds

\* Fewer run than have slots.
LEMMA RunningHold ==
    ASSUME TypeOK
    PROVE  /\ Cardinality(OpsAt({"running"})) \in Nat
           /\ Cardinality(OpsAt({"running"})) <= Held
           /\ \A kind \in Kinds : Running(kind) <= Occupied(kind)
  <1>1. ASSUME NEW S, NEW T, S \subseteq T, T \subseteq Ops
        PROVE  Cardinality(S) \in Nat /\ Cardinality(T) \in Nat
               /\ Cardinality(S) <= Cardinality(T)
    <2>1. IsFiniteSet(T) /\ IsFiniteSet(S)
      BY <1>1, LimiterAssumption, FS_Subset
    <2> QED
      BY <1>1, <2>1, FS_Subset, FS_CardinalityType
  <1>2. /\ OpsAt({"running"}) \subseteq OpsAt({"running", "uncounted"})
        /\ OpsAt({"running", "uncounted"}) \subseteq Ops
    BY DEF OpsAt
  <1>3. ASSUME NEW kind \in Kinds
        PROVE  /\ Taken(kind, {"running"}) \subseteq Taken(kind, {"running", "uncounted", "freed"})
               /\ Taken(kind, {"running", "uncounted", "freed"}) \subseteq Ops
    BY DEF Taken, OpsAt
  <1> QED
    BY <1>1, <1>2, <1>3, CountsAreCardinalities

LEMMA CountImplementsAcquire ==
    ASSUME LimiterInv, NEW o \in Ops, CountAndStart(o), NEW kind \in Kinds, kind = caller.kind
    PROVE  Abstract!Acquire(o, kind)
  <1> DEFINE inUse == [p \in Ops |-> IF op[p].pc = "running" THEN op[p].kind ELSE "none"]
  <1>1. /\ TypeOK /\ Conserved /\ kind = caller.kind /\ caller.pc = "count"
        /\ op[o].pc = "idle" /\ drainer # "drained" /\ drainer' = drainer
        /\ op' = [op EXCEPT ![o] = [pc |-> "running", kind |-> kind]]
    BY DEF LimiterInv, TypeOK, DrainedIsEmpty, CountAndStart
  <1>2. inUse' = [inUse EXCEPT ![o] = kind]
    <2>1. op \in [Ops -> OpState]
      BY <1>1 DEF TypeOK, OpState
    <2> QED
      BY <1>1, <2>1
  <1>3. Cardinality(Abstract!InUse(Abstract!Kinds)) < size
    <2>1. total = Held + 1 /\ total \in 0 .. size
      BY <1>1 DEF Conserved, One, TypeOK
    <2>2. Cardinality(OpsAt({"running"})) < size
      BY <1>1, <2>1, RunningHold, CountTypes, Capacities
    <2> QED
      BY <1>1, <2>2, AbstractCounts
  <1>4. Cardinality(Abstract!InUse({kind})) < Abstract!maxOfKind(kind)
    <2>1. perKind[kind] = Occupied(kind) + 1 /\ perKind[kind] <= kindSem(kind)
      BY <1>1 DEF Conserved, One, TypeOK
    <2>2. kindSem(kind) <= Abstract!maxOfKind(kind) /\ Abstract!maxOfKind(kind) \in Nat
      BY <1>1, LimiterAssumption DEF kindSem, Abstract!maxOfKind, size, Kinds
    <2>3. Running(kind) <= Occupied(kind) /\ Running(kind) \in Nat /\ Occupied(kind) \in Nat
      BY <1>1, RunningHold, CountTypes
    <2>4. Running(kind) < Abstract!maxOfKind(kind)
      BY <1>1, <2>1, <2>2, <2>3, Capacities
    <2> QED
      BY <1>1, <2>4, AbstractCounts, CountsAreCardinalities
  <1>5. kind = "delete" /\ size > 1 => Cardinality(Abstract!InUse({"delete"})) < size - 1
    <2>1. kind = "delete" /\ size > 1 => counter["delete"] < size - 1
      BY <1>1 DEF LimiterInv, ReserveKept
    <2>2. counter["delete"] = Cardinality(Abstract!InUse({"delete"}))
      BY <1>1, AbstractCounts, CountsAreCardinalities DEF Conserved, Kinds
    <2> QED
      BY <2>1, <2>2
  <1>6. inUse[o] = "none"
    BY <1>1
  <1> QED
    BY <1>1, <1>2, <1>3, <1>4, <1>5, <1>6, SameCardinality DEF Abstract!Acquire

LEMMA UncountImplementsRelease ==
    ASSUME LimiterInv, NEW o \in Ops, Uncount(o)
    PROVE  Abstract!Release(o)
  <1>1. /\ op \in [Ops -> OpState] /\ op[o].kind \in Kinds /\ op[o].pc = "running"
        /\ drainer' = drainer
        /\ op' = [op EXCEPT ![o] = [op[o] EXCEPT !.pc = "uncounted"]]
    BY DEF LimiterInv, TypeOK, OpState, Uncount
  <1>2. [op[o] EXCEPT !.pc = "uncounted"].pc = "uncounted"
    BY <1>1, StateParts DEF OpPcs
  <1>3. op[o].kind # "none"
    BY <1>1 DEF Kinds
  <1> QED
    BY <1>1, <1>2, <1>3 DEF Abstract!Release

LEMMA NoneHeldNoneRuns == TypeOK /\ Held = 0 => OpsAt({"running"}) = {}
  <1> SUFFICES ASSUME TypeOK, Held = 0, NEW o \in Ops, op[o].pc = "running" PROVE FALSE
    BY DEF OpsAt
  <1> QED
    BY CountsPositive

\* A step that leaves the running operations alone is a stutter, or drains.
LEMMA OthersStutterOrDrain ==
    ASSUME LimiterInv, LimiterInv',
           \A o \in Ops : op'[o] = op[o] \/ (op[o].pc # "running" /\ op'[o].pc # "running"),
           drainer' = drainer \/ (drainer # "drained" /\ drainer' # "drained")
              \/ (drainer' = "drained" /\ Held' = 0)
    PROVE  UNCHANGED Abstract!limiterVars \/ Abstract!Drain
  <1> DEFINE inUse == [o \in Ops |-> IF op[o].pc = "running" THEN op[o].kind ELSE "none"]
  <1>1. inUse' = inUse
    OBVIOUS
  <1>2. CASE (drainer' = "drained") = (drainer = "drained")
    BY <1>1, <1>2 DEF Abstract!limiterVars
  <1>3. CASE drainer' = "drained" /\ drainer # "drained"
    <2>1. Held' = 0 /\ TypeOK'
      BY <1>3 DEF LimiterInv
    <2>2. OpsAt({"running"})' = {}
      <3>1. (TypeOK /\ Held = 0 => OpsAt({"running"}) = {})'
        BY NoneHeldNoneRuns, PTL
      <3> QED
        BY <2>1, <3>1
    <2>3. OpsAt({"running"}) = {}
      BY <2>2 DEF OpsAt
    <2>4. Abstract!InUse(Abstract!Kinds) = {}
      BY <2>3, AbstractCounts DEF LimiterInv
    <2> QED
      BY <1>1, <1>3, <2>4 DEF Abstract!Drain
  <1> QED
    BY <1>2, <1>3

LEMMA StepImplements ==
    ASSUME LimiterInv, LimiterInv', [Next]_vars
    PROVE  [Abstract!LimiterNext]_(Abstract!limiterVars)
  <1>1. ASSUME NEW o \in Ops, CountAndStart(o) PROVE Abstract!LimiterNext
    <2>1. PICK kind \in Kinds : kind = caller.kind
      BY DEF LimiterInv, TypeOK
    <2>2. Abstract!Acquire(o, kind)
      BY <1>1, <2>1, CountImplementsAcquire
    <2> QED
      BY <2>2 DEF Abstract!LimiterNext, Abstract!Kinds, Kinds
  <1>2. ASSUME NEW o \in Ops, Uncount(o) PROVE Abstract!LimiterNext
    BY <1>2, UncountImplementsRelease DEF Abstract!LimiterNext
  <1>3. ASSUME NEW o \in Ops, ReleaseTotal(o)
        PROVE  UNCHANGED Abstract!limiterVars \/ Abstract!Drain
    <2>1. drainer' # drainer => Held' = 0 /\ drainer' = "drained"
      BY <1>3, ReleaseTotalKeepsInv
    <2>2. /\ op[o] \in OpState /\ op[o].pc # "running"
          /\ op' = [op EXCEPT ![o] = [op[o] EXCEPT !.pc = "freed"]]
      BY <1>3 DEF ReleaseTotal, LimiterInv, TypeOK, OpState
    <2>3. [op[o] EXCEPT !.pc = "freed"].pc # "running"
      BY <2>2, StateParts DEF OpPcs
    <2>4. \A p \in Ops : op'[p] = op[p] \/ (op[p].pc # "running" /\ op'[p].pc # "running")
      BY <2>2, <2>3 DEF LimiterInv, TypeOK
    <2> QED
      BY <2>1, <2>4, OthersStutterOrDrain
  <1>4. ASSUME NEW o \in Ops, ReleaseKind(o)
        PROVE  UNCHANGED Abstract!limiterVars \/ Abstract!Drain
    <2>1. \A p \in Ops : op'[p] = op[p] \/ (op[p].pc # "running" /\ op'[p].pc # "running")
      BY <1>4 DEF ReleaseKind, Idle, LimiterInv, TypeOK
    <2>2. drainer' = drainer
      BY <1>4 DEF ReleaseKind
    <2> QED
      BY <2>1, <2>2, OthersStutterOrDrain
  <1>5. ASSUME drain \/ DrainGivesUp
        PROVE  UNCHANGED Abstract!limiterVars \/ Abstract!Drain
    <2>1. drainer' = "drained" => Held' = 0
      BY <1>5, DrainKeepsInv
    <2>2. UNCHANGED op /\ drainer # "drained"
      BY <1>5 DEF drain, DrainGivesUp
    <2> QED
      BY <2>1, <2>2, OthersStutterOrDrain
  <1>6. ASSUME UNCHANGED <<op, drainer>> PROVE UNCHANGED Abstract!limiterVars
    BY <1>6 DEF Abstract!limiterVars
  <1>7. UNCHANGED vars \/ CheckReserve \/ TryAcquireKind \/ TryAcquireTotal \/ UndoKind
           \/ (\E kind \in Kinds : tryAcquire(kind)) => UNCHANGED <<op, drainer>>
    BY DEF vars, CheckReserve, TryAcquireKind, TryAcquireTotal, UndoKind, tryAcquire
  <1> QED
    BY <1>1, <1>2, <1>3, <1>4, <1>5, <1>6, <1>7
       DEF Next, TryAcquireStep, release, Abstract!LimiterNext

\* opLimiter, step by step, implements the limiter the reconciler relies on:
\* never more operations than the limits, a slot left to creates, and none
\* running or starting once drain has returned.
THEOREM OpLimiterImplementsLimiter == Spec => ImplementsLimiter
  <1>1. newOpLimiter => Abstract!LimiterInit
    BY DEF newOpLimiter, Idle, Abstract!LimiterInit
  <1>2. LimiterInv /\ LimiterInv' /\ [Next]_vars
           => [Abstract!LimiterNext]_(Abstract!limiterVars)
    BY StepImplements
  <1> QED
    BY <1>1, <1>2, LimiterInvariant, PTL DEF Spec, ImplementsLimiter, Abstract!LimiterSpec

=============================================================================

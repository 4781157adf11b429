--------------------------- MODULE ThrottleProofs ---------------------------
(***************************************************************************)
(* Proofs about ThrottleGate, for any calls and any lengths of the pause.  *)
(***************************************************************************)
EXTENDS ThrottleGate, TLAPS

\* Once the interval has grown, half of an initial pause has passed since the
\* last reset or is still ahead: no rejection counts before it is over.
PauseAfterGrowth ==
    interval > InitialPause => 2 * (sinceReset + left) >= InitialPause

GateInv == TypeOK /\ PauseAfterGrowth /\ BurstsCountOnce

LEMMA LongestType == Longest \in Nat
  BY GateAssumption DEF Longest

\* A step that moves one call, and at most sets its timer, keeps the calls' type.
LEMMA GotoType ==
    ASSUME TypeOK, NEW c \in Calls, NEW at \in Pcs, Goto(c, at)
    PROVE  call' \in [Calls -> [pc : Pcs, timer : 0 .. Longest, cancelled : BOOLEAN]]
  <1> DEFINE moved == [call[c] EXCEPT !.pc = at, !.timer = 0]
  <1>1. call \in [Calls -> [pc : Pcs, timer : 0 .. Longest, cancelled : BOOLEAN]]
    BY DEF TypeOK
  <1>2. call' = [call EXCEPT ![c] = moved]
    BY Zenon DEF Goto
  <1>3. moved \in [pc : Pcs, timer : 0 .. Longest, cancelled : BOOLEAN]
    <2>1. 0 \in 0 .. Longest
      BY LongestType
    <2>2. call[c] \in [pc : Pcs, timer : 0 .. Longest, cancelled : BOOLEAN]
      BY <1>1
    <2> QED
      BY <2>1, <2>2
  <1> QED
    BY <1>1, <1>2, <1>3

LEMMA GateInit == Init => GateInv
  <1> SUFFICES ASSUME Init PROVE GateInv
    OBVIOUS
  <1>1. TypeOK
    BY GateAssumption, LongestType DEF Init, TypeOK, Pcs
  <1>2. PauseAfterGrowth /\ BurstsCountOnce
    BY GateAssumption DEF Init, PauseAfterGrowth, BurstsCountOnce
  <1> QED
    BY <1>1, <1>2 DEF GateInv

\* What does not touch the pause, its length and the clock keeps both bounds.
LEMMA BoundsKept ==
    ASSUME GateInv, UNCHANGED <<left, interval, sinceReset>>
    PROVE  PauseAfterGrowth' /\ BurstsCountOnce'
  BY DEF GateInv, PauseAfterGrowth, BurstsCountOnce

LEMMA ThrottledStep ==
    ASSUME GateInv, NEW c \in Calls, NEW pause \in Pauses, throttled(c, pause)
    PROVE  GateInv'
  <1> USE GateAssumption, LongestType
  <1>1. pause \in 1 .. Longest /\ 2 * pause >= interval
    BY DEF Pauses
  <1>2. /\ left \in 0 .. Longest /\ interval \in InitialPause .. MaxPause
        /\ sinceReset \in 0 .. InitialPause /\ sinceReset' = sinceReset
    BY DEF GateInv, TypeOK, throttled
  <1>3. left' \in 0 .. Longest /\ interval' \in InitialPause .. MaxPause
    BY <1>1, <1>2 DEF throttled
  <1>4. call' \in [Calls -> [pc : Pcs, timer : 0 .. Longest, cancelled : BOOLEAN]]
    BY GotoType DEF GateInv, throttled, Pcs
  <1>5. PauseAfterGrowth'
    BY <1>1, <1>2 DEF GateInv, PauseAfterGrowth, throttled
  <1>6. BurstsCountOnce'
    BY <1>1, <1>2 DEF GateInv, PauseAfterGrowth, BurstsCountOnce, throttled
  <1> QED
    BY <1>2, <1>3, <1>4, <1>5, <1>6 DEF GateInv, TypeOK

LEMMA SucceededStep ==
    ASSUME GateInv, NEW c \in Calls, NEW operation \in BOOLEAN, succeeded(c, operation)
    PROVE  GateInv'
  <1> USE GateAssumption, LongestType
  <1>1. call' \in [Calls -> [pc : Pcs, timer : 0 .. Longest, cancelled : BOOLEAN]]
    BY GotoType DEF GateInv, succeeded, Pcs
  <1>2. TypeOK'
    BY <1>1 DEF GateInv, TypeOK, succeeded
  <1>3. PauseAfterGrowth' /\ BurstsCountOnce'
    BY DEF GateInv, TypeOK, PauseAfterGrowth, BurstsCountOnce, succeeded
  <1> QED
    BY <1>2, <1>3 DEF GateInv

LEMMA TickStep ==
    ASSUME GateInv, Tick
    PROVE  GateInv'
  <1> USE GateAssumption, LongestType
  <1>1. \A n \in 0 .. Longest : Less(n) \in 0 .. Longest
    BY DEF Less
  <1>2. ASSUME NEW c \in Calls
        PROVE  [call[c] EXCEPT !.timer = Less(@)]
                  \in [pc : Pcs, timer : 0 .. Longest, cancelled : BOOLEAN]
    BY <1>1 DEF GateInv, TypeOK
  <1>3. call' \in [Calls -> [pc : Pcs, timer : 0 .. Longest, cancelled : BOOLEAN]]
    BY <1>2 DEF Tick
  <1>4. TypeOK'
    BY <1>1, <1>3 DEF GateInv, TypeOK, Tick
  <1>5. PauseAfterGrowth' /\ BurstsCountOnce'
    BY DEF GateInv, TypeOK, PauseAfterGrowth, BurstsCountOnce, Tick, Less
  <1> QED
    BY <1>4, <1>5 DEF GateInv

\* The remaining steps move one call only.
LEMMA CallStep ==
    ASSUME GateInv, NEW c \in Calls,
           Rejected(c) \/ wait(c) \/ Wake(c) \/ NextCall(c) \/ Cancel(c)
    PROVE  GateInv'
  <1> USE LongestType
  <1>1. UNCHANGED <<left, interval, sinceReset>>
    BY DEF Rejected, wait, Wake, NextCall, Cancel
  <1>2. call' \in [Calls -> [pc : Pcs, timer : 0 .. Longest, cancelled : BOOLEAN]]
    <2>1. CASE Rejected(c)
      BY <2>1, GotoType DEF GateInv, Rejected, Pcs
    <2>2. CASE wait(c)
      <3>1. CASE left > 0
        BY <2>2, <3>1 DEF GateInv, TypeOK, wait, Pcs
      <3>2. CASE ~(left > 0)
        <4>1. Goto(c, "done") \/ Goto(c, "request")
          BY <2>2, <3>2 DEF wait
        <4> QED
          BY <4>1, GotoType DEF GateInv, Pcs
      <3> QED
        BY <3>1, <3>2
    <2>3. CASE Wake(c)
      BY <2>3, GotoType DEF GateInv, Wake, Pcs
    <2>4. CASE NextCall(c)
      BY <2>4 DEF GateInv, TypeOK, NextCall, Pcs
    <2>5. CASE Cancel(c)
      BY <2>5 DEF GateInv, TypeOK, Cancel
    <2> QED
      BY <2>1, <2>2, <2>3, <2>4, <2>5
  <1>3. TypeOK'
    BY <1>1, <1>2 DEF GateInv, TypeOK
  <1> QED
    BY <1>1, <1>3, BoundsKept DEF GateInv

LEMMA GateStep == GateInv /\ [Next]_vars => GateInv'
  <1> SUFFICES ASSUME GateInv, [Next]_vars PROVE GateInv'
    OBVIOUS
  <1>1. CASE UNCHANGED vars
    BY <1>1 DEF GateInv, TypeOK, PauseAfterGrowth, BurstsCountOnce, vars, Pauses
  <1>2. CASE Next
    BY <1>2, ThrottledStep, SucceededStep, TickStep, CallStep DEF Next
  <1> QED
    BY <1>1, <1>2

\* The inductive invariant of the gate.
THEOREM GateInvariant == Spec => []GateInv
  BY GateInit, GateStep, PTL DEF Spec

\* No pause is longer than one and a half of throttleMaxPause.
THEOREM PausesAreBounded == Spec => []TypeOK
  <1>1. GateInv => TypeOK
    BY DEF GateInv
  <1> QED
    BY <1>1, GateInvariant, PTL

\* However many calls are rejected at once, the next pause grows once: throttled
\* passes over rejections that arrive during a pause.
THEOREM BurstsLengthenOnce == Spec => []BurstsCountOnce
  <1>1. GateInv => BurstsCountOnce
    BY DEF GateInv
  <1> QED
    BY <1>1, GateInvariant, PTL

\* No call of any number goes on during a pause, also not one that began between
\* its timer and its next look at pausedUntil.
THEOREM PausesAreWaitedOut == Spec => WaitsOutThePause
  <1>1. GateInv /\ [Next]_vars =>
          [\A c \in Calls : call[c].pc \in {"wait", "sleep"} /\ call'[c].pc = "request"
                               => left = 0]_vars
    <2> SUFFICES ASSUME GateInv, Next, NEW c \in Calls,
                        call[c].pc \in {"wait", "sleep"}, call'[c].pc = "request"
                 PROVE  left = 0
      OBVIOUS
    <2>1. /\ call \in [Calls -> [pc : Pcs, timer : 0 .. Longest, cancelled : BOOLEAN]]
          /\ left \in Nat
      BY LongestType DEF GateInv, TypeOK
    <2>2. ASSUME NEW d \in Calls, NEW at \in Pcs, Goto(d, at), call[d].pc = "request" \/ at # "request"
          PROVE  FALSE
      BY <2>1, <2>2 DEF Goto, Pcs
    <2>3. CASE Tick
      BY <2>1, <2>3 DEF Tick
    <2>4. ASSUME NEW d \in Calls, wait(d)
          PROVE  left = 0
      <3>1. CASE left > 0
        BY <2>1, <2>4, <3>1 DEF wait
      <3> QED
        BY <2>1, <3>1
    <2>5. ASSUME NEW d \in Calls, NextCall(d) \/ Cancel(d)
          PROVE  FALSE
      BY <2>1, <2>5 DEF NextCall, Cancel
    <2>6. ASSUME NEW d \in Calls, Rejected(d) \/ Wake(d)
          PROVE  FALSE
      BY <2>2, <2>6 DEF Rejected, Wake, Pcs
    <2>7. ASSUME NEW d \in Calls, NEW pause \in Pauses, throttled(d, pause)
          PROVE  FALSE
      BY <2>2, <2>7 DEF throttled, Pcs
    <2>8. ASSUME NEW d \in Calls, NEW operation \in BOOLEAN, succeeded(d, operation)
          PROVE  FALSE
      BY <2>2, <2>8 DEF succeeded, Pcs
    <2> QED
      BY <2>3, <2>4, <2>5, <2>6, <2>7, <2>8 DEF Next
  <1> QED
    BY <1>1, GateInvariant, PTL DEF Spec, WaitsOutThePause

=============================================================================

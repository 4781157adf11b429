---------------------------- MODULE ThrottleGate ----------------------------
(***************************************************************************)
(* throttleGate (src/throttle.go): the pause that the calls of an instance *)
(* group share after vCD's operation limit. Time is kept as what is left   *)
(* of the pause and of each timer; Tick takes a unit from all of them.     *)
(***************************************************************************)
EXTENDS Naturals

CONSTANTS
    Calls,           \* the goroutines in vcdCall
    InitialPause,    \* throttleInitialPause
    MaxPause         \* throttleMaxPause

ASSUME GateAssumption ==
    /\ InitialPause \in Nat \ {0}
    /\ MaxPause \in Nat
    /\ MaxPause >= InitialPause

VARIABLES
    left,          \* pausedUntil, from now
    interval,      \* bo's current interval
    call,          \* where each call is, and its timer
    sinceReset     \* ghost: time since bo.Reset, up to InitialPause

vars == <<left, interval, call, sinceReset>>

Longest == MaxPause + MaxPause \div 2

Pcs == {"request", "throttled", "wait", "sleep", "done"}

\* NextBackOff with throttleJitter.
Pauses == {p \in 1 .. Longest : 2 * p >= interval /\ 2 * p <= 3 * interval}

Init ==
    /\ left = 0
    /\ interval = InitialPause
    /\ call = [c \in Calls |-> [pc |-> "request", timer |-> 0, cancelled |-> FALSE]]
    /\ sinceReset = 0

Goto(c, at) == call' = [call EXCEPT ![c] = [@ EXCEPT !.pc = at, !.timer = 0]]

-----------------------------------------------------------------------------

\* vCD rejects a request; it may have been sent long before.
Rejected(c) ==
    /\ call[c].pc = "request"
    /\ Goto(c, "throttled")
    /\ UNCHANGED <<left, interval, sinceReset>>

\* Every rejection starts a new pause.
throttledAlways(c, pause) ==
    /\ call[c].pc = "throttled"
    /\ left' = pause
    /\ interval' = IF 2 * interval < MaxPause THEN 2 * interval ELSE MaxPause
    /\ Goto(c, "wait")
    /\ UNCHANGED sinceReset

\* The pause has no upper limit.
throttledUncapped(c, pause) ==
    /\ call[c].pc = "throttled"
    /\ left = 0
    /\ left' = pause
    /\ interval' = 2 * interval
    /\ Goto(c, "wait")
    /\ UNCHANGED sinceReset

throttled(c, pause) ==
    /\ call[c].pc = "throttled"
    /\ IF left > 0 THEN UNCHANGED <<left, interval>>
       ELSE /\ left' = pause
            /\ interval' = IF 2 * interval < MaxPause THEN 2 * interval ELSE MaxPause
    /\ Goto(c, "wait")
    /\ UNCHANGED sinceReset

\* One look at pausedUntil: the wait is over, or a timer is set for the rest.
wait(c) ==
    /\ call[c].pc = "wait"
    /\ IF left > 0
       THEN call' = [call EXCEPT ![c].pc = "sleep", ![c].timer = left]
       ELSE Goto(c, IF call[c].cancelled THEN "done" ELSE "request")
    /\ UNCHANGED <<left, interval, sinceReset>>

\* The timer ends the wait.
WakeAndGo(c) ==
    /\ call[c].pc = "sleep"
    /\ \/ call[c].timer = 0 /\ Goto(c, "request")
       \/ call[c].cancelled /\ Goto(c, "done")
    /\ UNCHANGED <<left, interval, sinceReset>>

\* The timer leads to another look; the end of the context ends the wait.
Wake(c) ==
    /\ call[c].pc = "sleep"
    /\ \/ call[c].timer = 0 /\ Goto(c, "wait")
       \/ call[c].cancelled /\ Goto(c, "done")
    /\ UNCHANGED <<left, interval, sinceReset>>

\* The request is answered. The operation it belongs to may be complete then,
\* which resets the pause's length but not the pause.
succeeded(c, operation) ==
    /\ call[c].pc = "request"
    /\ Goto(c, "done")
    /\ interval' = IF operation THEN InitialPause ELSE interval
    /\ sinceReset' = IF operation THEN 0 ELSE sinceReset
    /\ UNCHANGED left

NextCall(c) ==
    /\ call[c].pc = "done"
    /\ call' = [call EXCEPT ![c] = [pc |-> "request", timer |-> 0, cancelled |-> FALSE]]
    /\ UNCHANGED <<left, interval, sinceReset>>

Cancel(c) ==
    /\ call[c].pc # "done"
    /\ ~call[c].cancelled
    /\ call' = [call EXCEPT ![c].cancelled = TRUE]
    /\ UNCHANGED <<left, interval, sinceReset>>

Less(n) == IF n = 0 THEN 0 ELSE n - 1

Tick ==
    /\ left' = Less(left)
    /\ call' = [c \in Calls |-> [call[c] EXCEPT !.timer = Less(@)]]
    /\ sinceReset' = IF sinceReset < InitialPause THEN sinceReset + 1 ELSE sinceReset
    /\ UNCHANGED interval

Next ==
    \/ \E c \in Calls :
          \/ Rejected(c)
          \/ \E pause \in Pauses : throttled(c, pause)
          \/ wait(c)
          \/ Wake(c)
          \/ \E operation \in BOOLEAN : succeeded(c, operation)
          \/ NextCall(c)
          \/ Cancel(c)
    \/ Tick

Spec == Init /\ [][Next]_vars

-----------------------------------------------------------------------------
(* Properties.                                                             *)

\* The variables keep their types: no pause is longer than the longest.
TypeOK ==
    /\ left \in 0 .. Longest
    /\ interval \in InitialPause .. MaxPause
    /\ call \in [Calls -> [pc : Pcs, timer : 0 .. Longest, cancelled : BOOLEAN]]
    /\ sinceReset \in 0 .. InitialPause

\* A request is repeated only when no pause is active, "including pauses extended
\* while waiting" (src/throttle.go:111): one that starts when a timer has run out
\* but its call has not looked again.
WaitsOutThePause ==
    [][\A c \in Calls :
         call[c].pc \in {"wait", "sleep"} /\ call'[c].pc = "request" => left = 0]_vars

\* Rejections that arrive together, of requests sent at once, lengthen the next
\* pause once: to be doubled twice, a pause must have run in between.
BurstsCountOnce ==
    interval > 2 * InitialPause => 2 * sinceReset >= InitialPause

=============================================================================

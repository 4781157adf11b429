------------------------------ MODULE VCDCall ------------------------------
(***************************************************************************)
(* The wrapper of every vCD call (src/vcd_safe.go) with the session it     *)
(* renews (src/session.go, getVCDClient in src/vcd.go). Each member of     *)
(* Calls is one goroutine that gets the client and makes one call:         *)
(* safeVCDCall, which may be repeated, or singleVCDCall, which carries a   *)
(* mutation that may not.                                                  *)
(***************************************************************************)
EXTENDS Session

CONSTANTS
    SingleCalls,    \* the calls made by singleVCDCall
    MaxTries,       \* bound: attempts within safeCallMaxElapsedTime
    MaxRenewals     \* bound: sessions that age or that vCD revokes

ASSUME CallAssumption ==
    /\ SingleCalls \subseteq Calls
    /\ MaxTries \in Nat
    /\ MaxRenewals \in Nat

VARIABLES
    call,         \* where each call is
    applied       \* ghost: how often vCD carried a mutation out (2: twice or more)

callVars == <<call, applied>>
vars == <<sessionVars, callVars>>

\* What an attempt ends with. "limit" is vCD's operation limit; "permanent" is
\* an error of permanentErrorPatterns or marked so by the caller.
Errors == {"none", "limit", "unauthorized", "permanent", "other"}

\* The write lock is taken in three places.
WantPcs == {"clientWant", "sessionWant", "refreshWant"}
HeldPcs == {"clientHeld", "sessionHeld", "refreshHeld"}

Pcs == WantPcs \cup HeldPcs \cup
       {"client", "attempt", "relock", "request", "read", "returned", "paused",
        "backoff", "done"}

Call == [pc : Pcs,
         generation : Nat,       \* of the session the last attempt used
         err : Errors,           \* the last attempt's, until it is looked at
         again : BOOLEAN,        \* is this the attempt after a renewal?
         tries : 0 .. MaxTries,
         cancelled : BOOLEAN]    \* has the call's context ended?

NewCall(at) == [pc |-> at, generation |-> 0, err |-> "none", again |-> FALSE,
                tries |-> 0, cancelled |-> FALSE]

Single(c) == c \in SingleCalls

Cancelled(c) == call[c].cancelled

At(pcs) == {c \in Calls : call[c].pc \in pcs}

\* What a call no longer looks at is forgotten.
Goto(c, at) ==
    call' = [call EXCEPT ![c] =
        CASE at = "done" -> NewCall("done")
          [] at \in {"paused", "backoff"} ->
                [@ EXCEPT !.pc = at, !.err = "none", !.generation = 0, !.again = FALSE]
          [] OTHER -> [@ EXCEPT !.pc = at, !.err = "none"]]

\* The attempt ends with err and reports the generation.
Returned(c, generation, err) ==
    call' = [call EXCEPT ![c].pc = "returned", ![c].generation = generation,
                         ![c].err = err]

Init ==
    /\ SessionInit
    /\ call = [c \in Calls |-> NewCall("client")]
    /\ applied = [c \in SingleCalls |-> 0]

-----------------------------------------------------------------------------
(* The write lock, and getVCDClient.                                       *)

Announce(c) ==
    /\ call[c].pc \in WantPcs
    /\ AnnounceLock(c)
    /\ UNCHANGED <<authVars, callVars>>

Enter(c) ==
    /\ call[c].pc \in WantPcs
    /\ LockGranted(c)
    /\ Goto(c, CASE call[c].pc = "clientWant" -> "clientHeld"
                 [] call[c].pc = "sessionWant" -> "sessionHeld"
                 [] call[c].pc = "refreshWant" -> "refreshHeld")
    /\ UNCHANGED <<sessionVars, applied>>

\* Its read lock is released before anything else happens.
getVCDClient(c) ==
    /\ call[c].pc = "client"
    /\ writer = Nobody
    /\ Goto(c, IF authGeneration > 0 /\ ~expired THEN "attempt" ELSE "clientWant")
    /\ UNCHANGED <<sessionVars, applied>>

\* No client or an old session: build or renew it, unless another goroutine
\* has. The caller of getVCDClient gives up on an error.
ClientLocked(c, ok) ==
    /\ call[c].pc = "clientHeld"
    /\ IF expired THEN authenticateLocked(ok)
       ELSE ok /\ UNCHANGED authVars
    /\ Unlock
    /\ Goto(c, IF ok THEN "attempt" ELSE "done")
    /\ UNCHANGED applied

-----------------------------------------------------------------------------
(* vcdCallAttempt.                                                         *)

\* The request runs without the read lock.
BeginRequestUnlocked(c) ==
    /\ writer = Nobody
    /\ call' = [call EXCEPT ![c].pc = "request", ![c].generation = authGeneration]
    /\ UNCHANGED lockVars

\* The generation an attempt reports is read under its read lock.
BeginRequest(c) ==
    /\ RLock(c)
    /\ call' = [call EXCEPT ![c].pc = "request", ![c].generation = authGeneration]

\* lockSession with a cancelled context: the read lock is not released...
SessionRefusedLocked(c) ==
    /\ RLock(c)
    /\ Returned(c, 0, "other")

\* ...and as it is.
SessionRefused(c) ==
    /\ Returned(c, 0, "other")
    /\ UNCHANGED lockVars

\* lockSession up to the end of its first read lock.
lockSession(c) ==
    /\ call[c].pc = "attempt"
    /\ writer = Nobody
    /\ \/ Cancelled(c) /\ SessionRefused(c)
       \/ ~Cancelled(c) /\ ~expired /\ BeginRequest(c)
       \/ ~Cancelled(c) /\ expired /\ Goto(c, "sessionWant") /\ UNCHANGED lockVars
    /\ UNCHANGED <<authVars, applied>>

\* Under the write lock, unless another goroutine renewed the session. When the
\* exchange fails, the attempt does, and reports generation 0.
SessionLocked(c, ok) ==
    /\ call[c].pc = "sessionHeld"
    /\ IF expired THEN authenticateLocked(ok)
       ELSE ok /\ UNCHANGED authVars
    /\ Unlock
    /\ IF ok THEN Goto(c, "relock")
       ELSE \E err \in {"unauthorized", "other"} : Returned(c, 0, err)
    /\ UNCHANGED applied

\* The read lock again. Whatever the session is by now, it is used.
Relock(c) ==
    /\ call[c].pc = "relock"
    /\ BeginRequest(c)
    /\ UNCHANGED <<authVars, applied>>

\* The request. vCD answers 401 exactly when the session is not valid, and the
\* operation limit before it starts anything; of any other error the caller
\* cannot tell whether the request was carried out.
Request(c, err, done) ==
    /\ call[c].pc = "request"
    /\ CASE err = "none" -> valid /\ done
         [] err = "limit" -> valid /\ ~done
         [] err = "unauthorized" -> ~valid /\ ~done
         [] OTHER -> done => valid
    /\ applied' = IF done /\ Single(c) /\ applied[c] < 2
                  THEN [applied EXCEPT ![c] = @ + 1] ELSE applied
    /\ IF err = "none" THEN Goto(c, "read") /\ UNCHANGED lockVars
       ELSE Returned(c, call[c].generation, err) /\ RUnlock(c)
    /\ UNCHANGED authVars

\* What the SDK method reads after its request. A session revoked meanwhile
\* gives a 401 although the request was carried out.
ReadAfter(c, err) ==
    /\ call[c].pc = "read"
    /\ CASE err = "none" -> valid
         [] err = "unauthorized" -> ~valid
         [] OTHER -> err \in {"permanent", "other"}
    /\ Returned(c, call[c].generation, err)
    /\ RUnlock(c)
    /\ UNCHANGED <<authVars, applied>>

-----------------------------------------------------------------------------
(* vcdCall.                                                                *)

\* The retry loop does not look at the time that has passed.
FinishedNoLimit(c, err, next) ==
    IF Single(c) \/ err \in {"none", "permanent"} \/ Cancelled(c)
    THEN next = "done"
    ELSE next \in {"backoff", "done"}

\* RetryWithData: where a call goes whose operation ended with err. It is
\* repeated until the context or safeCallMaxElapsedTime ends, or the error is
\* permanent; singleVCDCall never repeats it.
Finished(c, err, next) ==
    IF Single(c) \/ err \in {"none", "permanent"} \/ Cancelled(c)
       \/ call[c].tries = MaxTries
    THEN next = "done"
    ELSE next \in {"backoff", "done"}

\* What follows a renewal: the attempt is repeated, but not a mutation's.
AfterRenewalReplays(c) ==
    call' = [call EXCEPT ![c].pc = "attempt", ![c].again = TRUE]

AfterRenewal(c) ==
    IF Single(c) THEN Goto(c, "done")
    ELSE call' = [call EXCEPT ![c].pc = "attempt", ![c].again = TRUE]

\* The first attempt of an operation, or one repeated after a pause, looks at
\* the operation limit and at 401; the attempt after a renewal at neither.
vcdCall(c, next) ==
    LET err == call[c].err IN
    /\ call[c].pc = "returned"
    /\ IF err = "limit" /\ ~call[c].again
       THEN next = "paused" /\ Goto(c, next)
       ELSE IF err = "unauthorized" /\ ~call[c].again
       THEN next = "refreshWant" /\ Goto(c, next)
       ELSE Finished(c, err, next) /\ Goto(c, next)
    /\ UNCHANGED <<sessionVars, applied>>

\* throttleGate.wait is over, because the pause or the context is.
PauseOver(c) ==
    /\ call[c].pc = "paused"
    /\ Goto(c, IF Cancelled(c) THEN "done" ELSE "attempt")
    /\ UNCHANGED <<sessionVars, applied>>

\* A renewal for each 401, whatever the generation.
RenewForEach401(c, ok) ==
    /\ ~Cancelled(c)
    /\ authenticateLocked(ok)

\* Nothing is exchanged when another goroutine has renewed the session that
\* the attempt used.
RenewRejected(c, ok) ==
    /\ ~Cancelled(c)
    /\ IF authGeneration # call[c].generation THEN ok /\ UNCHANGED authVars
       ELSE authenticateLocked(ok)

\* A failed renewal is taken for a renewal.
RefreshReturnsHopeful(c, ok, next) ==
    /\ next = "done"
    /\ AfterRenewal(c)

RefreshReturns(c, ok, next) ==
    IF ok THEN next = "done" /\ AfterRenewal(c)
    ELSE Finished(c, "unauthorized", next) /\ Goto(c, next)

refreshSession(c, ok, next) ==
    /\ call[c].pc = "refreshHeld"
    /\ \/ Cancelled(c) /\ ~ok /\ UNCHANGED authVars
       \/ RenewRejected(c, ok)
    /\ Unlock
    /\ RefreshReturns(c, ok, next)
    /\ UNCHANGED applied

\* The retry loop sleeps, and may wake although the context has ended.
Backoff(c, giveUp) ==
    /\ call[c].pc = "backoff"
    /\ IF giveUp THEN Cancelled(c) /\ Goto(c, "done")
       ELSE call' = [call EXCEPT ![c].pc = "attempt", ![c].tries = @ + 1]
    /\ UNCHANGED <<sessionVars, applied>>

-----------------------------------------------------------------------------

Cancel(c) ==
    /\ call[c].pc # "done"
    /\ ~Cancelled(c)
    /\ call' = [call EXCEPT ![c].cancelled = TRUE]
    /\ UNCHANGED <<sessionVars, applied>>

Ages ==
    /\ authGeneration \in 1 .. MaxRenewals
    /\ SessionAges \/ SessionRevoked
    /\ UNCHANGED callVars

\* Every call has returned.
AllDone ==
    /\ At({"done"}) = Calls
    /\ UNCHANGED vars

Step(c) ==
    \/ Announce(c)
    \/ Enter(c)
    \/ getVCDClient(c)
    \/ \E ok \in BOOLEAN : ClientLocked(c, ok)
    \/ lockSession(c)
    \/ \E ok \in BOOLEAN : SessionLocked(c, ok)
    \/ Relock(c)
    \/ \E err \in Errors, done \in BOOLEAN : Request(c, err, done)
    \/ \E err \in Errors : ReadAfter(c, err)
    \/ \E next \in Pcs : vcdCall(c, next)
    \/ PauseOver(c)
    \/ \E ok \in BOOLEAN, next \in {"backoff", "done"} : refreshSession(c, ok, next)
    \/ \E giveUp \in BOOLEAN : Backoff(c, giveUp)

Next ==
    \/ \E c \in Calls : Step(c) \/ Cancel(c)
    \/ Ages
    \/ AllDone

Spec == Init /\ [][Next]_vars

\* A goroutine that can run does: the HTTP client bounds every request, and the
\* pause and the sleep of the retry loop are timers.
FairSpec == Spec /\ \A c \in Calls : WF_vars(Step(c))

-----------------------------------------------------------------------------
(* Properties.                                                             *)

\* The variables keep their types.
TypeOK ==
    /\ SessionTypeOK
    /\ call \in [Calls -> Call]
    /\ applied \in [SingleCalls -> 0 .. 2]

\* The client is never written while a request reads it, nor by two goroutines
\* at once: "All SDK calls hold clientMu.RLock" (src/session.go). So the session
\* a request runs in is the one its attempt reports.
RequestsKeepTheirSession ==
    /\ \A c \in At(HeldPcs) : At({"request", "read"}) = {} /\ At(HeldPcs) = {c}
    /\ \A c \in At({"request", "read"}) : call[c].generation = authGeneration

\* A mutation is carried out at most once, whatever is replayed after the
\* operation limit and whatever a read reports after it: "singleVCDCall never
\* replays a mutation" (src/vcd_safe.go).
MutationsAtMostOnce == \A c \in SingleCalls : applied[c] <= 1

\* A token exchange replaces only a session that is due or that vCD no longer
\* accepts: "Concurrent 401s from one session must trigger only one token
\* exchange" (refreshSession), and lockSession's second look.
NoNeedlessExchange ==
    [][authGeneration' # authGeneration => expired \/ ~valid]_vars

\* After a 401 the request goes out again only in a newer session, so that a
\* replay cannot run into the very rejection it is meant to cure.
ReplayInNewerSession ==
    \A c \in At({"attempt", "sessionWant", "sessionHeld", "relock"}) :
       call[c].again => authGeneration > call[c].generation

\* A call whose context has ended returns, even while vCD keeps rejecting it
\* and other goroutines renew the session: nobody keeps the lock.
CancelledCallReturns ==
    \A c \in Calls : Cancelled(c) ~> call[c].pc = "done"

=============================================================================

--------------------------- MODULE VCDCallProofs ---------------------------
(***************************************************************************)
(* Proofs about VCDCall, for any number of calls, tries and renewals.      *)
(***************************************************************************)
EXTENDS VCDCall, TLAPS

\* Who holds clientMu, read off the program counters.
LockInv ==
    /\ readers = At({"request", "read"})
    /\ writer # Nobody => call[writer].pc \in WantPcs \cup HeldPcs
    /\ \A c \in At(HeldPcs) : writer = c /\ readers = {}

\* An attempt's generation is current while it reads, and never from the future;
\* the replay of a rejected one starts below the current generation.
GenerationInv ==
    /\ expired \/ authGeneration > 0
    /\ \A c \in Calls :
          /\ call[c].generation <= authGeneration
          /\ call[c].pc \in {"request", "read"} => call[c].generation = authGeneration
          /\ call[c].pc \notin {"client", "clientWant", "clientHeld", "done"} =>
                authGeneration > 0
          /\ call[c].pc \in {"client", "clientWant", "clientHeld", "paused", "backoff"} =>
                ~call[c].again
          /\ call[c].again /\ call[c].pc \in {"attempt", "sessionWant", "sessionHeld", "relock"} =>
                call[c].generation < authGeneration

\* A call on its way to a renewal because of a 401.
Rejected(c) ==
    \/ call[c].pc = "returned" /\ call[c].err = "unauthorized"
    \/ call[c].pc \in {"refreshWant", "refreshHeld"}

\* It comes from a session that vCD no longer accepts, unless that session has
\* been replaced meanwhile.
RejectedInv ==
    \A c \in Calls :
       Rejected(c) /\ call[c].generation = authGeneration => ~valid

\* A call whose request may still be sent.
MaySend(c) ==
    \/ call[c].pc \notin {"read", "returned", "refreshWant", "refreshHeld", "done"}
    \/ call[c].pc = "returned" /\ call[c].err = "limit"

\* A mutation that may still be sent has not been carried out.
MutationInv ==
    \A c \in SingleCalls :
       /\ applied[c] <= 1
       /\ call[c].pc # "backoff"
       /\ MaySend(c) => applied[c] = 0

IInv == TypeOK /\ LockInv /\ GenerationInv /\ RejectedInv /\ MutationInv

-----------------------------------------------------------------------------
(* Steps of one call.                                                      *)

\* Of all calls only c moves.
Moves(c) ==
    /\ call' \in [Calls -> Call]
    /\ \A d \in Calls \ {c} : call'[d] = call[d]

\* What Goto(c, at) leaves of the call's record.
Gone(c, at) ==
    /\ Moves(c)
    /\ call'[c].pc = at
    /\ call'[c].err = "none"
    /\ call'[c].generation \in {0, call[c].generation}
    /\ call'[c].again => call[c].again /\ call'[c].generation = call[c].generation
    /\ at \in {"paused", "backoff"} => ~call'[c].again
    /\ at \notin {"paused", "backoff", "done"} => call'[c].generation = call[c].generation

LEMMA GotoFacts ==
    ASSUME NEW c \in Calls, NEW at \in Pcs, call \in [Calls -> Call], CallAssumption,
           Goto(c, at)
    PROVE  Gone(c, at)
<1>1. CASE at = "done"
  <2>1. call' = [call EXCEPT ![c] = NewCall("done")]
    BY <1>1 DEF Goto
  <2>2. NewCall("done") \in Call
    BY CallAssumption DEF Call, NewCall, Errors, Pcs, CallAssumption
  <2>3. QED BY <1>1, <2>1, <2>2 DEF Gone, Moves, NewCall
<1>2. CASE at \in {"paused", "backoff"}
  <2>1. call' = [call EXCEPT ![c] = [@ EXCEPT !.pc = at, !.err = "none",
                                              !.generation = 0, !.again = FALSE]]
    BY <1>2 DEF Goto
  <2>2. QED BY <1>2, <2>1 DEF Call, Errors, Pcs, Gone, Moves
<1>3. CASE at \notin {"done", "paused", "backoff"}
  <2>1. call' = [call EXCEPT ![c] = [@ EXCEPT !.pc = at, !.err = "none"]]
    BY <1>3 DEF Goto
  <2>2. QED BY <1>3, <2>1 DEF Call, Errors, Pcs, Gone, Moves
<1>4. QED BY <1>1, <1>2, <1>3

\* The call has returned from its attempt.
Back(c, generation, err) ==
    /\ Moves(c)
    /\ call'[c].pc = "returned"
    /\ call'[c].err = err
    /\ call'[c].generation = generation

LEMMA ReturnedFacts ==
    ASSUME NEW c \in Calls, NEW g \in Nat, NEW err \in Errors,
           call \in [Calls -> Call], Returned(c, g, err)
    PROVE  Back(c, g, err)
BY DEF Returned, Call, Pcs, Back, Moves

\* The call has taken the read lock and reads the session's generation.
Begun(c) ==
    /\ Moves(c)
    /\ RLock(c)
    /\ call'[c].pc = "request"
    /\ call'[c].generation = authGeneration

LEMMA BeginFacts ==
    ASSUME NEW c \in Calls, authGeneration \in Nat, call \in [Calls -> Call],
           BeginRequest(c)
    PROVE  Begun(c)
<1>1. call' = [call EXCEPT ![c].pc = "request", ![c].generation = authGeneration]
  BY DEF BeginRequest
<1>2. /\ Moves(c)
      /\ call'[c].pc = "request"
      /\ call'[c].generation = authGeneration
  BY <1>1 DEF Moves, Call, Pcs
<1>3. QED BY <1>2 DEF BeginRequest, Begun

\* What a renewal, or none, does to the session.
Renewal ==
    /\ authGeneration' \in Nat
    /\ authGeneration' >= authGeneration
    /\ expired' \in BOOLEAN
    /\ valid' \in BOOLEAN
    /\ authGeneration' = authGeneration => valid' = valid
    /\ authGeneration' = authGeneration => expired' \/ ~expired

LEMMA AuthFacts ==
    ASSUME SessionTypeOK, NEW ok \in BOOLEAN, authenticateLocked(ok)
    PROVE  Renewal /\ (ok => authGeneration' = authGeneration + 1)
<1>1. CASE ok
  <2>1. authGeneration' = authGeneration + 1 /\ expired' = FALSE /\ valid' = TRUE
    BY <1>1 DEF authenticateLocked
  <2>2. /\ authGeneration' \in Nat /\ authGeneration' >= authGeneration
        /\ authGeneration' # authGeneration
    BY <2>1 DEF SessionTypeOK
  <2>3. QED BY <1>1, <2>1, <2>2 DEF Renewal
<1>2. CASE ~ok
  <2>1. authGeneration' = authGeneration /\ expired' = TRUE /\ valid' = valid
    BY <1>2 DEF authenticateLocked
  <2>2. valid' \in BOOLEAN
    BY <2>1 DEF SessionTypeOK
  <2>3. QED BY <1>2, <2>1, <2>2 DEF SessionTypeOK, Renewal
<1>3. QED BY <1>1, <1>2

LEMMA NoAuthFacts ==
    ASSUME SessionTypeOK, UNCHANGED authVars
    PROVE  Renewal
BY DEF SessionTypeOK, authVars, Renewal

LEMMA AnnounceStep ==
    ASSUME SessionAssumption, CallAssumption, IInv, NEW c \in Calls,
           Announce(c)
    PROVE  IInv'
<1>1. TypeOK'
  BY SessionAssumption, CallAssumption DEF IInv, TypeOK, SessionTypeOK,
     Announce, AnnounceLock, sessionVars, lockVars, authVars, callVars
<1>2. LockInv'
  BY SessionAssumption, CallAssumption DEF IInv, TypeOK, SessionTypeOK, LockInv,
     At, WantPcs, HeldPcs, Announce, AnnounceLock, sessionVars, lockVars,
     authVars, callVars
<1>3. GenerationInv'
  BY SessionAssumption, CallAssumption DEF IInv, TypeOK, SessionTypeOK, LockInv,
     At, GenerationInv, WantPcs, HeldPcs, Call, Announce, AnnounceLock,
     sessionVars, lockVars, authVars, callVars
<1>4. RejectedInv'
  BY SessionAssumption, CallAssumption DEF IInv, TypeOK, SessionTypeOK, LockInv,
     At, GenerationInv, RejectedInv, Rejected, WantPcs, HeldPcs, Call, Announce,
     AnnounceLock, sessionVars, lockVars, authVars, callVars
<1>5. MutationInv'
  BY SessionAssumption, CallAssumption DEF IInv, TypeOK, MutationInv, MaySend,
     WantPcs, HeldPcs, Announce, AnnounceLock, sessionVars, lockVars, authVars,
     callVars
<1>6. QED BY <1>1, <1>2, <1>3, <1>4, <1>5 DEF IInv

LEMMA EnterStep ==
    ASSUME SessionAssumption, CallAssumption, IInv, NEW c \in Calls,
           Enter(c)
    PROVE  IInv'
<1>1. PICK at \in HeldPcs :
         /\ Goto(c, at)
         /\ at = "sessionHeld" => call[c].pc = "sessionWant"
         /\ at = "refreshHeld" => call[c].pc = "refreshWant"
         /\ at = "clientHeld" => call[c].pc = "clientWant"
  BY DEF Enter, WantPcs, HeldPcs
<1>2. Gone(c, at)
  BY <1>1, GotoFacts, CallAssumption DEF IInv, TypeOK, Pcs, WantPcs, HeldPcs
<1>3. TypeOK'
  BY <1>1, <1>2, SessionAssumption, CallAssumption DEF IInv, TypeOK,
     SessionTypeOK, Enter, LockGranted, sessionVars, lockVars, authVars,
     callVars, Gone, Moves
<1>4. LockInv'
  BY <1>1, <1>2, SessionAssumption, CallAssumption DEF IInv, TypeOK,
     SessionTypeOK, LockInv, At, WantPcs, HeldPcs, Enter, LockGranted,
     sessionVars, lockVars, authVars, callVars, Gone, Moves
<1>5. GenerationInv'
  BY <1>1, <1>2, SessionAssumption, CallAssumption DEF IInv, TypeOK,
     SessionTypeOK, LockInv, At, GenerationInv, WantPcs, HeldPcs, Call, Enter,
     LockGranted, sessionVars, lockVars, authVars, callVars, Gone, Moves
<1>6. RejectedInv'
  BY <1>1, <1>2, SessionAssumption, CallAssumption DEF IInv, TypeOK,
     SessionTypeOK, LockInv, At, GenerationInv, RejectedInv, Rejected, WantPcs,
     HeldPcs, Call, Enter, LockGranted, sessionVars, lockVars, authVars,
     callVars, Gone, Moves
<1>7. MutationInv'
  BY <1>1, <1>2, SessionAssumption, CallAssumption DEF IInv, TypeOK,
     MutationInv, MaySend, WantPcs, HeldPcs, Enter, LockGranted, sessionVars,
     lockVars, authVars, callVars, Gone, Moves
<1>8. QED BY <1>3, <1>4, <1>5, <1>6, <1>7 DEF IInv

LEMMA getVCDClientStep ==
    ASSUME SessionAssumption, CallAssumption, IInv, NEW c \in Calls,
           getVCDClient(c)
    PROVE  IInv'
<1>1. PICK at \in {"attempt", "clientWant"} : Goto(c, at) /\ (at = "attempt" => authGeneration > 0)
  BY DEF getVCDClient, IInv, TypeOK, SessionTypeOK
<1>2. Gone(c, at)
  BY <1>1, GotoFacts, CallAssumption DEF IInv, TypeOK, Pcs, WantPcs, HeldPcs
<1>3. TypeOK'
  BY <1>1, <1>2, SessionAssumption, CallAssumption DEF IInv, TypeOK,
     SessionTypeOK, getVCDClient, sessionVars, lockVars, authVars, callVars,
     Gone, Moves
<1>4. LockInv'
  BY <1>1, <1>2, SessionAssumption, CallAssumption DEF IInv, TypeOK,
     SessionTypeOK, LockInv, At, WantPcs, HeldPcs, getVCDClient, sessionVars,
     lockVars, authVars, callVars, Gone, Moves
<1>5. GenerationInv'
  BY <1>1, <1>2, SessionAssumption, CallAssumption DEF IInv, TypeOK,
     SessionTypeOK, LockInv, At, GenerationInv, WantPcs, HeldPcs, Call,
     getVCDClient, sessionVars, lockVars, authVars, callVars, Gone, Moves
<1>6. RejectedInv'
  BY <1>1, <1>2, SessionAssumption, CallAssumption DEF IInv, TypeOK,
     SessionTypeOK, LockInv, At, GenerationInv, RejectedInv, Rejected, WantPcs,
     HeldPcs, Call, getVCDClient, sessionVars, lockVars, authVars, callVars,
     Gone, Moves
<1>7. MutationInv'
  BY <1>1, <1>2, SessionAssumption, CallAssumption DEF IInv, TypeOK,
     MutationInv, MaySend, WantPcs, HeldPcs, getVCDClient, sessionVars,
     lockVars, authVars, callVars, Gone, Moves
<1>8. QED BY <1>3, <1>4, <1>5, <1>6, <1>7 DEF IInv

LEMMA ClientLockedStep ==
    ASSUME SessionAssumption, CallAssumption, IInv, NEW c \in Calls, NEW ok \in BOOLEAN,
           ClientLocked(c, ok)
    PROVE  IInv'
<1>1. Renewal
  BY AuthFacts, NoAuthFacts DEF ClientLocked, IInv, TypeOK
<1>2. ok => authGeneration' > 0
  <2>1. CASE expired
    <3>1. ok => authGeneration' = authGeneration + 1
      BY <2>1, AuthFacts DEF ClientLocked, IInv, TypeOK
    <3>2. QED BY <3>1 DEF IInv, TypeOK, SessionTypeOK
  <2>2. CASE ~expired
    BY <2>2 DEF ClientLocked, IInv, TypeOK, SessionTypeOK, GenerationInv,
       authVars
  <2>3. QED
  BY <2>1, <2>2
<1>3. Gone(c, IF ok THEN "attempt" ELSE "done")
  BY GotoFacts, CallAssumption DEF IInv, TypeOK, Pcs, WantPcs, HeldPcs,
     ClientLocked
<1>4. TypeOK'
  BY <1>1, <1>2, <1>3, SessionAssumption, CallAssumption DEF IInv, TypeOK,
     SessionTypeOK, ClientLocked, Unlock, sessionVars, lockVars, authVars,
     callVars, Renewal, Gone, Moves
<1>5. LockInv'
  BY <1>1, <1>2, <1>3, SessionAssumption, CallAssumption DEF IInv, TypeOK,
     SessionTypeOK, LockInv, At, WantPcs, HeldPcs, ClientLocked, Unlock,
     sessionVars, lockVars, authVars, callVars, Renewal, Gone, Moves
<1>6. GenerationInv'
  BY <1>1, <1>2, <1>3, SessionAssumption, CallAssumption DEF IInv, TypeOK,
     SessionTypeOK, LockInv, At, GenerationInv, WantPcs, HeldPcs, Call,
     ClientLocked, Unlock, sessionVars, lockVars, authVars, callVars, Renewal,
     Gone, Moves
<1>7. RejectedInv'
  BY <1>1, <1>2, <1>3, SessionAssumption, CallAssumption DEF IInv, TypeOK,
     SessionTypeOK, LockInv, At, GenerationInv, RejectedInv, Rejected, WantPcs,
     HeldPcs, Call, ClientLocked, Unlock, sessionVars, lockVars, authVars,
     callVars, Renewal, Gone, Moves
<1>8. MutationInv'
  BY <1>1, <1>2, <1>3, SessionAssumption, CallAssumption DEF IInv, TypeOK,
     MutationInv, MaySend, WantPcs, HeldPcs, ClientLocked, Unlock, sessionVars,
     lockVars, authVars, callVars, Renewal, Gone, Moves
<1>9. QED BY <1>4, <1>5, <1>6, <1>7, <1>8 DEF IInv

LEMMA lockSessionStep ==
    ASSUME SessionAssumption, CallAssumption, IInv, NEW c \in Calls,
           lockSession(c)
    PROVE  IInv'
<1>1. \/ Back(c, 0, "other") /\ UNCHANGED <<lockVars, authVars, applied>>
      \/ Begun(c) /\ UNCHANGED <<authVars, applied>>
      \/ Gone(c, "sessionWant") /\ UNCHANGED <<lockVars, authVars, applied>>
  BY GotoFacts, ReturnedFacts, BeginFacts, CallAssumption DEF IInv, TypeOK,
     SessionTypeOK, Pcs, WantPcs, HeldPcs, lockSession, SessionRefused, Errors
<1>2. TypeOK'
  BY <1>1, SessionAssumption, CallAssumption DEF IInv, TypeOK, SessionTypeOK,
     lockSession, sessionVars, lockVars, authVars, callVars, RLock, Begun, Back,
     Gone, Moves
<1>3. LockInv'
  BY <1>1, SessionAssumption, CallAssumption DEF IInv, TypeOK, SessionTypeOK,
     LockInv, At, WantPcs, HeldPcs, lockSession, sessionVars, lockVars,
     authVars, callVars, RLock, Begun, Back, Gone, Moves
<1>4. GenerationInv'
  BY <1>1, SessionAssumption, CallAssumption DEF IInv, TypeOK, SessionTypeOK,
     LockInv, At, GenerationInv, WantPcs, HeldPcs, Call, lockSession,
     sessionVars, lockVars, authVars, callVars, RLock, Begun, Back, Gone, Moves
<1>5. RejectedInv'
  BY <1>1, SessionAssumption, CallAssumption DEF IInv, TypeOK, SessionTypeOK,
     LockInv, At, GenerationInv, RejectedInv, Rejected, WantPcs, HeldPcs, Call,
     lockSession, sessionVars, lockVars, authVars, callVars, RLock, Begun, Back,
     Gone, Moves
<1>6. MutationInv'
  BY <1>1, SessionAssumption, CallAssumption DEF IInv, TypeOK, MutationInv,
     MaySend, WantPcs, HeldPcs, lockSession, sessionVars, lockVars, authVars,
     callVars, RLock, Begun, Back, Gone, Moves
<1>7. QED BY <1>2, <1>3, <1>4, <1>5, <1>6 DEF IInv

LEMMA SessionLockedStep ==
    ASSUME SessionAssumption, CallAssumption, IInv, NEW c \in Calls, NEW ok \in BOOLEAN,
           SessionLocked(c, ok)
    PROVE  IInv'
<1>1. Renewal
  BY AuthFacts, NoAuthFacts DEF SessionLocked, IInv, TypeOK
<1>2. Gone(c, "relock") \/ Back(c, 0, "other") \/ Back(c, 0, "unauthorized")
  BY GotoFacts, ReturnedFacts, CallAssumption DEF IInv, TypeOK, Pcs, WantPcs,
     HeldPcs, Errors, SessionLocked
<1>3. TypeOK'
  BY <1>1, <1>2, SessionAssumption, CallAssumption DEF IInv, TypeOK,
     SessionTypeOK, SessionLocked, Unlock, sessionVars, lockVars, authVars,
     callVars, Renewal, Back, Gone, Moves
<1>4. LockInv'
  BY <1>1, <1>2, SessionAssumption, CallAssumption DEF IInv, TypeOK,
     SessionTypeOK, LockInv, At, WantPcs, HeldPcs, SessionLocked, Unlock,
     sessionVars, lockVars, authVars, callVars, Renewal, Back, Gone, Moves
<1>5. GenerationInv'
  BY <1>1, <1>2, SessionAssumption, CallAssumption DEF IInv, TypeOK,
     SessionTypeOK, LockInv, At, GenerationInv, WantPcs, HeldPcs, Call,
     SessionLocked, Unlock, sessionVars, lockVars, authVars, callVars, Renewal,
     Back, Gone, Moves
<1>6. RejectedInv'
  BY <1>1, <1>2, SessionAssumption, CallAssumption DEF IInv, TypeOK,
     SessionTypeOK, LockInv, At, GenerationInv, RejectedInv, Rejected, WantPcs,
     HeldPcs, Call, SessionLocked, Unlock, sessionVars, lockVars, authVars,
     callVars, Renewal, Back, Gone, Moves
<1>7. MutationInv'
  BY <1>1, <1>2, SessionAssumption, CallAssumption DEF IInv, TypeOK,
     MutationInv, MaySend, WantPcs, HeldPcs, SessionLocked, Unlock, sessionVars,
     lockVars, authVars, callVars, Renewal, Back, Gone, Moves
<1>8. QED BY <1>3, <1>4, <1>5, <1>6, <1>7 DEF IInv

LEMMA RelockStep ==
    ASSUME SessionAssumption, CallAssumption, IInv, NEW c \in Calls,
           Relock(c)
    PROVE  IInv'
<1>1. Begun(c)
  BY BeginFacts DEF Relock, IInv, TypeOK, SessionTypeOK
<1>2. TypeOK'
  BY <1>1, SessionAssumption, CallAssumption DEF IInv, TypeOK, SessionTypeOK,
     Relock, RLock, sessionVars, lockVars, authVars, callVars, Begun, Moves
<1>3. LockInv'
  BY <1>1, SessionAssumption, CallAssumption DEF IInv, TypeOK, SessionTypeOK,
     LockInv, At, WantPcs, HeldPcs, Relock, RLock, sessionVars, lockVars,
     authVars, callVars, Begun, Moves
<1>4. GenerationInv'
  BY <1>1, SessionAssumption, CallAssumption DEF IInv, TypeOK, SessionTypeOK,
     LockInv, At, GenerationInv, WantPcs, HeldPcs, Call, Relock, RLock,
     sessionVars, lockVars, authVars, callVars, Begun, Moves
<1>5. RejectedInv'
  BY <1>1, SessionAssumption, CallAssumption DEF IInv, TypeOK, SessionTypeOK,
     LockInv, At, GenerationInv, RejectedInv, Rejected, WantPcs, HeldPcs, Call,
     Relock, RLock, sessionVars, lockVars, authVars, callVars, Begun, Moves
<1>6. MutationInv'
  BY <1>1, SessionAssumption, CallAssumption DEF IInv, TypeOK, MutationInv,
     MaySend, WantPcs, HeldPcs, Relock, RLock, sessionVars, lockVars, authVars,
     callVars, Begun, Moves
<1>7. QED BY <1>2, <1>3, <1>4, <1>5, <1>6 DEF IInv

LEMMA RequestStep ==
    ASSUME SessionAssumption, CallAssumption, IInv, NEW c \in Calls, NEW err \in Errors, NEW done \in BOOLEAN,
           Request(c, err, done)
    PROVE  IInv'
<1>1. /\ err = "none" => Gone(c, "read") /\ UNCHANGED <<lockVars, authVars>>
      /\ err # "none" => Back(c, call[c].generation, err) /\ RUnlock(c) /\ UNCHANGED authVars
  BY GotoFacts, ReturnedFacts, CallAssumption DEF IInv, TypeOK, Pcs, WantPcs,
     HeldPcs, Request, Call
<1>2. TypeOK'
  BY <1>1, SessionAssumption, CallAssumption DEF IInv, TypeOK, SessionTypeOK,
     Request, RUnlock, sessionVars, lockVars, authVars, callVars, Back, Single,
     Gone, Moves
<1>3. LockInv'
  BY <1>1, SessionAssumption, CallAssumption DEF IInv, TypeOK, SessionTypeOK,
     LockInv, At, WantPcs, HeldPcs, Request, RUnlock, sessionVars, lockVars,
     authVars, callVars, Back, Single, Gone, Moves
<1>4. GenerationInv'
  BY <1>1, SessionAssumption, CallAssumption DEF IInv, TypeOK, SessionTypeOK,
     LockInv, At, GenerationInv, WantPcs, HeldPcs, Call, Request, RUnlock,
     sessionVars, lockVars, authVars, callVars, Back, Single, Gone, Moves
<1>5. RejectedInv'
  BY <1>1, SessionAssumption, CallAssumption DEF IInv, TypeOK, SessionTypeOK,
     LockInv, At, GenerationInv, RejectedInv, Rejected, WantPcs, HeldPcs, Call,
     Request, RUnlock, sessionVars, lockVars, authVars, callVars, Back, Single,
     Gone, Moves
<1>6. MutationInv'
  BY <1>1, SessionAssumption, CallAssumption DEF IInv, TypeOK, MutationInv,
     MaySend, WantPcs, HeldPcs, Request, RUnlock, sessionVars, lockVars,
     authVars, callVars, Back, Single, Gone, Moves
<1>7. QED BY <1>2, <1>3, <1>4, <1>5, <1>6 DEF IInv

LEMMA ReadAfterStep ==
    ASSUME SessionAssumption, CallAssumption, IInv, NEW c \in Calls, NEW err \in Errors,
           ReadAfter(c, err)
    PROVE  IInv'
<1>1. Back(c, call[c].generation, err)
  BY ReturnedFacts DEF IInv, TypeOK, ReadAfter, Call
<1>2. TypeOK'
  BY <1>1, SessionAssumption, CallAssumption DEF IInv, TypeOK, SessionTypeOK,
     ReadAfter, RUnlock, sessionVars, lockVars, authVars, callVars, Back, Gone,
     Moves
<1>3. LockInv'
  BY <1>1, SessionAssumption, CallAssumption DEF IInv, TypeOK, SessionTypeOK,
     LockInv, At, WantPcs, HeldPcs, ReadAfter, RUnlock, sessionVars, lockVars,
     authVars, callVars, Back, Gone, Moves
<1>4. GenerationInv'
  BY <1>1, SessionAssumption, CallAssumption DEF IInv, TypeOK, SessionTypeOK,
     LockInv, At, GenerationInv, WantPcs, HeldPcs, Call, ReadAfter, RUnlock,
     sessionVars, lockVars, authVars, callVars, Back, Gone, Moves
<1>5. RejectedInv'
  BY <1>1, SessionAssumption, CallAssumption DEF IInv, TypeOK, SessionTypeOK,
     LockInv, At, GenerationInv, RejectedInv, Rejected, WantPcs, HeldPcs, Call,
     ReadAfter, RUnlock, sessionVars, lockVars, authVars, callVars, Back, Gone,
     Moves
<1>6. MutationInv'
  BY <1>1, SessionAssumption, CallAssumption DEF IInv, TypeOK, MutationInv,
     MaySend, WantPcs, HeldPcs, ReadAfter, RUnlock, sessionVars, lockVars,
     authVars, callVars, Back, Gone, Moves
<1>7. QED BY <1>2, <1>3, <1>4, <1>5, <1>6 DEF IInv

LEMMA vcdCallStep ==
    ASSUME SessionAssumption, CallAssumption, IInv, NEW c \in Calls, NEW next \in Pcs,
           vcdCall(c, next)
    PROVE  IInv'
<1>1. Gone(c, next)
  BY GotoFacts, CallAssumption DEF IInv, TypeOK, Pcs, WantPcs, HeldPcs, vcdCall
<1>2. TypeOK'
  BY <1>1, SessionAssumption, CallAssumption DEF IInv, TypeOK, SessionTypeOK,
     vcdCall, Finished, Single, sessionVars, lockVars, authVars, callVars, Gone,
     Moves
<1>3. LockInv'
  BY <1>1, SessionAssumption, CallAssumption DEF IInv, TypeOK, SessionTypeOK,
     LockInv, At, WantPcs, HeldPcs, vcdCall, Finished, Single, sessionVars,
     lockVars, authVars, callVars, Gone, Moves
<1>4. GenerationInv'
  BY <1>1, SessionAssumption, CallAssumption DEF IInv, TypeOK, SessionTypeOK,
     LockInv, At, GenerationInv, WantPcs, HeldPcs, Call, vcdCall, Finished,
     Single, sessionVars, lockVars, authVars, callVars, Gone, Moves
<1>5. RejectedInv'
  BY <1>1, SessionAssumption, CallAssumption DEF IInv, TypeOK, SessionTypeOK,
     LockInv, At, GenerationInv, RejectedInv, Rejected, WantPcs, HeldPcs, Call,
     vcdCall, Finished, Single, sessionVars, lockVars, authVars, callVars, Gone,
     Moves
<1>6. MutationInv'
  BY <1>1, SessionAssumption, CallAssumption DEF IInv, TypeOK, MutationInv,
     MaySend, WantPcs, HeldPcs, vcdCall, Finished, Single, sessionVars,
     lockVars, authVars, callVars, Gone, Moves
<1>7. QED BY <1>2, <1>3, <1>4, <1>5, <1>6 DEF IInv

LEMMA PauseOverStep ==
    ASSUME SessionAssumption, CallAssumption, IInv, NEW c \in Calls,
           PauseOver(c)
    PROVE  IInv'
<1>1. PICK at \in {"attempt", "done"} : Goto(c, at)
  BY DEF PauseOver
<1>2. Gone(c, at)
  BY <1>1, GotoFacts, CallAssumption DEF IInv, TypeOK, Pcs, WantPcs, HeldPcs
<1>3. TypeOK'
  BY <1>1, <1>2, SessionAssumption, CallAssumption DEF IInv, TypeOK,
     SessionTypeOK, PauseOver, sessionVars, lockVars, authVars, callVars, Gone,
     Moves
<1>4. LockInv'
  BY <1>1, <1>2, SessionAssumption, CallAssumption DEF IInv, TypeOK,
     SessionTypeOK, LockInv, At, WantPcs, HeldPcs, PauseOver, sessionVars,
     lockVars, authVars, callVars, Gone, Moves
<1>5. GenerationInv'
  BY <1>1, <1>2, SessionAssumption, CallAssumption DEF IInv, TypeOK,
     SessionTypeOK, LockInv, At, GenerationInv, WantPcs, HeldPcs, Call,
     PauseOver, sessionVars, lockVars, authVars, callVars, Gone, Moves
<1>6. RejectedInv'
  BY <1>1, <1>2, SessionAssumption, CallAssumption DEF IInv, TypeOK,
     SessionTypeOK, LockInv, At, GenerationInv, RejectedInv, Rejected, WantPcs,
     HeldPcs, Call, PauseOver, sessionVars, lockVars, authVars, callVars, Gone,
     Moves
<1>7. MutationInv'
  BY <1>1, <1>2, SessionAssumption, CallAssumption DEF IInv, TypeOK,
     MutationInv, MaySend, WantPcs, HeldPcs, PauseOver, sessionVars, lockVars,
     authVars, callVars, Gone, Moves
<1>8. QED BY <1>3, <1>4, <1>5, <1>6, <1>7 DEF IInv

LEMMA refreshSessionStep ==
    ASSUME SessionAssumption, CallAssumption, IInv, NEW c \in Calls, NEW ok \in BOOLEAN, NEW next \in {"backoff", "done"},
           refreshSession(c, ok, next)
    PROVE  IInv'
<1>1. Renewal /\ (ok => authGeneration' > call[c].generation)
  BY AuthFacts, NoAuthFacts DEF refreshSession, RenewRejected, IInv, TypeOK,
     SessionTypeOK, GenerationInv, Renewal, authVars, Call
<1>2. \/ Gone(c, next) /\ (Single(c) => next = "done")
      \/ /\ Moves(c) /\ ok /\ ~Single(c)
         /\ call'[c].pc = "attempt" /\ call'[c].generation = call[c].generation
  BY GotoFacts, CallAssumption DEF refreshSession, RefreshReturns, AfterRenewal,
     Finished, Moves, IInv, TypeOK, Pcs, WantPcs, HeldPcs, Call
<1>3. TypeOK'
  BY <1>1, <1>2, SessionAssumption, CallAssumption DEF IInv, TypeOK,
     SessionTypeOK, refreshSession, Unlock, sessionVars, lockVars, authVars,
     callVars, Renewal, Single, Finished, Gone, Moves
<1>4. LockInv'
  BY <1>1, <1>2, SessionAssumption, CallAssumption DEF IInv, TypeOK,
     SessionTypeOK, LockInv, At, WantPcs, HeldPcs, refreshSession, Unlock,
     sessionVars, lockVars, authVars, callVars, Renewal, Single, Finished, Gone,
     Moves
<1>5. GenerationInv'
  BY <1>1, <1>2, SessionAssumption, CallAssumption DEF IInv, TypeOK,
     SessionTypeOK, LockInv, At, GenerationInv, WantPcs, HeldPcs, Call,
     refreshSession, Unlock, sessionVars, lockVars, authVars, callVars, Renewal,
     Single, Finished, Gone, Moves
<1>6. RejectedInv'
  BY <1>1, <1>2, SessionAssumption, CallAssumption DEF IInv, TypeOK,
     SessionTypeOK, LockInv, At, GenerationInv, RejectedInv, Rejected, WantPcs,
     HeldPcs, Call, refreshSession, Unlock, sessionVars, lockVars, authVars,
     callVars, Renewal, Single, Finished, Gone, Moves
<1>7. MutationInv'
  BY <1>1, <1>2, SessionAssumption, CallAssumption DEF IInv, TypeOK,
     MutationInv, MaySend, WantPcs, HeldPcs, refreshSession, Unlock,
     sessionVars, lockVars, authVars, callVars, Renewal, Single, Finished, Gone,
     Moves
<1>8. QED BY <1>3, <1>4, <1>5, <1>6, <1>7 DEF IInv

LEMMA BackoffStep ==
    ASSUME SessionAssumption, CallAssumption, IInv, NEW c \in Calls, NEW giveUp \in BOOLEAN,
           Backoff(c, giveUp)
    PROVE  IInv'
<1>1. \/ Gone(c, "done")
      \/ /\ Moves(c)
         /\ call'[c].pc = "attempt" /\ call'[c].generation = call[c].generation
         /\ call'[c].again = call[c].again
  BY GotoFacts, CallAssumption DEF Backoff, Moves, IInv, TypeOK, Pcs, WantPcs,
     HeldPcs, Call
<1>2. TypeOK'
  BY <1>1, SessionAssumption, CallAssumption DEF IInv, TypeOK, SessionTypeOK,
     Backoff, sessionVars, lockVars, authVars, callVars, Gone, Moves
<1>3. LockInv'
  BY <1>1, SessionAssumption, CallAssumption DEF IInv, TypeOK, SessionTypeOK,
     LockInv, At, WantPcs, HeldPcs, Backoff, sessionVars, lockVars, authVars,
     callVars, Gone, Moves
<1>4. GenerationInv'
  BY <1>1, SessionAssumption, CallAssumption DEF IInv, TypeOK, SessionTypeOK,
     LockInv, At, GenerationInv, WantPcs, HeldPcs, Call, Backoff, sessionVars,
     lockVars, authVars, callVars, Gone, Moves
<1>5. RejectedInv'
  BY <1>1, SessionAssumption, CallAssumption DEF IInv, TypeOK, SessionTypeOK,
     LockInv, At, GenerationInv, RejectedInv, Rejected, WantPcs, HeldPcs, Call,
     Backoff, sessionVars, lockVars, authVars, callVars, Gone, Moves
<1>6. MutationInv'
  BY <1>1, SessionAssumption, CallAssumption DEF IInv, TypeOK, MutationInv,
     MaySend, WantPcs, HeldPcs, Backoff, sessionVars, lockVars, authVars,
     callVars, Gone, Moves
<1>7. QED BY <1>2, <1>3, <1>4, <1>5, <1>6 DEF IInv

LEMMA CancelStep ==
    ASSUME SessionAssumption, CallAssumption, IInv, NEW c \in Calls,
           Cancel(c)
    PROVE  IInv'
<1>1. /\ Moves(c)
      /\ call'[c].pc = call[c].pc /\ call'[c].generation = call[c].generation
      /\ call'[c].err = call[c].err /\ call'[c].again = call[c].again
  BY DEF Cancel, Moves, IInv, TypeOK, Call
<1>2. TypeOK'
  BY <1>1, SessionAssumption, CallAssumption DEF IInv, TypeOK, SessionTypeOK,
     Cancel, sessionVars, lockVars, authVars, callVars, Moves
<1>3. LockInv'
  BY <1>1, SessionAssumption, CallAssumption DEF IInv, TypeOK, SessionTypeOK,
     LockInv, At, WantPcs, HeldPcs, Cancel, sessionVars, lockVars, authVars,
     callVars, Moves
<1>4. GenerationInv'
  BY <1>1, SessionAssumption, CallAssumption DEF IInv, TypeOK, SessionTypeOK,
     LockInv, At, GenerationInv, WantPcs, HeldPcs, Call, Cancel, sessionVars,
     lockVars, authVars, callVars, Moves
<1>5. RejectedInv'
  BY <1>1, SessionAssumption, CallAssumption DEF IInv, TypeOK, SessionTypeOK,
     LockInv, At, GenerationInv, RejectedInv, Rejected, WantPcs, HeldPcs, Call,
     Cancel, sessionVars, lockVars, authVars, callVars, Moves
<1>6. MutationInv'
  BY <1>1, SessionAssumption, CallAssumption DEF IInv, TypeOK, MutationInv,
     MaySend, WantPcs, HeldPcs, Cancel, sessionVars, lockVars, authVars,
     callVars, Moves
<1>7. QED BY <1>2, <1>3, <1>4, <1>5, <1>6 DEF IInv

LEMMA AgesStep ==
    ASSUME IInv, Ages
    PROVE  IInv'
<1>1. /\ UNCHANGED <<readers, writer, authGeneration, callVars>>
      /\ expired' \in BOOLEAN
      /\ valid' \in BOOLEAN
      /\ valid' => valid
      /\ authGeneration > 0
  <2>1. UNCHANGED <<readers, writer, authGeneration, callVars>> /\ authGeneration > 0
    BY DEF Ages, SessionAges, SessionRevoked, lockVars
  <2>2. CASE SessionAges
    BY <2>1, <2>2 DEF SessionAges, IInv, TypeOK, SessionTypeOK
  <2>3. CASE SessionRevoked
    BY <2>1, <2>3 DEF SessionRevoked, IInv, TypeOK, SessionTypeOK
  <2>4. QED BY <2>2, <2>3 DEF Ages
<1>2. TypeOK'
  BY <1>1 DEF IInv, TypeOK, SessionTypeOK, callVars
<1>3. LockInv' /\ MutationInv'
  BY <1>1 DEF IInv, LockInv, MutationInv, MaySend, At, callVars
<1>4. GenerationInv' /\ RejectedInv'
  BY <1>1 DEF IInv, GenerationInv, RejectedInv, Rejected, callVars
<1>5. QED BY <1>2, <1>3, <1>4 DEF IInv

LEMMA StutterStep ==
    ASSUME IInv, UNCHANGED vars
    PROVE  IInv'
BY DEF IInv, TypeOK, SessionTypeOK, LockInv, GenerationInv, RejectedInv,
   Rejected,
       MutationInv, MaySend, At, vars, sessionVars, lockVars, authVars, callVars

LEMMA InitInv ==
    ASSUME CallAssumption, SessionAssumption, Init
    PROVE  IInv
<1>1. NewCall("client") \in Call
  BY DEF CallAssumption, Call, NewCall, Errors, Pcs
<1>2. /\ call = [c \in Calls |-> NewCall("client")]
      /\ applied = [c \in SingleCalls |-> 0]
      /\ SessionInit
  BY DEF Init
<1>3. \A c \in Calls : /\ call[c].pc = "client" /\ call[c].again = FALSE
                       /\ call[c].generation = 0 /\ call[c].err = "none"
  BY <1>2 DEF NewCall
<1>4. TypeOK
  <2>1. call \in [Calls -> Call]
    BY <1>1, <1>2
  <2>2. applied \in [SingleCalls -> 0 .. 2]
    BY <1>2
  <2>3. SessionTypeOK
    BY <1>2 DEF SessionInit, SessionTypeOK
  <2>4. QED BY <2>1, <2>2, <2>3 DEF TypeOK
<1>5. LockInv
  BY <1>2, <1>3 DEF SessionInit, LockInv, At, HeldPcs
<1>6. GenerationInv
  BY <1>2, <1>3 DEF SessionInit, GenerationInv
<1>7. RejectedInv
  BY <1>3 DEF RejectedInv, Rejected
<1>8. MutationInv
  <2>1. \A c \in SingleCalls : applied[c] = 0
    BY <1>2
  <2>2. \A c \in SingleCalls : call[c].pc = "client"
    BY <1>3 DEF CallAssumption
  <2>3. QED BY <2>1, <2>2 DEF MutationInv
<1>9. QED BY <1>4, <1>5, <1>6, <1>7, <1>8 DEF IInv

LEMMA NextInv ==
    ASSUME SessionAssumption, CallAssumption, IInv, [Next]_vars
    PROVE  IInv'
<1>1. ASSUME NEW c \in Calls, Step(c) PROVE IInv'
  BY <1>1, SessionAssumption, CallAssumption, AnnounceStep, EnterStep,
     getVCDClientStep,
     ClientLockedStep, lockSessionStep, SessionLockedStep, RelockStep, RequestStep,
     ReadAfterStep, vcdCallStep, PauseOverStep, refreshSessionStep, BackoffStep DEF Step
<1>2. ASSUME NEW c \in Calls, Cancel(c) PROVE IInv'
  BY <1>2, SessionAssumption, CallAssumption, CancelStep
<1>3. CASE Ages
  BY <1>3, AgesStep
<1>4. CASE AllDone \/ UNCHANGED vars
  BY <1>4, StutterStep DEF AllDone
<1>5. QED BY <1>1, <1>2, <1>3, <1>4 DEF Next

-----------------------------------------------------------------------------
(* The theorems.                                                           *)

\* The invariant that the others rest on holds throughout (lockSession,
\* refreshSession and vcdCall together).
THEOREM CallInvariant == Spec => []IInv
<1>1. Init => IInv
  BY InitInv, SessionAssumption, CallAssumption
<1>2. IInv /\ [Next]_vars => IInv'
  BY NextInv, SessionAssumption, CallAssumption
<1>3. QED BY <1>1, <1>2, PTL DEF Spec

\* However many goroutines share the client, no token exchange overlaps a request
\* or another exchange, and a request's session is the one it reports (clientMu
\* in src/session.go).
THEOREM SessionsAreKept == Spec => []RequestsKeepTheirSession
<1>1. IInv => RequestsKeepTheirSession
  <2>1. SUFFICES ASSUME IInv PROVE RequestsKeepTheirSession
    OBVIOUS
  <2>2. ASSUME NEW c \in At(HeldPcs)
        PROVE  At({"request", "read"}) = {} /\ At(HeldPcs) = {c}
    BY <2>1, <2>2 DEF IInv, LockInv
  <2>3. ASSUME NEW c \in At({"request", "read"})
        PROVE  call[c].generation = authGeneration
    BY <2>1, <2>3 DEF IInv, GenerationInv, At
  <2>4. QED BY <2>2, <2>3 DEF RequestsKeepTheirSession
<1>2. QED BY <1>1, CallInvariant, PTL

\* A mutation is carried out at most once, for any number of pauses, renewals and
\* concurrent calls (singleVCDCall in src/vcd_safe.go).
THEOREM MutationsAreNotReplayed == Spec => []MutationsAtMostOnce
<1>1. IInv => MutationsAtMostOnce
  BY DEF IInv, MutationInv, MutationsAtMostOnce
<1>2. QED BY <1>1, CallInvariant, PTL

\* The attempt after a 401 never starts in the session that was rejected
\* (refreshSession's generation in src/session.go).
THEOREM ReplaysAreNewer == Spec => []ReplayInNewerSession
<1>1. IInv => ReplayInNewerSession
  BY DEF IInv, GenerationInv, ReplayInNewerSession, At, TypeOK, SessionTypeOK,
     Call
<1>2. QED BY <1>1, CallInvariant, PTL

\* A session is exchanged only when it is due or rejected, so that any number of
\* concurrent 401s from one session cause one exchange (refreshSession and the
\* second look of lockSession and getVCDClient).
THEOREM ExchangesAreNeeded == Spec => NoNeedlessExchange
<1>1. IInv /\ [Next]_vars => [authGeneration' # authGeneration => expired \/ ~valid]_vars
  <2>1. SUFFICES ASSUME IInv, Next, authGeneration' # authGeneration
                 PROVE  expired \/ ~valid
    OBVIOUS
  <2>2. ASSUME NEW c \in Calls, Step(c) PROVE expired \/ ~valid
    <3>1. \/ \E ok \in BOOLEAN : ClientLocked(c, ok) \/ SessionLocked(c, ok)
          \/ \E ok \in BOOLEAN, next \in {"backoff", "done"} : refreshSession(c, ok, next)
      BY <2>1, <2>2 DEF Step, Announce, Enter, getVCDClient, lockSession,
         Relock, Request,
         ReadAfter, vcdCall, PauseOver, Backoff, authVars, sessionVars
    <3>2. CASE \E ok \in BOOLEAN : ClientLocked(c, ok) \/ SessionLocked(c, ok)
      BY <2>1, <3>2 DEF ClientLocked, SessionLocked, authVars
    <3>3. ASSUME NEW ok \in BOOLEAN, NEW next \in {"backoff", "done"},
                 refreshSession(c, ok, next)
          PROVE  ~valid
      <4>1. call[c].pc = "refreshHeld" /\ call[c].generation = authGeneration
        BY <2>1, <3>3 DEF refreshSession, RenewRejected, authVars
      <4>2. QED BY <2>1, <4>1 DEF IInv, RejectedInv, Rejected
    <3>4. QED BY <3>1, <3>2, <3>3
  <2>3. ASSUME NEW c \in Calls, Cancel(c) PROVE FALSE
    BY <2>1, <2>3 DEF Cancel, sessionVars, authVars
  <2>4. ~Ages /\ ~AllDone
    BY <2>1 DEF Ages, SessionAges, SessionRevoked, AllDone, vars, sessionVars,
       authVars
  <2>5. QED BY <2>1, <2>2, <2>3, <2>4 DEF Next
<1>2. QED BY <1>1, CallInvariant, PTL DEF Spec, NoNeedlessExchange

\* The lock, the session and every call keep their types: in particular vcdCall
\* repeats no call beyond the retries it has.
THEOREM CallTypes == Spec => []TypeOK
<1>1. IInv => TypeOK
  BY DEF IInv
<1>2. QED BY <1>1, CallInvariant, PTL

=============================================================================

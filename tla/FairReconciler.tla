--------------------------- MODULE FairReconciler ---------------------------
(***************************************************************************)
(* What the reconciler eventually does. vCD, the network and the guests    *)
(* fail in any way, and fleeting asks for any changes, for any finite      *)
(* time; from some moment on the calls work and the demand stays as it is. *)
(* Until then every behaviour of Reconciler is allowed, so the recovery    *)
(* starts from whatever state the failures have left behind.               *)
(***************************************************************************)
EXTENDS Reconciler

VARIABLE healthy   \* from now on calls work and the demand does not change

fairVars == <<vars, healthy>>

FairInit == Init /\ healthy = FALSE

Recover ==
    /\ healthy' = TRUE
    /\ UNCHANGED vars

\* A dispatch loop left although it could have dispatched: the throttle pause.
BreaksEarly ==
    \/ /\ pc = "createLoop" /\ pc' = "deleteLoop"
       /\ work # {} /\ \E s \in Slots : tryAcquireCreate(s)
    \/ /\ pc = "deleteLoop" /\ pc' = "cleanupLoop"
       /\ work # {} /\ \E s \in Slots : tryAcquireDelete(s)
    \/ /\ pc = "cleanupLoop" /\ pc' = "idle"
       /\ work \ backgroundDeletes # {} /\ \E s \in Slots : tryAcquireDelete(s)

\* A pending entry passed over because its backoff has not elapsed.
BacksOff ==
    \/ /\ pc = "dispatchCreates" /\ pc' = "createLoop"
       /\ ~CreatesHeld /\ work' # InPhase("PendingCreate")
    \/ pc = "createLoop" /\ pc' = "deleteLoop" /\ work' # InPhase("PendingDelete")

\* Steps in which a call to vCD or to a guest fails, or is refused.
PollFailure ==
    \/ pc = "idle" /\ pc' = "hold"
    \/ pc = "idle" /\ pc' = "read" /\ \E v \in VApps \ work' : vcd[v] = "tagged"
    \/ pc = "read" /\ pc' = "poll" /\ ~pollOK'

CallFailure(s) ==
    \/ ops[s].pc = "init" /\ ops'[s].pc = "failed"
    \/ /\ ops[s].pc = "post" \/ (ops[s].pc \in {"meta", "build"} /\ Exists(ops[s].vapp))
       /\ ops'[s].pc = "abort"
    \/ ops[s].pc = "delete" /\ ops'[s].pc = "deleteErr"
    \/ /\ ops[s].pc = "cleanup" /\ vcd[ops[s].vapp] # "late"
       /\ ops'[s].pc = "cleanupErr" \/ vcd'[ops[s].vapp] # "absent"

\* A cycle of the loop, a step of an operation, and the world outside.
Loop ==
    /\ reconcileOnce
    /\ healthy => ~PollFailure /\ ~BreaksEarly /\ ~BacksOff
    /\ UNCHANGED healthy

Operation(s) ==
    /\ doCreate(s) \/ doDelete(s) \/ doCleanup(s)
    /\ healthy => ~CallFailure(s)
    /\ UNCHANGED healthy

\* Deletes go before the cleanups of failed creates in every cycle, so demand
\* that never settles could keep the cleanups from the last delete slot.
Outside ==
    /\ Environment
    /\ healthy => UNCHANGED <<storeVars, restarts>> /\ \A v \in VApps : Exists(v) => vcd'[v] = vcd[v]
    /\ UNCHANGED healthy

FairNext == Recover \/ Loop \/ (\E s \in Slots : Operation(s)) \/ Outside

\* - The ticker starts cycles for ever, and calls end. Each has a deadline but one
\*   that waits for the org's operation limit: "healthy" is also the time in which
\*   that limit does not stay reached.
\* - A committed POST becomes visible, the breaker's cooldown passes.
\* - pruneAfter elapses (a name of the model's small set is then fresh again).
\* "healthy" also stands for the time after the last backoff has elapsed.
Fairness ==
    /\ WF_fairVars(Recover)
    /\ WF_fairVars(Loop)
    /\ \A s \in Slots : WF_fairVars(Operation(s))
    /\ \A v \in VApps : WF_fairVars(LateCommit(v) /\ UNCHANGED healthy)
    /\ WF_fairVars(CooldownEnds /\ UNCHANGED healthy)
    /\ SF_fairVars(Loop /\ GCAndPrune /\ InPhase("Deleted")' = {})

FairSpec == FairInit /\ [][FairNext]_fairVars /\ Fairness

\* Nothing in the program leads to the vApp any more: it has no label, and its
\* cleanup was given up because the org or the VDC was not found.
Lost(v) == vcd[v] = "bare" /\ v \in forgotten

\* Every vApp that is not in use goes away, unless it is lost: a leftover, the
\* vApp of a deleted instance, and whatever a failed create left in vCD, labelled
\* or not (dispatchDeletes, dispatchCreateCleanups and their retries).
EveryOrphanIsRemoved ==
    \A v \in VApps : (vcd[v] # "absent" /\ ~Live(v)) ~> (vcd[v] = "absent" \/ Lost(v))

\* Every intent gets its instance, whatever failed on the way (startup hold,
\* circuit breaker, retry backoff, limiter). The program's names do not run out;
\* the model's do when every one of them belongs to a lost vApp.
EveryIntentIsServed ==
    \A i \in Intents :
       instances[i].Phase = "PendingCreate" ~>
          instances[i].Phase = "Running" \/ \A v \in VApps : Lost(v)

=============================================================================

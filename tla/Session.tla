------------------------------ MODULE Session ------------------------------
(***************************************************************************)
(* The vCD session of an instance group (src/session.go): one SDK client,  *)
(* shared by every goroutine under clientMu. Requests run under the read   *)
(* lock; the token exchange that renews the session writes the client and  *)
(* runs under the write lock.                                              *)
(*                                                                         *)
(* clientMu is a Go RWMutex: Lock first announces the writer, which stops  *)
(* new readers, and then waits for the readers there are.                  *)
(***************************************************************************)
EXTENDS Naturals

CONSTANTS
    Calls,      \* the goroutines that use the client
    Nobody      \* no writer

ASSUME SessionAssumption == Nobody \notin Calls

VARIABLES
    readers,           \* who holds clientMu for reading
    writer,            \* who has announced, or holds, the write lock
    authGeneration,    \* 0 while vcdClient is nil
    expired,           \* sessionExpired(): by age, or lastAuthenticated is zero
    valid              \* does vCD accept the token of this generation?

lockVars == <<readers, writer>>
authVars == <<authGeneration, expired, valid>>
sessionVars == <<lockVars, authVars>>

SessionTypeOK ==
    /\ readers \subseteq Calls
    /\ writer \in Calls \cup {Nobody}
    /\ authGeneration \in Nat
    /\ expired \in BOOLEAN
    /\ valid \in BOOLEAN

SessionInit ==
    /\ readers = {}
    /\ writer = Nobody
    /\ authGeneration = 0
    /\ expired = TRUE
    /\ valid = FALSE

-----------------------------------------------------------------------------
(* clientMu.                                                               *)

RLock(c) ==
    /\ writer = Nobody
    /\ readers' = readers \cup {c}
    /\ UNCHANGED writer

RUnlock(c) ==
    /\ readers' = readers \ {c}
    /\ UNCHANGED writer

\* The first half of Lock: the writer is announced.
AnnounceLock(c) ==
    /\ writer = Nobody
    /\ writer' = c
    /\ UNCHANGED readers

\* The second half: the readers have left.
LockGranted(c) ==
    /\ writer = c
    /\ readers = {}

Unlock ==
    /\ writer' = Nobody
    /\ UNCHANGED readers

-----------------------------------------------------------------------------

\* The token exchange. A failure leaves the session due for renewal. The same
\* assignments are made when getVCDClient builds the first client, except that
\* a failure then changes nothing.
authenticateLocked(ok) ==
    IF ok
    THEN /\ authGeneration' = authGeneration + 1
         /\ expired' = FALSE
         /\ valid' = TRUE
    ELSE /\ expired' = TRUE
         /\ UNCHANGED <<authGeneration, valid>>

\* sessionRefreshInterval passes.
SessionAges ==
    /\ ~expired
    /\ expired' = TRUE
    /\ UNCHANGED <<lockVars, authGeneration, valid>>

\* vCD ends the session, which the plugin learns from a 401.
SessionRevoked ==
    /\ valid
    /\ valid' = FALSE
    /\ UNCHANGED <<lockVars, authGeneration, expired>>

=============================================================================

\* One mutation and one repeatable call share the session, which may be renewed
\* twice. The calls may all return. Any that does not may be cancelled, so
\* calls that block each other violate CancelledCallReturns.
SPECIFICATION FairSpec
CONSTANTS
    m1 = m1
    r1 = r1
    Nobody = Nobody
    Calls = {m1, r1}
    SingleCalls = {m1}
    MaxTries = 1
    MaxRenewals = 2
INVARIANT TypeOK
INVARIANT RequestsKeepTheirSession
INVARIANT MutationsAtMostOnce
INVARIANT ReplayInNewerSession
PROPERTY NoNeedlessExchange
PROPERTY CancelledCallReturns
CHECK_DEADLOCK FALSE

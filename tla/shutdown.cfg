SPECIFICATION PromptSpec
CONSTANTS
    i1 = i1
    v1 = v1
    s1 = s1
    s2 = s2
    None = None
    Intents = {i1}
    VApps = {v1}
    Leftovers = {v1}
    Slots = {s1, s2}
    MaxConcurrentCreates = 1
    MaxConcurrentDeletes = 1
    circuitBreakerThreshold = 1
    missedPollsBeforeDisappeared = 2
    ListingMayOmit = FALSE
    VAppsMayVanish = FALSE
    MaxRestarts = 0
CHECK_DEADLOCK FALSE
INVARIANT StopTypeOK
INVARIANT NothingRunsBesideShutdown
INVARIANT ShutdownMissesNothing
PROPERTY ShutdownObeysContext
PROPERTY ShutdownWaitsOnlyForCalls

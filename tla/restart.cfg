SPECIFICATION Spec
CONSTANTS
    i1 = i1
    i2 = i2
    v1 = v1
    s1 = s1
    s2 = s2
    s3 = s3
    None = None
    Intents = {i1, i2}
    VApps = {v1}
    Leftovers = {}
    Slots = {s1, s2, s3}
    MaxConcurrentCreates = 2
    MaxConcurrentDeletes = 2
    circuitBreakerThreshold = 1
    missedPollsBeforeDisappeared = 1
    ListingMayOmit = FALSE
    VAppsMayVanish = TRUE
    MaxRestarts = 2
SYMMETRY Symmetry
INVARIANT OneOperationEach
PROPERTY HoldEndsClean

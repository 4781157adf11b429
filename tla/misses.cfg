SPECIFICATION Spec
CONSTANTS
    i1 = i1
    v2 = v2
    v1 = v1
    s1 = s1
    None = None
    Intents = {i1}
    VApps = {v2, v1}
    Leftovers = {v2}
    Slots = {s1}
    MaxConcurrentCreates = 1
    MaxConcurrentDeletes = 1
    circuitBreakerThreshold = 1
    missedPollsBeforeDisappeared = 2
    ListingMayOmit = TRUE
    VAppsMayVanish = FALSE
    MaxRestarts = 0
SYMMETRY Symmetry
PROPERTY MissesAreConsecutive

SPECIFICATION Spec
CONSTANTS
    i1 = i1
    v1 = v1
    s1 = s1
    None = None
    Intents = {i1}
    VApps = {v1}
    Leftovers = {}
    Slots = {s1}
    MaxConcurrentCreates = 1
    MaxConcurrentDeletes = 1
    circuitBreakerThreshold = 1
    missedPollsBeforeDisappeared = 1
    ListingMayOmit = FALSE
    VAppsMayVanish = FALSE
    MaxRestarts = 0
INVARIANT NamesRetained

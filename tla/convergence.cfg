SPECIFICATION FairSpec
CONSTANTS
    i1 = i1
    v1 = v1
    s1 = s1
    s2 = s2
    None = None
    Intents = {i1}
    VApps = {v1}
    Leftovers = {v1}
    Slots = {s1, s2}
    MaxConcurrentCreates = 1
    MaxConcurrentDeletes = 1
    circuitBreakerThreshold = 2
    missedPollsBeforeDisappeared = 2
    ListingMayOmit = TRUE
    VAppsMayVanish = TRUE
    MaxRestarts = 0
PROPERTY EveryIntentIsServed
PROPERTY EveryOrphanIsRemoved

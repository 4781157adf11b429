SPECIFICATION Spec
CONSTANTS
    i1 = i1
    v1 = v1
    v2 = v2
    s1 = s1
    s2 = s2
    None = None
    Intents = {i1}
    VApps = {v1, v2}
    Leftovers = {}
    Slots = {s1, s2}
    MaxConcurrentCreates = 2
    MaxConcurrentDeletes = 2
    circuitBreakerThreshold = 1
    missedPollsBeforeDisappeared = 1
    ListingMayOmit = TRUE
    VAppsMayVanish = TRUE
    MaxRestarts = 0
SYMMETRY Symmetry
INVARIANT TypeOK
INVARIANT IndexConsistent
INVARIANT NeverDeletesLive
INVARIANT NoInvisibleOrphan
PROPERTY InstanceLifecycle
PROPERTY FleetingIsToldTheTruth

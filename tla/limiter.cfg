SPECIFICATION FairSpec
CONSTANTS
    o1 = o1
    o2 = o2
    o3 = o3
    o4 = o4
    Ops = {o1, o2, o3, o4}
    MaxConcurrentOperations = 3
    MaxConcurrentCreates = 2
    MaxConcurrentDeletes = 3
CHECK_DEADLOCK FALSE
INVARIANT TypeOK
INVARIANT SlotsConserved
PROPERTY ImplementsLimiter
PROPERTY DrainReturns

SPECIFICATION FairSpec
CONSTANT MaxFaults = 6
INVARIANT TypeOK
INVARIANT CreatedIsReady
PROPERTY KeepsContract
PROPERTY EventuallyDeleted

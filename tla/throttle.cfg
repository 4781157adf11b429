SPECIFICATION Spec
CONSTANTS
    c1 = c1
    c2 = c2
    c3 = c3
    Calls = {c1, c2, c3}
    InitialPause = 2
    MaxPause = 7
SYMMETRY Interchangeable
INVARIANT TypeOK
INVARIANT BurstsCountOnce
PROPERTY WaitsOutThePause

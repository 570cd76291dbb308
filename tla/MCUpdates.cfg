SPECIFICATION Spec
CONSTANTS
    w1 = w1
    w2 = w2
    Workers = {w1, w2}
    MaxRevision = 3
    Broken = {3}
    MaxMishaps = 1
SYMMETRY Symmetry
PROPERTIES
    InstallsOnlyTheOffer
    UserWorkIsKept
    UpdatedIsRunning
CHECK_DEADLOCK FALSE

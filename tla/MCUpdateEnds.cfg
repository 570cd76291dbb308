SPECIFICATION Spec
CONSTANTS
    w1 = w1
    w2 = w2
    Workers = {w1}
    MaxRevision = 2
    Broken = {}
    MaxMishaps = 2
PROPERTIES
    InstallEnds
CHECK_DEADLOCK FALSE

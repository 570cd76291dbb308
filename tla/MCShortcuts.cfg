SPECIFICATION Spec
CONSTANTS
    w1 = w1
    w2 = w2
    c1 = c1
    c2 = c2
    Writers = {w1, w2}
    Combos = {c1, c2}
    MaxRequests = 2
    MaxEdits = 1
    MaxFaults = 1
SYMMETRY Symmetry
INVARIANTS
    EditsAreKept
    IconOrShortcut
PROPERTIES
    FailedChangesLeaveShortcut
    SavedShortcutIsAlone
CHECK_DEADLOCK FALSE

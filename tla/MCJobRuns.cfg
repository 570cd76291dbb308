SPECIFICATION FairSpec
CONSTANTS
    Profiles = {p1, p2}
    p1 = p1
    p2 = p2
    j1 = j1
    j2 = j2
    a1 = a1
    a2 = a2
    Jobs = {j1, j2}
    Places = {a1}
    NoPlace = NoPlace
    NoDraft = NoDraft
    DraftLimit = 1
    MaxRequests = 4
    MaxChanges = 1
INVARIANTS
    JobTypeOK
PROPERTIES
    KeepsConfirmation
    RunsWhatWasShown
    BusyEnds

SPECIFICATION Spec
CONSTANTS
    people = people
    groups = groups
    r1 = r1
    r2 = r2
    r3 = r3
    l1 = l1
    l2 = l2
    p1 = p1
    p2 = p2
    Profiles = {p1, p2}
    Categories = {people, groups}
    RecordsOf <- MCRecordsOf
    Links = {l1, l2}
    Shared = {l2}
    RegistryLimit = 3
    LinkLimit = 1
    RowsPerCategory = 1
    MaxChanges = 2
SYMMETRY Symmetry
INVARIANTS
    DeletionsMatchList
    ListFollowsChanges
    SearchCoversTheAllowed
    ShownRowsOpen
    RowsOfTheProfile
CHECK_DEADLOCK FALSE

SPECIFICATION Spec
CONSTANTS
    p1 = p1
    p2 = p2
    a1 = a1
    a2 = a2
    f1 = f1
    Profiles = {p1, p2}
    Apps = {a1, a2}
    Files = {f1}
    ItemLimit = 2
    ListingLimit = 2
    RecentLimit = 1
    ReceiptLimit = 1
    NameLimit = 2
    MaxBuilds = 2
    MaxDownloads = 2
    MaxFaults = 2
SYMMETRY Symmetry
PROPERTIES
    DownloadsKeepFiles
INVARIANTS
    ItemsOfTheProfile
    NoBuildIsRetried
    ReceiptsAreTrue
CHECK_DEADLOCK FALSE

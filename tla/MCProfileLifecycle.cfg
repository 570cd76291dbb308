SPECIFICATION BrokerSpec
CONSTANTS
    p1 = p1
    p2 = p2
    o1 = o1
    o2 = o2
    Profiles = {p1, p2}
    OriginOf <- MCOneServer
    Logins = {alice, bob}
    NoProfile = NoProfile
    NoSecret = NoSecret
    Damaged = Damaged
    NoCookie = NoCookie
    Clients = {"personal_links", "magnus"}
    FileOutcomes = {"ok", "refused", "lost", "half"}
SYMMETRY Symmetry
INVARIANTS
    SelectedIsActive
    RemovedProfileLeavesNoLogin
    ClientsFollowProfile
    HeldOfPresentLogin

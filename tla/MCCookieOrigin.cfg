SPECIFICATION BrokerSpec
CONSTANTS
    p1 = p1
    p2 = p2
    o1 = o1
    o2 = o2
    Profiles = {p1, p2}
    OriginOf <- MCOriginOf
    Logins = {alice, bob}
    NoProfile = NoProfile
    NoSecret = NoSecret
    Damaged = Damaged
    NoCookie = NoCookie
    Clients = {"magnus"}
    FileOutcomes = {"ok"}
SYMMETRY Symmetry
INVARIANTS
    CookieOnlyToItsOrigin

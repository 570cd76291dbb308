SPECIFICATION Spec
CONSTANTS
    p1 = p1
    p2 = p2
    o1 = o1
    Profiles = {p1, p2}
    Origins = {o1}
    OriginOf <- MCOriginOf
    Logins = {alice}
    NoProfile = NoProfile
    NoSecret = NoSecret
    Damaged = Damaged
    NoCookie = NoCookie
    MaxFaults = 1
SYMMETRY Symmetry
PROPERTIES
    KeepsContract

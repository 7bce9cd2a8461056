\* Two updates at a time on one listing, over a geography that is being seeded.
SPECIFICATION Spec
CONSTANTS
    Division = {v1}
    District = {d1, d2}
    Upazila = {u1, u2}
    Area = {a1}
    Parent <- Inside
    NoPlace = NoPlace
    Seeder = {x1}
    Slot = {s1, s2}
    Kind = {rent, sale, shared}
    Shared = shared
    Pin = {p1, p2}
    Secret = {x1, x2}
    Body <- Bodies
    Omitted = Omitted
    NoPin = NoPin
    NoListing = NoListing
    NoRequest = NoRequest
    MaxUpdates = 3
    v1 = v1
    d1 = d1
    d2 = d2
    u1 = u1
    u2 = u2
    a1 = a1
    s1 = s1
    s2 = s2
    x1 = x1
    x2 = x2
    p1 = p1
    p2 = p2
    rent = rent
    sale = sale
    shared = shared
SYMMETRY Alike
INVARIANTS
    StoredChainIsSound
    FlagDriftsOnlyByOverlap
    PinDriftsOnlyByRotation

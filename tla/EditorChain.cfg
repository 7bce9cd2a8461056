\* Two districts with one upazila each, and an area in the first.
SPECIFICATION Spec
CONSTANTS
    Division = {v1}
    District = {d1, d2}
    Upazila = {u1, u2}
    Area = {a1}
    Parent <- Inside
    NoPlace = NoPlace
    Unsent = Unsent
    v1 = v1
    d1 = d1
    d2 = d2
    u1 = u1
    u2 = u2
    a1 = a1
INVARIANT
    ChainSentIsConsistent

\* Four listings, two of which fit, and two calls at a time.
SPECIFICATION Spec
CONSTANTS
    Listing = {l1, l2, l3, l4}
    Call = {c1, c2}
    Cap = 2
    NoIds = NoIds
    Asked = Asked
    MaxFlips = 2
    l1 = l1
    l2 = l2
    l3 = l3
    l4 = l4
    c1 = c1
    c2 = c2
SYMMETRY Alike
INVARIANTS
    MirrorAgrees
    CapHolds

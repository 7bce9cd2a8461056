\* Two sign-ins, two runs of the effect, each asking twice; three listings, one to a
\* page, of which one enters or leaves during a visit.
SPECIFICATION Spec
CONSTANTS
    MaxPolls = 2
    MaxRuns = 2
    MaxSignIns = 2
    Listing = {1, 2, 3}
    CreatedAt <- Ages
    Price <- Prices
    Limit = 1
    MaxOffset = 1
    MaxMoves = 1
INVARIANTS
    SignOutHolds
    KeysetScanIsExact
    OffsetScanDrifts
PROPERTIES
    SpinnerEnds
\* The bounds end the behaviours.
CHECK_DEADLOCK FALSE

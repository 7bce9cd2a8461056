\* One sign-in, one run of the effect, which asks once; a catalog of three
\* listings of which one moves.
SPECIFICATION Spec
CONSTANTS
    MaxPolls = 1
    MaxRuns = 1
    MaxSignIns = 1
    Listing = {1, 2, 3}
    CreatedAt <- Ages
    Price <- Prices
    Limit = 1
    MaxOffset = 1
    MaxMoves = 1
PROPERTY
    HungApiRejects
\* The bounds end the behaviours.
CHECK_DEADLOCK FALSE

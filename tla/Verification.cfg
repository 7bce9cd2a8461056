\* Three requests at a time on one seller, and transactions that may be retried
\* after their save.
SPECIFICATION Spec
CONSTANTS
    Seller = {alice}
    Staff = {sam}
    Slot = {s1, s2, s3}
    NoRequest = NoRequest
    MaxEvents = 4
    CommitFaults = TRUE
    alice = alice
    bob = bob
    sam = sam
    s1 = s1
    s2 = s2
    s3 = s3
SYMMETRY SlotsAreAlike
INVARIANTS
    VerifiedByStaff
    StaleOnlyByOverlap
PROPERTIES
    VerifiedHoldsForLaterRequests
\* The system really stops once every seller is verified.
CHECK_DEADLOCK FALSE

\* Two requests at a time on one listing, and transactions that may be retried
\* after their save.
SPECIFICATION Spec
CONSTANTS
    Listing = {l1}
    Seller = {alice}
    Staff = {sam}
    Content = {bare, flat, plot}
    Bare = bare
    Slot = {s1, s2}
    NoRequest = NoRequest
    NoOwner = NoOwner
    MaxRows = 4
    CommitFaults = TRUE
    alice = alice
    bob = bob
    sam = sam
    l1 = l1
    l2 = l2
    bare = bare
    flat = flat
    plot = plot
    s1 = s1
    s2 = s2
SYMMETRY SlotsAreAlike
INVARIANTS
    TypeOK
    PublicOnlyAfterReview
    CompleteOnceSubmitted
    StaleOnlyByOverlap
PROPERTIES
    TakedownHoldsForLaterRequests
    ContentFrozenForLaterUpdates
    RowsAfterDeleteAreRetries
    PolicyUnlessOvertaken

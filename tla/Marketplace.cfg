\* Two listing requests and two verification requests at a time, and no
\* transaction retried after its save: the ledgers hold.
SPECIFICATION Spec
CONSTANTS
    Listing = {l1}
    Seller = {alice}
    Staff = {sam}
    Content = {bare, flat}
    Bare = bare
    NoRequest = NoRequest
    NoOwner = NoOwner
    ListingSlot = {s1, s2}
    VerificationSlot = {v1, v2}
    MaxRows = 4
    MaxEvents = 4
    CommitFaults = FALSE
    alice = alice
    sam = sam
    l1 = l1
    bare = bare
    flat = flat
    s1 = s1
    s2 = s2
    v1 = v1
    v2 = v2
SYMMETRY SlotsAreAlike
INVARIANTS
    CatalogIsVouchedFor
    NoteOutlivesRejectionOnlyByOverlap
PROPERTIES
    VerificationIsAsSupposed
    ListingHistoryIsTheLedger
    VerificationHistoryIsTheLedger
\* Every seller may be verified and every id used up, and then nothing is left to do.
CHECK_DEADLOCK FALSE

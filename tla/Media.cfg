\* Two requests at a time on three photos, of which two fit.
SPECIFICATION Spec
CONSTANTS
    Key = {k1, k2, k3}
    Slot = {s1, s2}
    NoRequest = NoRequest
    MaxPhotos = 2
    MaxCommits = 2
    MaxVersion = 2
    MaxMoves = 1
    k1 = k1
    k2 = k2
    k3 = k3
    s1 = s1
    s2 = s2
SYMMETRY Alike
INVARIANTS
    BrokenOnlyByReplay
PROPERTIES
    ImplementsGallery
    PhotosLostOnlyByStaleSave
    FreshRequestsKeepTheGallery
    PhotosFrozenForLaterRequests
\* A listing may be deleted, and then nothing is left to do.
CHECK_DEADLOCK FALSE

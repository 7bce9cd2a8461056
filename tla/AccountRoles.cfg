\* The owner of the marketplace signs up, becomes prime and assigns roles, while a
\* member of staff becomes a seller, and suspends and reactivates accounts.
SPECIFICATION Spec
CONSTANTS
    User = {ann, olu}
    Owner = olu
    Unborn = Unborn
    Unset = Unset
    SessionId = {c1, c2}
    NoSession = NoSession
    TokenId = {t1, t2}
    NoToken = NoToken
    Slot = {s1, s2}
    Offered <- RoleOffers
    Founders = {ann}
    LegacyArrays <- SupportArray
    None = None
    ann = ann
    olu = olu
    s1 = s1
    s2 = s2
    c1 = c1
    c2 = c2
    t1 = t1
    t2 = t2
SYMMETRY Alike
INVARIANTS
    TypeOK
    LiveTokensOnlyByOverlap
    PrimeOnlyIfProven
PROPERTIES
    DenialsHold
    OnlyPrimeActsOnStaff
\* Every session and token may be in use, and then nothing is left to do.
CHECK_DEADLOCK FALSE

\* The owner of the marketplace signs up and in, in every way, and loses the
\* password, while staff suspend and reactivate the account.
SPECIFICATION Spec
CONSTANTS
    User = {ann, olu}
    Owner = olu
    Unborn = Unborn
    Unset = Unset
    SessionId = {c1, c2}
    NoSession = NoSession
    TokenId = {t1}
    NoToken = NoToken
    Slot = {s1, s2}
    Offered <- AccessOffers
    Founders = {ann}
    LegacyArrays <- PrimeArray
    None = None
    ann = ann
    olu = olu
    s1 = s1
    s2 = s2
    c1 = c1
    c2 = c2
    t1 = t1
    t2 = t2
SYMMETRY Alike
INVARIANTS
    EarlierSessionsEnd
    SignInsAreVouchedFor
\* Every session and token may be in use, and then nothing is left to do.
CHECK_DEADLOCK FALSE

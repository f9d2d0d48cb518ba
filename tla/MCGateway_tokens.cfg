SPECIFICATION Spec
CONSTANTS
    User = {alice, admin}
    Token = {t1, t2}
    Request = {r1, r2}
    FileKey = {k1, k2}
    NoPath = NoPath
    Unreadable = Unreadable
    NoUser = NoUser
    NoToken = NoToken
    NoKey = NoKey
    Absent = Absent
    Malformed = Malformed
    Forged = Forged
    TOKEN_EXPIRY_SECS = 1
    Leeway = 1
    MaxBoots = 2
SYMMETRY Symmetry
CHECK_DEADLOCK FALSE
INVARIANTS
    TypeOK
    OnlyOwnTokensPass
    OwnTokensPass
    RefusalIsFinal
PROPERTY TokenLifecycle

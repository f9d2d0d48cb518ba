CONSTANTS
    Handler = {h1, h2}
    Nonce = {n1, n2}
    m1 = m1
    m2 = m2
    s1 = s1
    Machine = {m1, m2}
    Service = {s1}
    Allowlist = {m1}
    DevId = dev
    Empty = Empty
    Garbled = Garbled
    NoRequest = NoRequest
    NoCert = NoCert
    Free = Free
    Inputs <- GoodInputs
    RevokeInputs <- NoSerials
    NONCE_TTL = 30
    CERT_TTL_SECS = 300
    MaxClock = 1
    MaxRestarts = 1
SPECIFICATION Spec
CHECK_DEADLOCK FALSE
INVARIANT SerialNeverReused

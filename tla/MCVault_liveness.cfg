CONSTANTS
    Handler = {h1, h2}
    Nonce = {n1, n2}
    m1 = m1
    m2 = m2
    s1 = s1
    Machine = {m1, m2}
    Service = {s1}
    Allowlist = {m1}
    DevId = dev
    Empty = Empty
    Garbled = Garbled
    NoRequest = NoRequest
    NoCert = NoCert
    Free = Free
    Inputs <- LogInputs
    RevokeInputs <- FirstSerial
    NONCE_TTL = 2
    CERT_TTL_SECS = 2
    MaxClock = 0
    MaxRestarts = 1
SPECIFICATION FairSpec
CHECK_DEADLOCK FALSE
PROPERTIES
    RequestsEnd
    SignedIsReturned

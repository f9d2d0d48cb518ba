SPECIFICATION Spec
CONSTANTS
    CERT_TTL_SECS = 300
    MaxLatency = 7
    Drift <- ClockAhead
INVARIANTS
    TypeOK
    ActiveCertValid
    RecoversInTime

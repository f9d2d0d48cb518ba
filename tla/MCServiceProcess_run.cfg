SPECIFICATION FairSpec
CONSTANTS
    Conn = {c1, c2}
    NoConn = NoConn
    MaxBundles = 4
INVARIANTS
    TypeOK
    AcceptsOnlyWhenServing
    NewConnectionsSeeSwap
    SerialFollowsConfig
PROPERTIES
    CertNeverGoesBack
    ListenerIsRegister
    QueuedIsTakenUp

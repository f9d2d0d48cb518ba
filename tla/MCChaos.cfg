SPECIFICATION FairSpec
CONSTANTS
    Request = {r1, r2, r3}
    Limit = 2
CHECK_DEADLOCK FALSE
INVARIANTS
    TypeOK
    InnerLimitKept
    FaultsAsConfigured
PROPERTIES
    ContractKept
    RequestsEnd

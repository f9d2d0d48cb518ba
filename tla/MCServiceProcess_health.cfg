SPECIFICATION Spec
CONSTANTS
    Conn = {c1, c2}
    NoConn = NoConn
    MaxBundles = 4
SYMMETRY Symmetry
INVARIANT HealthSerialCurrent

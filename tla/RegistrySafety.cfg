SPECIFICATION Spec
CONSTANTS
    Control = {c1, c2, c3}
    RunID = {r1, r2}
    Name = {n1, n2}
    Type = {"tcp", "stcp", "xtcp"}
    MaxPorts = 1
    Nil = Nil
SYMMETRY MCSymmetry
INVARIANTS RegistryAgrees VisitorServed NoOrphanListener NoOrphanClient OneSessionPerRunID CurrentSessionFound PortsCounted
PROPERTIES LeaseSpec
CHECK_DEADLOCK FALSE

SPECIFICATION Spec
CONSTANTS
    Proxy = {x1, x2, x3}
    Name = {n1, n2}
    AllowPorts = {1, 2}
    RequestPorts = {1, 2, 3}
    NetType = "tcp"
    Nil = Nil
SYMMETRY MCSymmetry
INVARIANTS HeldExclusively OpenReservationInUse
PROPERTY PortLeaseSpec

SPECIFICATION Spec
CONSTANTS
    Proxy = {x1, x2, x3}
    Name = {n1, n2}
    AllowPorts = {1, 2}
    RequestPorts = {0, 1}
    NetType = "udp"
    Nil = Nil
SYMMETRY MCSymmetry
INVARIANTS NoLeak

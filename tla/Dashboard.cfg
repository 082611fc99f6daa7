SPECIFICATION Spec
CONSTANTS
    Session = {s1, s2}
    Name = {n1}
    Type = {"tcp", "http", "tcpmux"}
    Visited = {"Overview", "ProxiesTcp", "ProxiesUdp", "ProxiesHttp", "ProxiesHttps", "ProxiesStcp", "ProxiesSudp"}
    Req = {q1, q2}
    VhostPort <- MCVhostPort
    Nil = Nil
SYMMETRY MCSymmetry
INVARIANTS TypeOK CountsExact StatsOfOwner RowsBelong ContractHolds RowsHavePort CountsAgree

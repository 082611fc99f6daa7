SPECIFICATION FairSpec
CONSTANTS
    x1 = x1  x2 = x2  x3 = x3  x4 = x4  g1 = g1  g2 = g2  k1 = k1
    n1 = n1  n2 = n2  n3 = n3
    Proxy = {x1, x2, x3, x4}
    Group = {g1, g2}
    Key = {k1}
    Port = {1}
    Conf <- MCConf
    Name = {n1, n2, n3}
    nameOf <- MCNameOf
    Object = {o1, o2}
    Nil = Nil
INVARIANTS PortsAccounted MembersReachable
PROPERTIES SentConnTaken

SPECIFICATION FairSpec
CONSTANTS
    Control = {c1, c2, c3}
    RunID = {r1, r2}
    Name = {n1}
    Type = {"tcp", "stcp"}
    MaxPorts = 0
    Nil = Nil
PROPERTIES LoginStarts
CHECK_DEADLOCK FALSE

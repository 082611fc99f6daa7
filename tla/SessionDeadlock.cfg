SPECIFICATION FairSpec
CONSTANTS
    User = {u1}
    WorkConn = {w1}
    Msg = {"NewProxy", "InvalidPing"}
    MaxMsgs = 3
    PoolCount = 0
    ReadCap = 1
    SendCap = 5
    PoolCap = 1
    HeartbeatOn = TRUE
    Nil = Nil
CHECK_DEADLOCK FALSE
PROPERTIES ShutdownEnds

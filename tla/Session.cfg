SPECIFICATION FairSpec
CONSTANTS
    User = {u1, u2}
    WorkConn = {w1, w2}
    Msg = {"NewProxy", "InvalidPing"}
    MaxMsgs = 1
    PoolCount = 1
    ReadCap = 1
    SendCap = 6
    PoolCap = 1
    HeartbeatOn = TRUE
    Nil = Nil
CHECK_DEADLOCK FALSE
INVARIANTS ConnExclusive NoSendOnClosed PoolEmptyAtEnd
PROPERTIES ShutdownEnds UserAnswered

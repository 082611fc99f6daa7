SPECIFICATION FairSpec
CONSTANTS
    Wrapper = {w1, w2}
    HealthCheck = {w1}
    MaxFailed = 1
    SlowServer = TRUE
    Plugin = {w2}
    ChanCap = 2
    Nil = Nil
CHECK_DEADLOCK FALSE
INVARIANTS NoStaleProxy
PROPERTIES StopIsFinal RemovedUnpublished WorkerEnds UnhealthyStops

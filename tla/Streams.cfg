SPECIFICATION FairSpec
CONSTANTS
    Clients = {1}
    Keys = {k1, k2}
    MaxRequests = 2
    Commands = {"XADD", "XREAD", "BLPOP", "PING"}
    Timeouts = {1}
    MaxPush = 1
    MaxItems = 0
    MaxEntries = 1
    MaxConns = 1
    MaxTime = 1
INVARIANTS TypeOK TasksAreFulfillable
PROPERTIES CycleEnds RegisteredTimerFires
CHECK_DEADLOCK FALSE

SPECIFICATION FairSpec
CONSTANTS
    Clients = {1}
    Keys = {k1}
    MaxRequests = 2
    Commands = {"BLPOP"}
    Timeouts = {1}
    MaxPush = 1
    MaxItems = 0
    MaxEntries = 0
    MaxConns = 1
    MaxTime = 2
PROPERTY TimedRequestIsAnswered
CHECK_DEADLOCK FALSE

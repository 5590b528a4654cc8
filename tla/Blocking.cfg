SPECIFICATION Spec
CONSTANTS
    Clients = {1, 2}
    Keys = {k1}
    MaxRequests = 3
    Commands = {"RPUSH", "LPUSH", "LPOP", "BLPOP", "SET"}
    Timeouts = {1}
    MaxPush = 2
    MaxItems = 2
    MaxEntries = 0
    MaxConns = 2
    MaxTime = 2
INVARIANTS StoreIsIndexed IndexIsLiveUnlessCollided NoEmptyQueue TimerCoversUnlessCollided
    AnsweredAtMostOnce FlaggedMeansMatched ItemsAreConserved
PROPERTIES OldestWaiterFirst ImplementsBlockedRequests
CHECK_DEADLOCK FALSE

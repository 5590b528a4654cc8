SPECIFICATION Spec
CONSTANTS
    Clients = {1, 2}
    MaxConns = 2
    Keys = {k1, k2}
    Watched = {k1}
    Ops = {"push", "pop", "write", "refused", "blpop", "zwrite", "read", "multi", "unwatch"}
    QueuedOps = {"push", "multi"}
    MaxQueue <- TwoAndNone
    MaxItems = 1
    MaxWaiting = 1
INVARIANTS DirtyWhenChanged ExecRunsWhatWasSent
PROPERTIES ExecOnlyIfUnchanged
CHECK_DEADLOCK FALSE

SPECIFICATION Spec
CONSTANTS
    ch1 = ch1
    ch2 = ch2
    Clients = {1, 2, 3}
    MaxConns = 3
    Channels <- MCChannels
    Subscriptions <- DistinctLists
    MaxMessages = 2
INVARIANTS CountIsTruthful MessagesReachSubscribers
CHECK_DEADLOCK FALSE

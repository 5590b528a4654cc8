SPECIFICATION IdsSpec
CONSTANTS
    MaxTime = 2
    U64_MAX = 2
    MaxAdds = 5
INVARIANTS EntriesAreKept ConsumerMissesNothing XrangeAgreesWithXread
CHECK_DEADLOCK FALSE

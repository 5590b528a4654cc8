SPECIFICATION Spec
CONSTANTS
    Clients = {c1, c2}
    Replicas = {r1, r2}
    WriteBytes = 27
    AckBytes = 37
    Required = {2}
    MaxWrites = 2
    MaxWaits = 2
SYMMETRY NodeSymmetry
INVARIANTS StreamIsComplete ReceivesAsExpected CountedHasReached CountedOnce WaitingIsParked
CHECK_DEADLOCK FALSE

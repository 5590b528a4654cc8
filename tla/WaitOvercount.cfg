SPECIFICATION Spec
CONSTANTS
    Clients = {c1, c2}
    Replicas = {r1}
    WriteBytes = 27
    AckBytes = 37
    Required = {1}
    MaxWrites = 2
    MaxWaits = 3
SYMMETRY NodeSymmetry
INVARIANTS WaitCountsCaughtUp
CHECK_DEADLOCK FALSE

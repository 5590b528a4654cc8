SPECIFICATION Spec
CONSTANTS
    Numbers <- MCNumbers
    Requests <- MCRequests
    BitsOfByte <- MCBits
    I64_MAX = 2
    Clients = {1}
    Snapshots <- NoSnapshot
    CAPACITY = 2
    DiskFull = TRUE
    MaxLog = 3
    MaxWaiting = 2
    MaxCrashes = 2
INVARIANT LogDescribesData

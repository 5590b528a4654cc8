SPECIFICATION Spec
CONSTANTS
    Numbers <- MCNumbers
    Requests <- MCRequests
    BitsOfByte <- MCBits
    I64_MAX = 2
    Clients = {1}
    Snapshots <- MCSnapshots
    CAPACITY = 2
    DiskFull = FALSE
    MaxLog = 3
    MaxWaiting = 2
    MaxCrashes = 2
INVARIANTS LogDescribesData
PROPERTIES LogIsDurable

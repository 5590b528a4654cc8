SPECIFICATION Spec
CONSTANTS
    Numbers <- MCNumbers
    Requests <- MCRequests
    BitsOfByte <- MCBits
    I64_MAX = 3
    Offsets = {0, 1, 7, 8, 15, 16}
    StartTime = 1700000
    MaxTicks = 2
    MaxItems = 3
INVARIANTS RefusedChangesNothing RangeIsSlice BitsAreIndependent BitopIsPointwise PxExpiresOnTime

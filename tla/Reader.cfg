SPECIFICATION Spec
CONSTANTS
    Numbers <- MCNumbers
    Streams <- Messages
    BUFFER_SIZE = 40
INVARIANTS HandledAsSent WithheldOnlyAtBulkEnd
PROPERTIES ReadReturns
CHECK_DEADLOCK FALSE

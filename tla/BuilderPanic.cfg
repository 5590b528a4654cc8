SPECIFICATION Spec
CONSTANTS
    Numbers <- MCNumbers
    Streams <- GeodistShapes
    BUFFER_SIZE = 40
PROPERTIES ReadReturns
CHECK_DEADLOCK FALSE

SPECIFICATION Spec
CONSTANTS
    FrameType = 1073742054
    MaxString = 3
    MaxMessages = 2
    Headers <- MCHeaders
    Inputs <- MCInputs
INVARIANTS DeliveredAsSent EndIsTrue PanicOnUnknownTypeOnly
PROPERTY ReaderEnds
CHECK_DEADLOCK FALSE

SPECIFICATION Spec
CONSTANTS
    GoCodes = {3}
    RustCodes = {0, 3}
    Killed = Killed
    TooLong = TooLong
    None = None
    Unused = Unused
    GoPipeSize = 1
    RustPipeSize = 1
    InputSize = 1
    MaxOutput <- MCMaxOutput
    GoMaxMessages = 2
    RustMaxMessages = 3
INVARIANTS OutputBeforeStatus StatusIsTrue ClosedAfterStatus
PROPERTIES StatusIsSent WaitEnds
CHECK_DEADLOCK FALSE

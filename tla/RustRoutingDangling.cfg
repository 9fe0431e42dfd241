CONSTANTS
    Channels = {c1, c2}
    None = None
    QueueSize = 1
    DanglingSize = 2
    MaxDatagrams = 3
SPECIFICATION Spec
INVARIANT DanglingDatagramsAreKept
CHECK_DEADLOCK FALSE

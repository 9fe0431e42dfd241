SPECIFICATION BothSpec
CONSTANTS
    Channels = {c1, c2}
    None = None
    QueueSize = 1
    DanglingSize = 2
    MaxDangling = 1
    MaxDatagrams = 3
INVARIANTS OneHome RustInOrder
PROPERTIES RouterProgress ImplementsDelivery RouterStuckOnlyOnReplacedQueue
CHECK_DEADLOCK FALSE

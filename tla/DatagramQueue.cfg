CONSTANTS
    Capacity = 2
    MaxDatagrams = 5
SPECIFICATION Spec
INVARIANTS NoLostWakeup NeverBothParked
PROPERTY ImplementsFifo
CHECK_DEADLOCK FALSE

SPECIFICATION WriteSpec
CONSTANTS
    PacketSizes = {0, 2, 3, 4, 5, 10, 11, 63, 64, 66, 67, 68, 70, 75, 137, 139, 300, 16387, 16390, 16394, 16408, 30000, 16777216, 16777217}
    DataSizes = {0, 1, 2, 53, 54, 63, 64, 65, 70, 130, 300, 2000, 16384, 16400, 30000}
INVARIANTS GoPacketBounded OverrunBounded
PROPERTY Finishes
CHECK_DEADLOCK FALSE

SPECIFICATION BothSpec
CONSTANTS
    Writers = {w1, w2}
    Tasks = {main, stdin, signal}
    Main = main
    Eager = {main}
    NoOne = NoOne
    HeaderLen = 2
    MaxMessages = 2
    MaxWrites = 2
    MaxTaskWrites = 1
INVARIANTS HeaderFirst Serialized
PROPERTY WritesReturn
CHECK_DEADLOCK FALSE

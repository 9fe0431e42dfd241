SPECIFICATION Spec
CONSTANTS
    Writers = {main, signal}
    Main = main
    Eager = {main, signal}
    NoOne = NoOne
    HeaderLen = 2
    MaxMessages = 2
    MaxWrites = 1
INVARIANT HeaderFirst
CHECK_DEADLOCK FALSE

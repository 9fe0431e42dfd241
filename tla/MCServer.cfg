SPECIFICATION Spec
CONSTANTS
    None = None
    s1 = s1
    s2 = s2
    s3 = s3
    Streams = {s1, s2, s3}
    Assignments <- MCAssignments
    QueueSize = 1
    MaxData <- MCMaxData
    MaxDatagrams <- MCMaxDatagrams
INVARIANTS FinMeansAll
PROPERTIES StreamsAreServed ConversationEnds
CHECK_DEADLOCK FALSE

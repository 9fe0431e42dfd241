SPECIFICATION Spec
CONSTANTS
    k1 = k1
    k2 = k2
    v1 = v1
    v2 = v2
    s1 = s1
    s2 = s2
    Conns = {k1, k2}
    Convs = {v1, v2}
    Streams = {s1, s2}
    Sessions = {s1}
    On <- MCOn
    To <- MCTo
    MaxOpened = 4
    None = None
INVARIANTS ClosedServerServesNobody AdmittedAfterReply NoLostChannel
PROPERTIES ServerStops ConversationsAreRemoved
CHECK_DEADLOCK FALSE

SPECIFICATION Spec
CONSTANTS
    None = None
    p1 = p1
    p2 = p2
    Procs = {p1, p2}
    Configs <- MCConfigs
PROPERTIES AgentAnswers ClientEnds AgentForwardingEnds
CHECK_DEADLOCK FALSE

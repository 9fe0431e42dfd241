SPECIFICATION Spec
CONSTANTS
    None = None
    a1 = "a1"
    a2 = "a2"
    Addrs = {"a1", "a2"}
    Lifetime = 2
    MaxNow = 3
    Accounts <- MCAccounts
    Worlds <- MCWorlds
INVARIANTS AdmittedIsEntitled VerdictAgrees NoStreamRejected
PROPERTIES EntitledIsAdmitted UnreachableCannotStall ConnectEnds
CHECK_DEADLOCK FALSE

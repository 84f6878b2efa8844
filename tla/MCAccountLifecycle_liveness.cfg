\* One account and the one that administers it, under fairness.
SPECIFICATION FairSpec
CONSTANTS
    Users = {u1, u2}
    Targets = {u1}
    MaxInflight = 1
    MaxFaults = 2
CHECK_DEADLOCK FALSE
PROPERTIES
    PendingLocksOut
    CancelRestores
    DispatchedEnds

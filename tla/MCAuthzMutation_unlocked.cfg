\* Two requests over one relationship; the context of one ends.
SPECIFICATION Spec
CONSTANTS
    Procs = {p1, p2}
    p1 = p1
    Keys = {k1}
    k1 = k1
    Touches <- Overlapping
    NoProc = NoProc
    MaxAttempts = 3
    Faults = {"lost"}
    MaxFaults = 1
INVARIANTS
    CompensatedOnRollback

\* Two requests over two relationships under fairness; one transaction is
\* lost, one process dies or one write is late.
SPECIFICATION FairSpec
CONSTANTS
    Procs = {p1, p2}
    Keys = {k1, k2}
    k1 = k1
    p1 = p1
    Touches <- Overlapping
    NoProc = NoProc
    MaxAttempts = 3
    Faults = {"lost", "crash", "late"}
    MaxFaults = 1
INVARIANTS
    AuthorityAgrees
    SerializedIsExact
PROPERTIES
    CommitIsWritten
    MutationEnds

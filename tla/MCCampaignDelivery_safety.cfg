\* A Campaign run and two workers that keep their deadlines.
SPECIFICATION Spec
CONSTANTS
    CampaignRuns = {c1}
    LegalRuns = {}
    Policies = {}
    PolicyOf <- MCPolicyOf
    UpdateNotices = {}
    Members = {m1, m2}
    Workers = {w1, w2}
    BulkWorkers = {b1}
    NoClaim = NoClaim
    FailureStatuses = {"skipped"}
    LeaseTicks = 4
    ProcessingTicks = 2
    PersistTicks = 1
    DeadlinesKept = TRUE
    MaxFaults = 3
    NoJob = NoJob
    NoRun = NoRun
    v1 = v1
SYMMETRY MCSymmetry
CHECK_DEADLOCK FALSE
INVARIANTS
    TypeOK
    NoParallelSend
    DuplicateNeedsAmbiguity
    AcceptedNotRecordedFailed

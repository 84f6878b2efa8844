\* A legal notice whose target may select nobody later, under fairness.
SPECIFICATION FairSpec
CONSTANTS
    CampaignRuns = {}
    LegalRuns = {l1}
    Policies = {v1}
    PolicyOf <- MCPolicyOf
    UpdateNotices = {}
    Members = {m1}
    Workers = {w1}
    BulkWorkers = {b1}
    NoClaim = NoClaim
    FailureStatuses = {"skipped"}
    LeaseTicks = 3
    ProcessingTicks = 1
    PersistTicks = 1
    DeadlinesKept = TRUE
    MaxFaults = 0
    NoJob = NoJob
    NoRun = NoRun
    v1 = v1
CHECK_DEADLOCK FALSE
PROPERTIES
    ZeroTargetIsSkipped

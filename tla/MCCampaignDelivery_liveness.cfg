\* A legal notice under fairness: two workers that may stall beyond their
\* deadlines, two bulk workers and a bounded number of faults.
SPECIFICATION FairSpec
CONSTANTS
    CampaignRuns = {}
    LegalRuns = {l1}
    Policies = {v1}
    PolicyOf <- MCPolicyOf
    UpdateNotices = {l1}
    Members = {m1}
    Workers = {w1, w2}
    BulkWorkers = {b1, b2}
    NoClaim = NoClaim
    FailureStatuses = {"skipped"}
    LeaseTicks = 3
    ProcessingTicks = 1
    PersistTicks = 1
    DeadlinesKept = FALSE
    MaxFaults = 2
    NoJob = NoJob
    NoRun = NoRun
    v1 = v1
CHECK_DEADLOCK FALSE
INVARIANTS
    SentWasAccepted
PROPERTIES
    LiveClaimIsItsOwners
    RunCompletes

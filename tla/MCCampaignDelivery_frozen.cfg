\* A Campaign run whose target may select more members later.
SPECIFICATION FairSpec
CONSTANTS
    CampaignRuns = {c1}
    LegalRuns = {}
    Policies = {}
    PolicyOf <- MCPolicyOf
    UpdateNotices = {}
    Members = {m1, m2}
    Workers = {w1}
    BulkWorkers = {b1}
    NoClaim = NoClaim
    FailureStatuses = {"skipped"}
    LeaseTicks = 3
    ProcessingTicks = 1
    PersistTicks = 1
    DeadlinesKept = TRUE
    MaxFaults = 2
    NoJob = NoJob
    NoRun = NoRun
    v1 = v1
CHECK_DEADLOCK FALSE
PROPERTIES
    RecipientsFrozen

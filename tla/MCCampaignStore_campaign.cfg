\* Two runs of one Campaign, one after the other, and a legal notice.
SPECIFICATION StoreSpec
CONSTANTS
    CampaignRuns = {c1, c2}
    LegalRuns = {l1}
    Policies = {v1}
    PolicyOf <- MCPolicyOf
    UpdateNotices = {l1}
    Members = {m1, m2}
    Workers = {w1, w2}
    NoClaim = NoClaim
    FailureStatuses = {"skipped", "permanent_failed"}
    LeaseTicks = 2
    v1 = v1
SYMMETRY MCSymmetry
CHECK_DEADLOCK FALSE
INVARIANTS
    CampaignAgreesWithRuns
    PendingOnlyWhileSending
    ResultMatchesRecipients
    CountersMatchRows
PROPERTIES
    ResultsAreFinal
    ImplementsContract

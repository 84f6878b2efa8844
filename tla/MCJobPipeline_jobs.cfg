\* Two replicas and one due request under fairness.
SPECIFICATION FairSpec
CONSTANTS
    Replicas = {r1, r2}
    MaxFaults = 2
    Items = {m1}
    NoItem = NoItem
    MaxRetries = 1
    Nobody = Nobody
    Orphan = Orphan
    Pooled = Pooled
INVARIANTS
    LeadershipIsHeld
    DispatchedOnce
    OneHandler
    DeadLetterIsEarned
PROPERTIES
    DueIsSettled
    LeaderReturns
    ImplementsJobContract

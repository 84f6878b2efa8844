\* One File, a rendered asset, two requests and the cleanup job.
SPECIFICATION Spec
CONSTANTS
    Files = {f1}
    Assets = {a1, a2, r1}
    Rendered = {r1}
    OwnerSlots = {s1, s2}
    ContentSlots = {k1}
    Requests = {q1, q2}
    Cleaners = {c1}
    MaxFaults = 1
    None = None
SYMMETRY Symmetry
CHECK_DEADLOCK FALSE
INVARIANTS
    BoundIsReady
    RowsAgreeWithBucket
    OneLiveAsset
    DeletedFileIsWithdrawn
PROPERTIES
    ImplementsAssetContract

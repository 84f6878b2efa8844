\* Two accounts; fenced flows may fail after any external call.
SPECIFICATION Spec
CONSTANTS
    Users = {u1, u2}
    Targets = {u1, u2}
    MaxInflight = 1
    MaxFaults = 1
SYMMETRY MCSymmetry
CHECK_DEADLOCK FALSE
INVARIANTS
    AnAdminRemains
    DispatchIsFinal
    DeletedOnceRecorded
    AuthoritiesEndInOrder
    HalfDeletedIsResumed
PROPERTIES
    DriftStaysVisible
    BanFailsClosed
    DeletionNeverReverts

\* Two accounts; a ban may be lifted while the account's deletion is queued.
SPECIFICATION Spec
CONSTANTS
    Users = {u1, u2}
    Targets = {u1, u2}
    MaxInflight = 1
    MaxFaults = 0
SYMMETRY MCSymmetry
CHECK_DEADLOCK FALSE
INVARIANTS
    LastAdminIsKept

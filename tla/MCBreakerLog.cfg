CONSTANTS
    None = None
    Blank = Blank
    MaxEpoch = 3
    Processes = {p1, p2}
    Calls <- MCCalls
    Times = {0, 1}
    MaxStoredEpoch = 2
    MaxReloads = 1
    MaxRevision = 4
    MaxDamage = 1
SYMMETRY MCSymmetry
SPECIFICATION Spec
INVARIANTS
    HoldsTheHead
    StoredStateIsRestorable
PROPERTIES
    KeepsPromise
CHECK_DEADLOCK FALSE

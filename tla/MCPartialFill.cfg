CONSTANTS
    l1 = l1
    l2 = l2
    Legs = {l1, l2}
    CreatedAt = 1
    ExpiresAt = 3
    Moments = {1}
SPECIFICATION Spec
INVARIANT PartialFillsCommit
CHECK_DEADLOCK FALSE

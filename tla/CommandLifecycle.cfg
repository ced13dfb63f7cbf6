CONSTANTS
    CreatedAt = 1
    ExpiresAt = 3
    MaxTime = 3
    Owners = {o1}
SPECIFICATION Spec
INVARIANTS
    ValidatorAgrees
PROPERTIES
    NeverRegresses
    EvidenceNeverLost
CHECK_DEADLOCK FALSE

CONSTANTS
    c1 = c1
    r1 = r1
    r2 = r2
    Workers = {w1, w2}
    Commands = {c1}
    Subjects = {c1, r1, r2}
    RequestOf <- MCRequestOf
    Bound <- MCBound
    MaxGeneration = 3
SPECIFICATION Spec
INVARIANTS
    AtMostOneGenerationLeaves
    DispatchedMeansWritten
    ExpiredNeverLeaves
    NoCommandAbandoned
    UnconfirmedIsReconciled
CHECK_DEADLOCK FALSE

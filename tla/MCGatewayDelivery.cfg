\* Two workers on one message (a lease ran out under its owner), two sessions of
\* one client.
SPECIFICATION Spec
SYMMETRY MCSymmetry
CONSTANTS
    k1 = k1
    Workers = {w1, w2}
    Subjects = {c1}
    Commands = {c1}
    MaxGeneration = 1
    Sessions = {x1, x2}
    ClientOf <- MCOneClient
    MaxInflight = 1
INVARIANTS
    ReplayMatrixIsTotal
    HandedOverOnce
    OneSessionPerRoute
PROPERTY
    ImplementsPort
CHECK_DEADLOCK FALSE

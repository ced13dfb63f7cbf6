\* Two commands compete for the window of one command that a session has.
SPECIFICATION Spec
SYMMETRY MCSymmetry
CONSTANTS
    k1 = k1
    Workers = {w1}
    Subjects = {c1, c2}
    Commands = {c1, c2}
    MaxGeneration = 1
    Sessions = {x1}
    ClientOf <- MCOneClient
    MaxInflight = 1
INVARIANTS
    InflightIsBounded
CHECK_DEADLOCK FALSE

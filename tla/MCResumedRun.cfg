\* A run opened by a resumed session.
SPECIFICATION FairSystemSpec
CONSTANTS
    c1 = c1
    r1 = r1
    k1 = k1
    Workers = {w1}
    Subjects = {r1}
    Commands = {}
    RequestOf <- MCNoRequests
    Bound <- MCBound
    MaxGeneration = 2
    Sessions = {x1}
    ClientOf <- MCClientOf
    MaxInflight = 1
    MaxFaults = 1
PROPERTIES
    SupersededWorkEnds
CHECK_DEADLOCK FALSE

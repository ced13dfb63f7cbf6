\* The refinement, and liveness.
SPECIFICATION FairSystemSpec
CONSTANTS
    c1 = c1
    r1 = r1
    k1 = k1
    Workers = {w1}
    Subjects = {c1, r1}
    Commands = {c1}
    RequestOf <- MCRequestOf
    Bound <- MCCommandsBound
    MaxGeneration = 2
    Sessions = {x1}
    ClientOf <- MCClientOf
    MaxInflight = 1
    MaxFaults = 1
PROPERTIES
    ClaimsAreReleased
    EveryCommandIsSettled
    ImplementsOutboundOverPort
CHECK_DEADLOCK FALSE


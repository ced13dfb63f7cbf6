SPECIFICATION RebuildSpec
CONSTANTS
    a = a
    s = s
    p = p
    o = o
    b = b
    x = x
    y = y
    c1 = c1
    Account = a
    Symbols = {s}
    Positions = {p}
    Orders = {o}
    Bar = b
    Values = {x, y}
    Nothing = Nothing
    Times = {1, 2}
    Ids = {1, 2, 3, 4, 5, 6, 7, 8, 9, 10, 11, 12, 13, 14, 15}
    ChangeTimes = {2}
    Escalations <- MCEscalations
    MaxEvents = 3
    Facts <- MCFacts
    Requests = {1, 2, 3}
    Commands = {c1}
    Target <- MCTarget
    Routed = {3}
    OnRoute = {c1}
    CommandOf <- MCCommandOf
    Answers <- MCAnswers
    OpenedAt <- MCOpenedAt
    Ticks <- MCTicks
INVARIANTS
    LatestIsNewest
    RedeliveryIsHarmless
    StoredReadsBack
    RebuildReproducesTables
PROPERTIES
    RunsOnlyAdvance
    WatermarksNeverRegress
CHECK_DEADLOCK FALSE

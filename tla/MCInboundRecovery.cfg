CONSTANTS
    Messages = {1, 2}
    Silent = {2}
    Hellos = {11}
    Sessions = {1}
    MaxSequence = 2
    MaxStamp = 1
    Workers = {w1}
    WorkerId <- MCSameId
    BatchSize = 2
    MaxFaults = 1
SPECIFICATION FairSpec
INVARIANTS
    AnswersAreDurable
    DeadlettersExplainFailures
    SessionOrder
PROPERTIES
    InboxSpec
    StoredIsFinished
CHECK_DEADLOCK FALSE

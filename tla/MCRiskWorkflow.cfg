SPECIFICATION Spec
CONSTANTS
    Intents <- MCIntents
    Symbols <- MCSymbols
    Action <- MCAction
    LegsOf <- MCLegsOf
    SymbolsNamed <- MCSymbolsNamed
    RequestedAt <- MCRequestedAt
    SignalExpiresAt <- MCSignalExpiresAt
    Metadata <- MCMetadata
    Routes <- MCRoutes
    Policy <- MCPolicy
    Ties = FALSE
    Schedule <- MCSchedule
    MaxTime = 4
    MaxReports = 1
    MaxCapacities = 3
INVARIANTS
    
    OnePlanPerSymbol
    SizingIsLargest
PROPERTIES
    ApprovalsFitTheBroker
CHECK_DEADLOCK FALSE

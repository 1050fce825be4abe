SPECIFICATION Spec
CONSTANTS
    Tiers = {4, 8, 16}
    MaxPhysicalContext = 16
    SafetyMargin = 1
    VisibleReserveNoTools = 1
    VisibleReserveWithTools = 2
    BackendCap <- NoCap
    IdleDemote = 3
    MinInterval = 2
    PressureThreshold = 9
    StreakNeeded = 2
    PostCompactionCalls = {TRUE, FALSE}
    InitialContexts = {16}
    ManualContexts = {6}
    Prompts = {1, 6, 9}
    Limits = {0, 3, 15}
    Reasonings = {2}
    MaxTime = 5
INVARIANTS
    FitsServedTier
    BudgetHonoured
PROPERTY NoFlapping

SPECIFICATION FairSpec
CONSTANTS
    m1 = m1
    h1 = h1
    h2 = h2
    Tiers = {1, 2, 3}
    Handler = Handler
    Monitors = {m1}
    Helpers = {h1, h2}
    FaultKinds = {"crash", "load", "abandon"}
    MaxFaults = 2
    InitialPhases = {"down", "up"}
    SlowStarts = FALSE
INVARIANTS
    GeneratesAtTarget
    OneRestartAtATime
    EnsuredServerStays
PROPERTIES
    NoWorkIsKilled
    ServedOnceFaultsStop

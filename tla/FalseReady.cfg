SPECIFICATION Spec
CONSTANTS
    m1 = m1
    h1 = h1
    h2 = h2
    Tiers = {1, 2}
    Handler = Handler
    Monitors = {}
    Helpers = {h1}
    FaultKinds = {}
    MaxFaults = 0
    InitialPhases = {"loading"}
    SlowStarts = FALSE
INVARIANT EnsuredServerStays

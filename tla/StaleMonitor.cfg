SPECIFICATION Spec
CONSTANTS
    m1 = m1
    h1 = h1
    h2 = h2
    Tiers = {1, 2}
    Handler = Handler
    Monitors = {m1}
    Helpers = {h1}
    FaultKinds = {}
    MaxFaults = 0
    InitialPhases = {"up"}
    SlowStarts = FALSE
INVARIANT PolicyUsesActualContext

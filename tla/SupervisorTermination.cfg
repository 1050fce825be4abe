SPECIFICATION FairSpec
CONSTANTS
    m1 = m1
    h1 = h1
    h2 = h2
    Tiers = {1, 2}
    Handler = Handler
    Monitors = {}
    Helpers = {h1, h2}
    FaultKinds = {"crash", "load", "helper", "spawn", "abandon", "probe"}
    MaxFaults = 2
    InitialPhases = {"down", "loading", "up"}
    SlowStarts = TRUE
PROPERTY RequestEnds

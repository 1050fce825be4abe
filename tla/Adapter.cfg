SPECIFICATION MCSpec
CONSTANTS
    r1 = r1
    r2 = r2
    p1 = p1
    p2 = p2
    p3 = p3
    c1 = c1
    m1 = m1
    m2 = m2
    Routes = {r1, r2}
    Catalog = {r2}
    Profiles = {p1, p2, p3}
    NameOf <- MCNameOf
    RetryOf <- MCRetryOf
    Absent = Absent
    Calls = {c1}
    Collections = {m1, m2}
    MaxBlocks = 1
INVARIANTS
    RegistryKeepsUp
    DirectoryKeepsUp
    OneSettingsPerCall
    NoLateChunk
    NothingLeftOpen
PROPERTIES
    EndsWithFinish
    EveryCallEnds

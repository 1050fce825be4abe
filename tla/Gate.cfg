SPECIFICATION FairSpec
CONSTANTS
    t1 = t1
    t2 = t2
    t3 = t3
    t4 = t4
    Threads = {t1, t2, t3, t4}
    Capacity = 2
    MaxTickets = 5
    Nobody = Nobody
INVARIANTS
    TypeOK
    MutualExclusion
    NoLostWakeup
PROPERTIES
    FirstComeFirstServed
    EveryWaiterLeaves
    GoneWaiterLeaves
    ImplementsFifoSlot

SPECIFICATION Spec
CONSTANTS
    t1 = t1
    t2 = t2
    t3 = t3
    Threads = {t1}
    Capacity = 1
    Nobody = Nobody
    Kinds = {"chat"}
PROPERTY EveryRequestAnswered

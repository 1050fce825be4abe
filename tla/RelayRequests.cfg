SPECIFICATION FairSpec
CONSTANTS
    t1 = t1
    t2 = t2
    t3 = t3
    Threads = {t1, t2, t3}
    Capacity = 1
    Nobody = Nobody
    Kinds = {"chat", "post", "get", "getWithBody", "monitor"}
INVARIANTS
    SlotFollowsHandler
    AtMostOnce
PROPERTY StalledUploadBlocksNobody

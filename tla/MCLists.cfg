CONSTANTS
    Idle = Idle
    NULL = NULL
    t1 = t1
    t2 = t2
    t3 = t3
    t4 = t4
    t5 = t5
    Task <- MCTask
    Hdr = 2
    Sizes = {0, 1, 4}
    HeapEnd = 17
SPECIFICATION ListsSpec
INVARIANTS
    ListsMatchStates
    LinksAgree
    FreeBlocksMerged
    BlocksMatchCallers
PROPERTIES
    ImplementsQueues
    ImplementsAllocator

CONSTANTS
    LastCluster = 4
    Sec = 2
    RootSlots = 2
    DirSlots = 1
    Name = {a, b}
    a = a
    b = b
    Data <- MCByte
    Offsets = {}
    MaxSize = 2
SPECIFICATION Spec
INVARIANT EveryWriteLands
CHECK_DEADLOCK FALSE

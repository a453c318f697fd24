CONSTANTS
    LastCluster = 4
    Sec = 2
    RootSlots = 2
    DirSlots = 1
    Name = {a, b}
    a = a
    b = b
    Data <- MCData
    Offsets = {0, 2}
    MaxSize = 3
SPECIFICATION Spec
SYMMETRY NameSymmetry
VIEW View
INVARIANTS
    ChainsIntact
    NoClusterLost
    FilesReadBack
CHECK_DEADLOCK FALSE

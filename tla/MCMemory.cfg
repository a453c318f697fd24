CONSTANTS
    Proc = {p1, p2}
    LastFrame = 20
    HeapBase = 16
    MaxHeapPages = 2
    PageSize = 2
    Space = 20
    PerTable = 2
    HeapStart = 2
    MaxBrk = 8
    StackLow = 6
    KernelPage = 9
    Images <- MCImages
    Increments <- MCIncrements
SPECIFICATION Spec
INVARIANTS
    FramesPrivate
    BreakBacked
    SoundWhileFramesLast
PROPERTY DataStays
SYMMETRY Symmetry
CHECK_DEADLOCK FALSE

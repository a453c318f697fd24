CONSTANTS
    MaxTasks = 4
    TimeSlice = 2
    RingCap = 2
SPECIFICATION FairSpec
INVARIANTS
    TypeOK
    QueuesMatchStates
    IdleCanRun
    OneForeground
    NoLostWakeup
    ExitWakesParent
    ForegroundChain
PROPERTIES
    ExecReturnsOnChildExit
    ImplementsForeground
    ReadyRuns
    ReaderServed
CHECK_DEADLOCK FALSE

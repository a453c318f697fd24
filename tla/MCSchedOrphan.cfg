CONSTANTS
    MaxTasks = 3
    TimeSlice = 1
    RingCap = 1
SPECIFICATION Spec
INVARIANT WaitingHasLiveChild
CHECK_DEADLOCK FALSE

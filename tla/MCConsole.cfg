CONSTANTS
    BufSize = 3
    MaxTasks = 1
    TimeSlice = 1
    MaxCount = 2
    Key <- MCKey
    KbdUs <- MCKbdUs
    KbdUsShift <- MCKbdUsShift
SPECIFICATION Spec
VIEW View
INVARIANTS
    TypeOK
PROPERTIES
    ImplementsSched
    ImplementsStream
CHECK_DEADLOCK FALSE

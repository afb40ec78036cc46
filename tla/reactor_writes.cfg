SPECIFICATION Spec
CONSTANTS
    MaxConns = 2
    Acts <- MCActs
    Threads = {w1}
    MaxTasks = 1
    NoAct = NoAct
    MaxFrames = 2
    ClientsMayClose = TRUE
    NoConn = NoConn
INVARIANTS
    TypeOK
    NoLostWrites
    NoSleepOnTasks
PROPERTIES
    FramesLeave
CHECK_DEADLOCK FALSE

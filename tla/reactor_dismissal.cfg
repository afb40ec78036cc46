SPECIFICATION Spec
CONSTANTS
    MaxConns = 2
    Acts <- MCActs
    Threads = {w1, w2}
    MaxTasks = 1
    NoAct = NoAct
    MaxFrames = 1
    ClientsMayClose = FALSE
    NoConn = NoConn
PROPERTIES
    DismissedAreClosed
CHECK_DEADLOCK FALSE

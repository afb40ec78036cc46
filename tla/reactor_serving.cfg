SPECIFICATION Spec
CONSTANTS
    MaxConns = 2
    Acts <- MCActs
    Threads = {w1, w2}
    MaxTasks = 1
    NoAct = NoAct
    MaxFrames = 2
    ClientsMayClose = FALSE
    NoConn = NoConn
INVARIANTS
    KeepsServing
CHECK_DEADLOCK FALSE

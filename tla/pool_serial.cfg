SPECIFICATION PoolSpec
CONSTANTS
    Acts = {a1, a2, a3}
    Threads = {w1, w2}
    MaxTasks = 2
    NoAct = NoAct
INVARIANTS
    PoolTypeOK
    OneJobPerAct
PROPERTIES
    TasksAreSerial
CHECK_DEADLOCK FALSE

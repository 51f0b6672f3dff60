SPECIFICATION FairSpec
CONSTANTS
    Proc = {idle, init, a}
    Idle = idle
    InitProc = init
    SchedTimer = SchedTimer
    NULL = NULL
    PROC_TABLE_SIZE = 3
    MaxPermits = 0
    NullRootWorks = TRUE
PROPERTIES
    RoundRobin

SPECIFICATION Spec
CONSTANTS
    Proc = {idle, init, a, b, c}
    Idle = idle
    InitProc = init
    SchedTimer = SchedTimer
    NULL = NULL
    PROC_TABLE_SIZE = 4
    MaxPermits = 2
    NullRootWorks = FALSE
SYMMETRY Objects
PROPERTIES
    StartsOnInit

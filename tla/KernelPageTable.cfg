SPECIFICATION Spec
CONSTANTS
    Proc = {idle, init, a, b}
    Idle = idle
    InitProc = init
    SchedTimer = SchedTimer
    NULL = NULL
    PROC_TABLE_SIZE = 4
    MaxPermits = 1
    NullRootWorks = TRUE
SYMMETRY Objects
INVARIANTS
    OwnsPageTable

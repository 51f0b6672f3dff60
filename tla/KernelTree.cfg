SPECIFICATION TreeSpec
CONSTANTS
    Proc = {idle, init, a, b, c}
    Idle = idle
    InitProc = init
    SchedTimer = SchedTimer
    NULL = NULL
    PROC_TABLE_SIZE = 5
    MaxPermits = 0
    NullRootWorks = TRUE
SYMMETRY Objects
VIEW TreeView
INVARIANTS
    TreeAcyclic
    TreeConsistent
    TableConsistent
    WaiterGetsItsZombie
    WaiterHasLiveChild
PROPERTIES
    ZombieCollectedByParent

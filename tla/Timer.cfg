SPECIFICATION FairSpec
CONSTANTS
    Timer = {s, t1, t2}
    SchedTimer = s
    Ns = {0, 3, 4, 9, 31}
    Slice = 4
    NsPerTick = 2
    TIME_MAX = 31
    MaxNow = 6
INVARIANTS
    TypeOK
    QueueSorted
    ArmedForFirst
PROPERTIES
    NeverEarly
    DueTimerFires
    ImplementsAlarms

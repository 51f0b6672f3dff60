CONSTANTS
    Tables <- McTables
    HeapPages = {0, 1, 2, 3, 4}
    DRIVER_DEV_CAPACITY = 2
    INTR_ISR_CAPACITY = 2
    TTY_SINK_CAPACITY = 1
    FIFO = 2
    LOG_BUF_SIZE = 4
    MaxMessage = 5
    MaxText = 65
SPECIFICATION LoggedSpec
INVARIANTS
    InterruptsAreServed DependenciesMet MessagesKept
PROPERTIES
    TextIsShown ImplementsLog BootEnds NoPhantomBytes

SPECIFICATION Spec
CONSTANTS
    Reader = {r1, r2}
    Byte = {a, b}
    LF = LF
    CR = CR
    DEL = DEL
    Garbage = Garbage
    NONE = NONE
    TTY_BUF_SIZE = 4
    MaxRead = 2
INVARIANTS
    TypeOK
    PermitsMatchBytes
    EchoMatchesLine
PROPERTIES
    ImplementsLines

CONSTANTS
    Proc = {idle, p1, p2}
    KernProc = {idle}
    ProcObject = {o1, o2}
SPECIFICATION Spec
SYMMETRY Interchangeable
INVARIANTS
    HeapWellFormed
    AddressSpaces MemoryIsImage BuffersReachMemory
    StacksReady
    CallsAsAsked
PROPERTIES
    HeldIsUntouched ResumesAsItWas

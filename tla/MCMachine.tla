----------------------------- MODULE MCMachine -----------------------------
(***************************************************************************)
(* Small instances of four components that share no state: the allocators  *)
(* (Heap), the loader and the memory of processes (Loader), traps (Trap)   *)
(* and the calls that change no process (Calls).  Each behaviour is one of *)
(* a single component, named by part; the variables of the others are 0.   *)
(* Loader is instantiated twice, with small files on heaps of every size,  *)
(* and at its real size with the headers of the init file: KHEAP_SIZE /    *)
(* PAGE_SIZE pages, tables of 512 entries, kernel addresses from           *)
(* BOOT_ENTRY_BASE up.                                                     *)
(***************************************************************************)
EXTENDS InitImage, TLC

CONSTANTS Proc, KernProc,   \* of Trap
          ProcObject        \* Object of Calls

VARIABLES part,
          free_list, block_list, taken, live, written,
          image, pc, m, page_table, seg, offset, contents, kern_stack,
          user_stack, children, heap, objs, mapped,
          curr, at, cpu, csr, word, sp, status, user,
          alive, fds, args, last, power

Allocator == INSTANCE Heap WITH
    NPages <- 3, PAGE_SIZE <- 8, HDR <- 2, NODE <- 1, Sizes <- {1, 3, 6, 7}

Segment(flags, from, to, filesz, memsz) ==
    [type |-> 1, flags |-> flags, offset |-> from, vaddr |-> to,
     filesz |-> filesz, memsz |-> memsz]

Elf(hdrs) ==
    [mag |-> <<127, 69, 76, 70>>, class |-> 2, data |-> 1, version |-> 1,
     type |-> 2, entry |-> 8, prog_hdrs |-> hdrs]

Note == [type |-> 4, flags |-> {"R"}, offset |-> 0, vaddr |-> 0, filesz |-> 1, memsz |-> 1]

(* Two segments of every shape that crosses pages and tables.              *)
Good == {Elf(<<Note, Segment({"R", "X"}, 0, 8, f, n), Segment({"R", "W"}, 20, 24, g, o)>>) :
            f \in {5, 9}, n \in {9}, g \in {0, 3}, o \in {4, 10}}

Bad == {[Elf(<<>>) EXCEPT !.mag[1] = 0], [Elf(<<>>) EXCEPT !.data = 2],
        [Elf(<<>>) EXCEPT !.type = 3]}

Small == INSTANCE Loader WITH
    ENTRIES <- 4, Images <- Good \cup Bad, PAGE_SIZE <- 4, HeapSizes <- 0..25,
    HeapBase <- 36, Trampoline <- 33, ProcsPerPage <- 2, Probes <- 0..3,
    NullMapped <- TRUE

(* Contents are compared at both ends of a page, and at both sides of the  *)
(* ends of the two segments.                                               *)
Real == INSTANCE Loader WITH
    ENTRIES <- 512, Images <- {INIT_ELF}, PAGE_SIZE <- 4096, HeapSizes <- {2045},
    HeapBase <- 524832, Trampoline <- 524801, ProcsPerPage <- 3,
    Probes <- {0, 1, 1871, 1872, 2927, 2928, 3575, 3576, 4095},
    NullMapped <- FALSE

Registers == INSTANCE Trap

Requests == INSTANCE Calls WITH
    Object <- ProcObject, PROC_FD_CAPACITY <- 4, ArgLens <- {0, 7}, MaxArgs <- 2, PAGE_SIZE <- 64,
    PTR <- 8

-----------------------------------------------------------------------------
heapVars   == <<free_list, block_list, taken, live, written>>
loaderVars == <<image, pc, m, page_table, seg, offset, contents, kern_stack,
                user_stack, children, heap, objs, mapped>>
trapVars   == <<curr, at, cpu, csr, word, sp, status, user>>
callVars   == <<alive, fds, args, last, power>>
vars       == <<part, heapVars, loaderVars, trapVars, callVars>>

NoHeap == free_list = 0 /\ block_list = 0 /\ taken = 0 /\ live = 0 /\ written = 0

NoLoader ==
    /\ image = 0 /\ pc = 0 /\ m = 0 /\ page_table = 0 /\ seg = 0 /\ offset = 0
    /\ contents = 0 /\ kern_stack = 0 /\ user_stack = 0 /\ children = 0
    /\ heap = 0 /\ objs = 0 /\ mapped = 0

NoTrap ==
    /\ curr = 0 /\ at = 0 /\ cpu = 0 /\ csr = 0 /\ word = 0 /\ sp = 0
    /\ status = 0 /\ user = 0

NoCalls == alive = 0 /\ fds = 0 /\ args = 0 /\ last = 0 /\ power = 0

Init ==
    \/ part = "heap" /\ Allocator!Init /\ NoLoader /\ NoTrap /\ NoCalls
    \/ part = "small" /\ Small!Init /\ NoHeap /\ NoTrap /\ NoCalls
    \/ part = "real" /\ Real!Init /\ NoHeap /\ NoTrap /\ NoCalls
    \/ part = "trap" /\ Registers!Init /\ NoHeap /\ NoLoader /\ NoCalls
    \/ part = "calls" /\ Requests!Init /\ NoHeap /\ NoLoader /\ NoTrap

Next ==
    /\ \/ part = "heap" /\ Allocator!Next /\ UNCHANGED <<loaderVars, trapVars, callVars>>
       \/ part = "small" /\ Small!Next /\ UNCHANGED <<heapVars, trapVars, callVars>>
       \/ part = "real" /\ Real!Next /\ UNCHANGED <<heapVars, trapVars, callVars>>
       \/ part = "trap" /\ Registers!Next /\ UNCHANGED <<heapVars, loaderVars, callVars>>
       \/ part = "calls" /\ Requests!Next /\ UNCHANGED <<heapVars, loaderVars, trapVars>>
    /\ UNCHANGED part

Spec == Init /\ [][Next]_vars

(* Processes other than idle, and process objects, are interchangeable.    *)
Interchangeable == Permutations(Proc \ KernProc) \cup Permutations(ProcObject)

-----------------------------------------------------------------------------
(* kmalloc, kfree and page_alloc: every address has one owner, objects are *)
(* allocated blocks with room for what was asked, and no two neighbours    *)
(* are free.                                                               *)
HeapWellFormed ==
    part = "heap" =>
        /\ Allocator!TypeOK
        /\ Allocator!NothingLostOrShared
        /\ Allocator!ObjectsAreBlocks
        /\ Allocator!Coalesced

(* No call of an allocator stores into memory that a caller holds, nor     *)
(* kfree into the object it is given, whose pid sys_wait reads afterwards. *)
HeldIsUntouched ==
    [][part = "heap" => Allocator!HeldIsUntouched /\ Allocator!ReadableAfterFree]_vars

(* vm_map_page and vm_virt_to_phys: translation is the map of the mappings *)
(* made, and what is not mapped is no page of another process; elf_load,   *)
(* proc_init and proc_deinit: a page has one owner, also after running out *)
(* of pages half-way.                                                      *)
AddressSpaces ==
    part = "small" =>
        /\ Small!TypeOK
        /\ Small!TablesAreMap
        /\ Small!NoForeignPage
        /\ Small!PagesOwnedOnce

(* elf_load: init loads into the heap the kernel has; its memory is its    *)
(* file, and it starts at a page it may execute.  So do small files, when  *)
(* they load.                                                              *)
MemoryIsImage ==
    /\ part = "small" => Small!MemoryIsImage /\ Small!EntryExecutable
    /\ part = "real" => Real!MemoryIsImage /\ Real!EntryExecutable /\ Real!ImageLoads

(* A buffer of sys_write that crosses pages is read where it is mapped or, *)
(* behind the first page of a table, from a table of the caller; sys_read  *)
(* and sys_wait store into the caller's memory for buffers on its stack,   *)
(* and for others into no memory that is anybody's.                        *)
BuffersReachMemory ==
    /\ part = "small" => Small!BuffersReadFromCaller /\ Small!ResultsStored
    /\ part = "real" => Real!BuffersReadFromCaller /\ Real!ResultsStored

(* trampoline, proc_entry and ctx_sw: sscratch is the end of the running   *)
(* process's own stack, and one that is switched out can be switched to.   *)
StacksReady ==
    part = "trap" =>
        Registers!TypeOK /\ Registers!ScratchIsOwnStack /\ Registers!SavedContext

(* A process leaves the kernel as it entered it, and no kernel stack is    *)
(* stored to while another process is current.                             *)
ResumesAsItWas ==
    [][part = "trap" => Registers!ResumesAsItWas /\ Registers!OwnStackOnly]_vars

(* sys_read and sys_write refuse descriptors that were never opened, the   *)
(* arguments init_stacks gives a process are whole, and sys_reboot does    *)
(* what it was asked for, or hangs.                                        *)
CallsAsAsked ==
    part = "calls" =>
        /\ Requests!TypeOK
        /\ Requests!UnopenedRefused
        /\ Requests!ArgumentsIntact
        /\ Requests!PowerAsAsked
=============================================================================

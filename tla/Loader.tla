------------------------------- MODULE Loader -------------------------------
(***************************************************************************)
(* How the init process gets its memory: kmain loads the ELF file of init  *)
(* (src/elf.c) into a page table, proc_init (src/proc.c) adds its stacks   *)
(* and the trampoline, and from then on other processes take pages for     *)
(* their stacks and give them back, from and to the same free list.        *)
(*                                                                         *)
(* Loading runs before the scheduler starts, with interrupts off; a step   *)
(* is one iteration of the loader's loops.                                 *)
(***************************************************************************)
EXTENDS Vm, FiniteSets

CONSTANTS Images,       \* ELF files the kernel may be built with
          PAGE_SIZE,
          HeapSizes,    \* numbers of pages the heap may have
          HeapBase,     \* number of the first of them, _heap_start >> 12
          Trampoline,   \* page of the trap entry code
          ProcsPerPage, \* process objects kmalloc gets out of a page
          Probes,       \* places in a page at which contents are compared
          NullMapped    \* whether there is memory at physical address 0

VARIABLES image,        \* INIT_ELF
          pc,           \* what kmain does next
          m,            \* free list and page tables
          page_table,   \* load_res->page_table, later proc->page_table
          seg, offset,  \* loop variables of elf_load
          contents,     \* data page -> what elf_load stored in it
          kern_stack, user_stack,
          children,     \* <<kern_stack, user_stack>> of other processes
          heap, objs,   \* kmalloc: pages taken; process objects not freed
          mapped        \* successful calls of vm_map_page on page_table

vars == <<image, pc, m, page_table, seg, offset, contents, kern_stack,
          user_stack, children, heap, objs, mapped>>
loopVars == <<seg, offset>>
heapVars == <<heap, objs>>

HeapPage == UNION {HeapBase..(HeapBase + n - 1) : n \in HeapSizes}

Init ==
    /\ image \in Images
    /\ pc = "elf"
    /\ \E n \in HeapSizes :
          m = [free |-> [i \in 1..n |-> HeapBase + i - 1],
               mem |-> IF NullMapped THEN 0 :> EmptyTable ELSE <<>>]
    /\ page_table = 0 /\ seg = 1 /\ offset = 0
    /\ contents = <<>> /\ mapped = <<>>
    /\ kern_stack = 0 /\ user_stack = 0 /\ children = {}
    /\ heap = {} /\ objs = 0

check_ident(e) == e.mag = <<127, 69, 76, 70>>

(* Mutant: a file for 32-bit machines is expected. *)
check_compat_32(e) == e.class = 1 /\ e.data = 1 /\ e.version = 1

check_compat(e) == e.class = 2 /\ e.data = 1 /\ e.version = 1

(* kmain: a negative result ends in log_panic. *)
Panic == pc' = "panic"

elf_load ==
    LET a == vm_create_page_table(m)
    IN  /\ pc = "elf"
        /\ \/ /\ ~check_ident(image) \/ ~check_compat(image) \/ image.type # 2
              /\ Panic
              /\ UNCHANGED <<m, page_table>>
           \/ /\ check_ident(image) /\ check_compat(image) /\ image.type = 2
              /\ m' = a.m /\ page_table' = a.page
              /\ IF a.page = 0 THEN Panic ELSE pc' = "load"
        /\ UNCHANGED <<image, loopVars, contents, kern_stack, user_stack, children,
                       heapVars, mapped>>

prog_hdr == image.prog_hdrs[seg]

Lesser(a, b) == IF a < b THEN a ELSE b

(* Mutant: every page gets the start of the segment. *)
Loaded_FromStart(hdr, off) ==
    [from |-> hdr.offset,
     count |-> IF off < hdr.filesz THEN Lesser(hdr.filesz - off, PAGE_SIZE) ELSE 0]

(* What a page holds: count bytes of the file from place from, then zeros. *)
Loaded(hdr, off) ==
    [from |-> hdr.offset + off,
     count |-> IF off < hdr.filesz THEN Lesser(hdr.filesz - off, PAGE_SIZE) ELSE 0]

AddMapping(v, phys, flags) ==
    (v :> [phys |-> phys,
           flags |-> flags \cup (IF v \in DOMAIN mapped THEN mapped[v].flags ELSE {})]) @@ mapped

(* One iteration of the loop over the pages of a segment. *)
load_page ==
    LET a == page_alloc(m)
        v == (prog_hdr.vaddr + offset) \div PAGE_SIZE
        flags == prog_hdr.flags \cup {"U"}
        b == vm_map_page(a.m, page_table, v, a.page, flags)
    IN  /\ pc = "load" /\ seg <= Len(image.prog_hdrs)
        /\ prog_hdr.type = 1 /\ offset < prog_hdr.memsz
        /\ IF a.page = 0
           THEN /\ Panic
                /\ UNCHANGED <<m, offset, contents, mapped>>
           ELSE /\ m' = b.m
                /\ contents' = (a.page :> Loaded(prog_hdr, offset)) @@ contents
                /\ IF b.res < 0 THEN Panic /\ UNCHANGED <<offset, mapped>>
                   ELSE /\ offset' = offset + PAGE_SIZE
                        /\ mapped' = AddMapping(v, a.page, flags)
                        /\ UNCHANGED pc
        /\ UNCHANGED <<image, page_table, seg, kern_stack, user_stack, children, heapVars>>

(* The end of that loop, or a header that is not PT_LOAD. *)
next_segment ==
    /\ pc = "load" /\ seg <= Len(image.prog_hdrs)
    /\ prog_hdr.type # 1 \/ offset >= prog_hdr.memsz
    /\ seg' = seg + 1 /\ offset' = 0
    /\ UNCHANGED <<image, pc, m, page_table, contents, kern_stack, user_stack,
                   children, heapVars, mapped>>

(* init_stacks: both pages are asked for before either is tested. *)
Stacks(n) ==
    LET a == page_alloc(n)
        b == page_alloc(a.m)
    IN  [m |-> b.m, kern |-> a.page, user |-> b.page]

(* Mutant: user code may enter the trampoline. *)
MapStacks_OpenTrampoline(n, t, kern, user) ==
    LET a == vm_map_page(n, t, Trampoline, Trampoline, {"R", "X", "U"})
        b == vm_map_page(a.m, t, kern, kern, {"R", "W"})
        c == vm_map_page(b.m, t, user, user, {"R", "W", "U"})
    IN  IF a.res < 0 THEN a ELSE IF b.res < 0 THEN b ELSE c

(* Mutant: the user stack is mapped where the kernel stack is. *)
MapStacks_OnePage(n, t, kern, user) ==
    LET a == vm_map_page(n, t, Trampoline, Trampoline, {"R", "X"})
        b == vm_map_page(a.m, t, kern, kern, {"R", "W"})
        c == vm_map_page(b.m, t, user, kern, {"R", "W", "U"})
    IN  IF a.res < 0 THEN a ELSE IF b.res < 0 THEN b ELSE c

(* The three mappings of proc_init in table t, up to the first that fails. *)
MapStacks(n, t, kern, user) ==
    LET a == vm_map_page(n, t, Trampoline, Trampoline, {"R", "X"})
        b == vm_map_page(a.m, t, kern, kern, {"R", "W"})
        c == vm_map_page(b.m, t, user, user, {"R", "W", "U"})
    IN  IF a.res < 0 THEN a ELSE IF b.res < 0 THEN b ELSE c

proc_init ==
    LET s == Stacks(m)
        t == MapStacks(s.m, page_table, s.kern, s.user)
        ok == s.kern # 0 /\ s.user # 0
    IN  /\ pc = "load" /\ seg > Len(image.prog_hdrs)
        /\ kern_stack' = s.kern /\ user_stack' = s.user
        /\ m' = IF ok THEN t.m ELSE s.m
        /\ IF ~ok \/ t.res < 0 THEN Panic /\ UNCHANGED mapped
           ELSE /\ pc' = "run"
                /\ mapped' = (s.user :> [phys |-> s.user, flags |-> {"R", "W", "U"}])
                          @@ (s.kern :> [phys |-> s.kern, flags |-> {"R", "W"}])
                          @@ AddMapping(Trampoline, Trampoline, {"R", "X"})
        /\ UNCHANGED <<image, page_table, loopVars, contents, children, heapVars>>

-----------------------------------------------------------------------------
(* kmalloc of a process object, by the pages kmalloc has: m and the page   *)
(* it takes, if it takes one.                                              *)
kmalloc ==
    IF objs < ProcsPerPage * Cardinality(heap) THEN [m |-> m, pages |-> {}]
    ELSE [m |-> page_alloc(m).m, pages |-> {page_alloc(m).page}]

(* sys_proc gives every other process page table nullptr, so the mappings  *)
(* go to the table at address 0, if there is memory to hold it.  On        *)
(* failure neither the object nor the pages already taken are given back.  *)
sys_proc ==
    LET s == Stacks(kmalloc.m)
        t == MapStacks(s.m, 0, s.kern, s.user)
        ok == s.kern # 0 /\ s.user # 0
    IN  /\ pc = "run" /\ NullMapped
        /\ 0 \notin kmalloc.pages
        /\ heap' = heap \cup kmalloc.pages /\ objs' = objs + 1
        /\ m' = IF ok THEN t.m ELSE s.m
        /\ children' = IF ok /\ t.res >= 0
                       THEN children \cup {<<s.kern, s.user>>} ELSE children
        /\ UNCHANGED <<image, pc, page_table, loopVars, contents, kern_stack,
                       user_stack, mapped>>

(* proc_deinit of such a process, which sys_wait follows by kfree;         *)
(* page_free(nullptr) does nothing.                                        *)
proc_deinit(c) ==
    /\ pc = "run"
    /\ children' = children \ {c}
    /\ m' = [m EXCEPT !.free = list_push_back(list_push_back(@, c[2]), c[1])]
    /\ objs' = objs - 1
    /\ UNCHANGED <<image, pc, page_table, loopVars, contents, kern_stack,
                   user_stack, heap, mapped>>

(* The page that sys_write reads k pages behind the first of its buffer,   *)
(* which is in the virtual page v: only the first is translated.           *)
WriteSource(v, k) == vm_virt_to_phys(m, page_table, v) + k

(* Where sys_read and sys_wait store what they return for a pointer to the *)
(* virtual page v: they do not translate it, and the kernel runs with satp *)
(* zero.                                                                   *)
StoredPage(v) == v

(* The machine runs on, or has stopped in a panic. *)
Idle == pc \in {"run", "panic"} /\ UNCHANGED vars

Next ==
    \/ elf_load \/ load_page \/ next_segment \/ proc_init
    \/ sys_proc
    \/ \E c \in children : proc_deinit(c)
    \/ Idle

Spec == Init /\ [][Next]_vars

-----------------------------------------------------------------------------
Tables == DOMAIN m.mem \ {0}
DataPages == {mapped[v].phys : v \in DOMAIN mapped} \cap HeapPage

(* Types of the variables.                                                 *)
TypeOK ==
    /\ image \in Images /\ pc \in {"elf", "load", "run", "panic"}
    /\ m.free \in Seq(HeapPage) /\ IsList(m.free)
    /\ Tables \subseteq HeapPage
    /\ page_table \in HeapPage \cup {0}
    /\ seg \in 1..(Len(image.prog_hdrs) + 1) /\ offset \in Nat
    /\ DOMAIN contents \subseteq HeapPage
    /\ children \subseteq HeapPage \X HeapPage
    /\ heap \subseteq HeapPage /\ objs \in Nat

(* The leaf entry a mapped virtual page is translated by. *)
Leaf(v) ==
    LET one == m.mem[page_table][Idx(v)[1]].ppn
        two == m.mem[one][Idx(v)[2]].ppn
    IN  m.mem[two][Idx(v)[3]]

(* The three levels of tables that vm_map_page builds are the map of its   *)
(* successful calls: later ones, of this process and of others, a failed   *)
(* one included, disturb no earlier mapping, and flags are the union of    *)
(* those asked for.                                                        *)
TablesAreMap ==
    \A v \in DOMAIN mapped :
        /\ vm_virt_to_phys(m, page_table, v) = mapped[v].phys
        /\ Leaf(v).flags = mapped[v].flags \cup {"V"}

(* vm_virt_to_phys does not test the last V flag: what it says of a page   *)
(* that is not mapped is -EFAULT or page 0, never another process's page.  *)
NoForeignPage ==
    pc = "run" =>
        \A v \in VPage \ DOMAIN mapped :
            vm_virt_to_phys(m, page_table, v) \in {-EFAULT, 0}

(* The pages of init, its tables included, are used once each, and stay    *)
(* out of the free list and of every other process's hands.                *)
PagesOwnedOnce ==
    LET stacks == UNION {{c[1], c[2]} : c \in children}
    IN  /\ Range(m.free) \cap (Tables \cup DataPages \cup stacks) = {}
        /\ Tables \cap (DataPages \cup stacks) = {}
        /\ stacks \cap DataPages = {}
        /\ heap \cap (Range(m.free) \cup Tables \cup DataPages \cup stacks) = {}
        /\ \A v, w \in DOMAIN mapped : v # w => mapped[v].phys # mapped[w].phys
        /\ \A c, d \in children : c # d => {c[1], c[2]} \cap {d[1], d[2]} = {}

(* The byte at place k of the virtual page v: its place in the file, or -1 *)
(* for a zero.                                                             *)
ByteAt(v, k) ==
    LET c == contents[vm_virt_to_phys(m, page_table, v)]
    IN  IF k < c.count THEN c.from + k ELSE -1

LoadSegments == {s \in Range(image.prog_hdrs) : s.type = 1}

(* When init starts, its memory is its file: each byte of a segment is the *)
(* file's, the bytes past the end of the file's part are zero, and the     *)
(* page has at least the rights the segment asks for.                      *)
MemoryIsImage ==
    pc = "run" =>
        \A s \in LoadSegments : \A k \in Probes :
            \A p \in 0..((s.memsz - 1) \div PAGE_SIZE) :
                LET at == p * PAGE_SIZE + k
                    v == s.vaddr \div PAGE_SIZE + p
                IN  at < s.memsz =>
                        /\ ByteAt(v, k) = IF at < s.filesz THEN s.offset + at ELSE -1
                        /\ s.flags \cup {"V", "U"} \subseteq Leaf(v).flags

(* init starts at a page it may execute in user mode, and traps at one     *)
(* that only the kernel may use.                                           *)
EntryExecutable ==
    pc = "run" =>
        /\ {"V", "X", "U"} \subseteq Leaf(image.entry \div PAGE_SIZE).flags
        /\ Leaf(Trampoline).flags = {"V", "R", "X"}

(* The tables of init. *)
OwnTables ==
    LET below(t) == {m.mem[t][k].ppn : k \in {n \in DOMAIN m.mem[t] : Valid(m.mem[t][n])}}
    IN  {page_table} \cup below(page_table) \cup UNION {below(t) : t \in below(page_table)}

(* sys_write translates the address of its buffer once and reads on from   *)
(* there, past the end of the page.  A buffer that goes on in the next     *)
(* page of its segment is read from there, except where it leaves the      *)
(* first page entered in a table: the new tables lie behind that page, and *)
(* what is read instead is a table of the caller.  Nothing else lies among *)
(* the pages of a segment, so no buffer within a segment gets at a free    *)
(* page or at memory of another process.                                   *)
BuffersReadFromCaller ==
    pc = "run" =>
        \A s \in LoadSegments :
            LET from == s.vaddr \div PAGE_SIZE
                to == (s.vaddr + s.memsz - 1) \div PAGE_SIZE
                opens(v) == \A u \in DOMAIN mapped :
                                u \div ENTRIES = v \div ENTRIES => u >= v
                own == OwnTables \cup {mapped[v].phys : v \in from..to}
            IN  /\ \A v \in from..(to - 1) :
                      IF opens(v) THEN WriteSource(v, 1) \in OwnTables
                      ELSE WriteSource(v, 1) = WriteSource(v + 1, 0)
                /\ WriteSource(from, 0)..WriteSource(to, 0) \subseteq own

(* sys_read and sys_wait store their results at the address the user gave, *)
(* untranslated.  On the user stack, where programs keep their buffers,    *)
(* that is the caller's memory; for the rest of the memory the caller may  *)
(* write it is not, the result is lost, but the store hits no page of the  *)
(* heap (memory of a process, a table, an object, a free page) and not the *)
(* trap entry.                                                             *)
ResultsStored ==
    pc = "run" =>
        /\ {"R", "W", "U"} \subseteq Leaf(user_stack).flags
        /\ \A v \in {u \in DOMAIN mapped : {"W", "U"} \subseteq Leaf(u).flags} :
              IF v = user_stack THEN StoredPage(v) = vm_virt_to_phys(m, page_table, v)
              ELSE StoredPage(v) \notin HeapPage \cup {Trampoline}

(* The file loads: the heap has pages enough for its segments, the tables  *)
(* and the stacks, and no header is refused.                               *)
ImageLoads == pc # "panic"
=============================================================================

-------------------------------- MODULE Heap --------------------------------
(***************************************************************************)
(* The kernel's two allocators: whole pages (src/mm/page_alloc.c) and the  *)
(* objects of kmalloc and kfree (src/mm/kalloc.c), which take their pages  *)
(* from the first.  Both keep their lists inside the memory they manage: a *)
(* free page begins with the node of free_list, and a block of kmalloc     *)
(* with a header that holds the node of block_list.  What is modelled is   *)
(* therefore which memory each call hands out, and which addresses each    *)
(* call stores to.                                                         *)
(***************************************************************************)
EXTENDS List, FiniteSetsExt

CONSTANTS NPages,       \* KHEAP_SIZE / PAGE_SIZE
          PAGE_SIZE,    \* addresses of a page
          HDR,          \* sizeof(block_header_t)
          NODE,         \* sizeof(list_node_t), the first member of a header
          Sizes         \* the sizes the callers of kmalloc ask for

VARIABLES free_list,    \* free pages, each named by its address
          block_list,   \* blocks of kmalloc: address, size, allocated
          taken,        \* pages the callers of page_alloc hold
          live,         \* objects the callers of kmalloc hold
          written       \* addresses the last call stored to

vars == <<free_list, block_list, taken, live, written>>

Addr == 0..(NPages * PAGE_SIZE - 1)
Page == {i * PAGE_SIZE : i \in 0..(NPages - 1)}
Block == [at : Addr, size : 1..(NPages * PAGE_SIZE), allocated : BOOLEAN]
Object == [ptr : Addr, len : Nat]

Span(a, n) == a..(a + n - 1)
PageOf(p) == Span(p, PAGE_SIZE)
Payload(o) == Span(o.ptr, o.len)

-----------------------------------------------------------------------------
(* init of page_alloc: every page of the heap is free, in address order.   *)
Init ==
    /\ free_list = [i \in 1..NPages |-> (i - 1) * PAGE_SIZE]
    /\ block_list = <<>>
    /\ taken = {} /\ live = {}
    /\ written = UNION {Span(p, NODE) : p \in Page}

(* The nodes on both sides of the i-th node of a list of nodes at the      *)
(* addresses at: what linking or unlinking that node stores to.  The head  *)
(* of a list is a static variable, outside this memory.                    *)
Links(at, i) == UNION {Span(at[j], NODE) : j \in {i - 1, i + 1} \cap DOMAIN at}

At(q) == [i \in DOMAIN q |-> q[i].at]

PopStores(q) == Links(q, 1)
PushStores(q, p) == Links(Append(q, p), Len(q) + 1) \cup Span(p, NODE)

page_alloc ==
    /\ ~list_empty(free_list)
    /\ free_list' = list_pop_front(free_list)
    /\ taken' = taken \cup {list_first_entry(free_list)}
    /\ written' = PopStores(free_list)
    /\ UNCHANGED <<block_list, live>>

page_free(p) ==
    /\ free_list' = list_push_back(free_list, p)
    /\ taken' = taken \ {p}
    /\ written' = PushStores(free_list, p)
    /\ UNCHANGED <<block_list, live>>

-----------------------------------------------------------------------------
(* kmalloc.                                                                *)

(* Mutant: the header is forgotten in the comparison. *)
Fits_NoHeader(q, size) == {i \in DOMAIN q : ~q[i].allocated /\ q[i].size >= size - HDR}

(* The block the loop stops at. *)
Fits(q, size) == {i \in DOMAIN q : ~q[i].allocated /\ q[i].size >= size}

Splits(b, size) == b.size - size > HDR

(* Mutant: the block that is given out keeps its size. *)
Give_NoShrink(q, i, size) ==
    IF Splits(q[i], size)
    THEN list_insert([q EXCEPT ![i].allocated = TRUE], i + 1,
                     [at |-> q[i].at + size, size |-> q[i].size - size,
                      allocated |-> FALSE])
    ELSE [q EXCEPT ![i].allocated = TRUE]

(* The list once its i-th block is given out for size addresses, header    *)
(* included: what is left over becomes a block if a header fits with room. *)
Give(q, i, size) ==
    IF Splits(q[i], size)
    THEN list_insert([q EXCEPT ![i].allocated = TRUE, ![i].size = size], i + 1,
                     [at |-> q[i].at + size, size |-> q[i].size - size,
                      allocated |-> FALSE])
    ELSE [q EXCEPT ![i].allocated = TRUE]

(* Mutant: the object is cleared, with the size of the header added twice. *)
GiveStores_Clears(q, i, size) == Span(q[i].at, size + HDR)

GiveStores(q, i, size) ==
    Span(q[i].at, HDR) \cup
    IF Splits(q[i], size)
    THEN Span(q[i].at + size, HDR) \cup Links(At(Give(q, i, size)), i + 1)
    ELSE {}

Given(q, i, n) ==
    /\ block_list' = Give(q, i, n + HDR)
    /\ live' = live \cup {[ptr |-> q[i].at + HDR, len |-> n]}
    /\ UNCHANGED taken

NewBlock == [at |-> list_first_entry(free_list), size |-> PAGE_SIZE, allocated |-> FALSE]

kmalloc(n) ==
    LET size == n + HDR
        fits == Fits(block_list, size)
        grown == list_push_back(block_list, NewBlock)
    IN  /\ size <= PAGE_SIZE
        /\ \/ /\ fits # {}
              /\ Given(block_list, Min(fits), n)
              /\ written' = GiveStores(block_list, Min(fits), size)
              /\ UNCHANGED free_list
           \/ /\ fits = {} /\ ~list_empty(free_list)
              /\ free_list' = list_pop_front(free_list)
              /\ Given(grown, Len(grown), n)
              /\ written' = PopStores(free_list)
                                \cup PushStores(At(block_list), NewBlock.at)
                                \cup GiveStores(grown, Len(grown), size)

(* The two returns of nullptr. *)
kmalloc_null(n) ==
    /\ \/ n + HDR > PAGE_SIZE
       \/ Fits(block_list, n + HDR) = {} /\ list_empty(free_list)
    /\ written' = {}
    /\ UNCHANGED <<free_list, block_list, taken, live>>

-----------------------------------------------------------------------------
(* kfree.                                                                  *)

(* The j-th block takes in its successor on the list.                      *)
Joins(q, j) ==
    /\ j \in 1..(Len(q) - 1)
    /\ ~q[j].allocated /\ ~q[j + 1].allocated
    /\ q[j].at + q[j].size = q[j + 1].at

Join(q, j) ==
    IF Joins(q, j)
    THEN list_remove([q EXCEPT ![j].size = @ + q[j + 1].size], q[j + 1])
    ELSE q

JoinStores(q, j) ==
    IF Joins(q, j) THEN Span(q[j].at, HDR) \cup Links(At(q), j + 1) ELSE {}

(* Mutant: the block before is not looked at. *)
kfree_NextOnly(o) ==
    LET i == CHOOSE k \in DOMAIN block_list : block_list[k].at = o.ptr - HDR
        freed == [block_list EXCEPT ![i].allocated = FALSE]
    IN  /\ block_list' = Join(freed, i)
        /\ live' = live \ {o}
        /\ written' = Span(block_list[i].at, HDR) \cup JoinStores(freed, i)
        /\ UNCHANGED <<free_list, taken>>

(* Mutant: a freed object is cleared. *)
kfree_Clears(o) ==
    LET i == CHOOSE k \in DOMAIN block_list : block_list[k].at = o.ptr - HDR
        freed == [block_list EXCEPT ![i].allocated = FALSE]
        before == Join(freed, i - 1)
        k == IF Joins(freed, i - 1) THEN i - 1 ELSE i
    IN  /\ block_list' = Join(before, k)
        /\ live' = live \ {o}
        /\ written' = Span(block_list[i].at, HDR) \cup Payload(o)
        /\ UNCHANGED <<free_list, taken>>

kfree(o) ==
    LET i == CHOOSE k \in DOMAIN block_list : block_list[k].at = o.ptr - HDR
        freed == [block_list EXCEPT ![i].allocated = FALSE]
        before == Join(freed, i - 1)
        k == IF Joins(freed, i - 1) THEN i - 1 ELSE i
    IN  /\ block_list' = Join(before, k)
        /\ live' = live \ {o}
        /\ written' = Span(block_list[i].at, HDR)
                          \cup JoinStores(freed, i - 1) \cup JoinStores(before, k)
        /\ UNCHANGED <<free_list, taken>>

Next ==
    \/ page_alloc
    \/ \E p \in taken : page_free(p)
    \/ \E n \in Sizes : kmalloc(n) \/ kmalloc_null(n)
    \/ \E o \in live : kfree(o)

Spec == Init /\ [][Next]_vars

-----------------------------------------------------------------------------
(* Types of the variables.                                                 *)
TypeOK ==
    /\ free_list \in Seq(Page) /\ IsList(free_list)
    /\ block_list \in Seq(Block) /\ IsList(At(block_list))
    /\ taken \subseteq Page
    /\ live \subseteq Object
    /\ written \subseteq Int

(* No call of either allocator stores into an object or a page that a      *)
(* caller holds before and after it: the nodes and headers they keep in    *)
(* the managed memory never overlap what they gave out.                    *)
HeldIsUntouched ==
    /\ \A o \in live \cap live' : written' \cap Payload(o) = {}
    /\ \A p \in taken \cap taken' : written' \cap PageOf(p) = {}

(* sys_wait reads proc->pid after kfree(proc): the object's memory still   *)
(* has its contents when kfree returns, since only headers are stored to.  *)
ReadableAfterFree ==
    \A o \in live \ live' : written' \cap Payload(o) = {}

(* Every address of the heap is in exactly one of a free page, a page held *)
(* by a caller and a block of kmalloc, whichever way pages were taken, and *)
(* blocks split and joined, also across pages.                             *)
NothingLostOrShared ==
    LET regions == {PageOf(p) : p \in Range(free_list) \cup taken}
                       \cup {Span(b.at, b.size) : b \in Range(block_list)}
    IN  /\ UNION regions = Addr
        /\ \A r, s \in regions : r # s => r \cap s = {}
        /\ Range(free_list) \cap taken = {}

(* The objects the callers hold are exactly the allocated blocks, each     *)
(* with room for what was asked for.                                       *)
ObjectsAreBlocks ==
    /\ \A o \in live : \E b \in Range(block_list) :
          b.allocated /\ b.at + HDR = o.ptr /\ HDR + o.len <= b.size
    /\ \A b \in Range(block_list) : b.allocated =>
          \E o \in live : o.ptr = b.at + HDR

(* No two neighbours on the list could be one free block: the merges of    *)
(* kfree lose nothing, so a request that fits in a page fails only when    *)
(* no page is left.                                                        *)
Coalesced == \A j \in DOMAIN block_list : ~Joins(block_list, j)
=============================================================================

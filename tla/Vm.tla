--------------------------------- MODULE Vm ---------------------------------
(***************************************************************************)
(* Page tables (src/arch/riscv/vm.c): three levels of tables, each a page  *)
(* of ENTRIES entries.  A virtual page is its number, virt >> 12, and a    *)
(* physical one likewise; 0 is the page of address nullptr, which is in no *)
(* heap, and what an entry that was never set points to.  The operators    *)
(* take the memory m they work on and return it: m.free is the free list   *)
(* of page_alloc, and m.mem the contents of the pages that hold tables.    *)
(***************************************************************************)
EXTENDS List, TLC

CONSTANT ENTRIES        \* entries of a table: PAGE_SIZE / sizeof(pte_t)

ENOMEM == 12
EFAULT == 14

(* Virtual pages of three levels of indices: below virt >> 39. *)
VPage == 0..(ENTRIES * ENTRIES * ENTRIES - 1)

Idx(v) == <<v \div (ENTRIES * ENTRIES), (v \div ENTRIES) % ENTRIES, v % ENTRIES>>

(* Mutant: a table is not cleared; its page was in use before. *)
EmptyTable_Dirty == [i \in 0..(ENTRIES - 1) |-> [flags |-> {}, ppn |-> ENTRIES]]

EmptyTable == [i \in 0..(ENTRIES - 1) |-> [flags |-> {}, ppn |-> 0]]

Valid(pte) == "V" \in pte.flags

(* Flags are only ever added to an entry. *)
init_pte(pte, page, flags) ==
    [flags |-> pte.flags \cup {"V"} \cup flags, ppn |-> page]

(* Mutant: the page is left on the list. *)
page_alloc_Peeks(m) ==
    [m |-> m, page |-> IF list_empty(m.free) THEN 0 ELSE list_first_entry(m.free)]

(* Mutant: the last page of the list is taken. *)
page_alloc_Back(m) ==
    IF list_empty(m.free) THEN [m |-> m, page |-> 0]
    ELSE [m |-> [m EXCEPT !.free = SubSeq(@, 1, Len(@) - 1)],
          page |-> m.free[Len(m.free)]]

(* page_alloc: [m, page], page 0 when there is none. *)
page_alloc(m) ==
    IF list_empty(m.free) THEN [m |-> m, page |-> 0]
    ELSE [m |-> [m EXCEPT !.free = list_pop_front(@)],
          page |-> list_first_entry(m.free)]

vm_create_page_table(m) ==
    LET a == page_alloc(m)
    IN  IF a.page = 0 THEN a
        ELSE [a EXCEPT !.m.mem = (a.page :> EmptyTable) @@ @]

(* Mutant: a table is made although there is one. *)
Descend_Always(m, t, i) ==
    LET a == vm_create_page_table(m)
    IN  IF a.page = 0 THEN a
        ELSE [a EXCEPT !.m.mem[t][i] = init_pte(@, a.page, {})]

(* The table the i-th entry of table t points to, made if there is none.   *)
Descend(m, t, i) ==
    IF Valid(m.mem[t][i]) THEN [m |-> m, page |-> m.mem[t][i].ppn]
    ELSE LET a == vm_create_page_table(m)
         IN  IF a.page = 0 THEN a
             ELSE [a EXCEPT !.m.mem[t][i] = init_pte(@, a.page, {})]

(* Returns [m, res].  A table made before memory ran out stays linked.     *)
vm_map_page(m, root, v, phys, flags) ==
    LET a == Descend(m, root, Idx(v)[1])
        b == Descend(a.m, a.page, Idx(v)[2])
    IN  IF a.page = 0 THEN [m |-> a.m, res |-> -ENOMEM]
        ELSE IF b.page = 0 THEN [m |-> b.m, res |-> -ENOMEM]
        ELSE [m |-> [b.m EXCEPT !.mem[b.page][Idx(v)[3]] = init_pte(@, phys, flags)],
              res |-> 0]

(* The physical page, or -EFAULT.  The last entry's V flag is not tested. *)
vm_virt_to_phys(m, root, v) ==
    LET pte0 == m.mem[root][Idx(v)[1]]
        pte1 == m.mem[pte0.ppn][Idx(v)[2]]
    IN  IF v \notin VPage \/ ~Valid(pte0) THEN -EFAULT
        ELSE IF ~Valid(pte1) THEN -EFAULT
        ELSE m.mem[pte1.ppn][Idx(v)[3]].ppn
=============================================================================

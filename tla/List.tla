-------------------------------- MODULE List --------------------------------
(***************************************************************************)
(* The intrusive, doubly linked, circular list of include/list.h, seen as  *)
(* the sequence of its entries from front to back.  The kernel threads an  *)
(* object on a list through a node embedded in the object, so an entry is  *)
(* named by the object itself, and an object is on a list at most once.    *)
(***************************************************************************)
EXTENDS Integers, Sequences, Functions

list_empty(q) == q = <<>>

list_first_entry(q) == Head(q)

list_push_front(q, x) == <<x>> \o q

list_push_back(q, x) == Append(q, x)

list_pop_front(q) == Tail(q)

(* list_insert(&entry->node, &x->node): x goes in before the i-th entry,   *)
(* or, when i = Len(q) + 1, before the list head, which is the back.       *)
list_insert(q, i, x) ==
    [j \in 1..(Len(q) + 1) |->
        IF j < i THEN q[j] ELSE IF j = i THEN x ELSE q[j - 1]]

(* Position of the entry x of q. *)
Position(q, x) == CHOOSE i \in 1..Len(q) : q[i] = x

(* list_remove(&x->node): unlinks x from the list it is on.  The code      *)
(* never names the list; q is that list when x is one of its entries.      *)
list_remove(q, x) ==
    IF x \in Range(q)
    THEN [j \in 1..(Len(q) - 1) |->
             IF j < Position(q, x) THEN q[j] ELSE q[j + 1]]
    ELSE q

(* The entries of a list are distinct: a node is linked in at most once.   *)
IsList(q) == IsInjective(q)
=============================================================================

----------------------------- MODULE InitImage -----------------------------
(***************************************************************************)
(* The ELF file of the init program, the array INIT_ELF of src/init.c, as  *)
(* the loader of src/elf.c sees it: the fields of its header and of its    *)
(* program headers.  The rest of the bytes is the code and the data of the *)
(* program: the contents of a segment are named by their place in the file.*)
(***************************************************************************)
EXTENDS Integers, Sequences

PT_LOAD == 1

InitSegments ==
    << [type |-> 1879048195, flags |-> {"R"},
        offset |-> 52095, vaddr |-> 0, filesz |-> 75, memsz |-> 0],
       [type |-> PT_LOAD, flags |-> {"R", "X"},
        offset |-> 0, vaddr |-> 65536, filesz |-> 46928, memsz |-> 46928],
       [type |-> PT_LOAD, flags |-> {"R", "W"},
        offset |-> 49152, vaddr |-> 114688, filesz |-> 2928, memsz |-> 4197880] >>

INIT_ELF ==
    [mag |-> <<127, 69, 76, 70>>, class |-> 2, data |-> 1, version |-> 1,
     type |-> 2, entry |-> 65804, prog_hdrs |-> InitSegments]
=============================================================================

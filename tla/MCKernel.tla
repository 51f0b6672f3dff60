------------------------------ MODULE MCKernel ------------------------------
(* Small instances of Kernel for TLC. *)
EXTENDS Kernel, TLC

(* The objects kmalloc hands out are interchangeable. *)
Objects == Permutations(Proc \ {Idle, InitProc})

(* The terminal is silent and nobody reads it: more processes fit. *)
TreeNext ==
    \/ Boot
    \/ \E p \in Proc :
          \/ sys_sleep(p) \/ sys_exit(p) \/ sys_wait(p)
          \/ \E q \in Proc : sys_proc(p, q)
    \/ KernelStep
    \/ TimerIsr
    \/ stopped

(* proc_waiting is read only by a waiter that has been woken: states that  *)
(* differ in it for other processes are the same.                          *)
TreeView ==
    <<pid, parent, children, zombie_children, page_table, tableVars, schedVars,
      semVars, resume, mode,
      [p \in Proc |-> IF resume[p] = "wait_child" /\ state[p] # "WAIT_CHILD"
                      THEN proc_waiting[p] ELSE NULL]>>

TreeSpec == Init /\ [][TreeNext]_vars

FairTreeSpec == TreeSpec /\ KernelProgress
=============================================================================

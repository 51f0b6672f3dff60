------------------------------- MODULE Kernel -------------------------------
(***************************************************************************)
(* The process layer of the kernel: the process table and tree (proc.c),   *)
(* the scheduler (sched.c), the queue of pending timers as the scheduler   *)
(* sees it (timer.c), the semaphore of the terminal (sync/sem.c) and the   *)
(* system calls and interrupt handlers that move a process from one state  *)
(* to another.                                                             *)
(*                                                                         *)
(* There is one hart, a trap clears sstatus.SIE and the kernel never sets  *)
(* it again, so kernel code runs without interruption until it returns to  *)
(* user mode or switches to another process.  A handler is one step, cut   *)
(* only where the code switches context in its middle (sys_wait, a read of *)
(* the terminal) or loops over a list (the adoption loops of sys_exit, the *)
(* signals of sem_signaln): `resume' and `signals' record where kernel     *)
(* code goes on, and nothing but that code may run while they do.          *)
(***************************************************************************)
EXTENDS List, FiniteSetsExt

CONSTANTS
    Proc,            \* proc_t objects: idle_proc, init_proc and those of kmalloc
    Idle,            \* sched.c: idle_proc
    InitProc,        \* kmain.c: init_proc
    SchedTimer,      \* sched.c: timer, the one of the time slice
    NULL,            \* nullptr
    PROC_TABLE_SIZE, \* config.h
    MaxPermits,      \* bound: most permits the terminal's semaphore holds
    NullRootWorks    \* the platform has, at physical page 0, memory that serves
                     \* processes with page_table nullptr as root table (not on
                     \* QEMU virt)

ASSUME ProcAssumption ==
    /\ Idle \in Proc /\ InitProc \in Proc /\ Idle # InitProc
    /\ NULL \notin Proc /\ SchedTimer \notin Proc

ASSUME BoundAssumption ==
    /\ PROC_TABLE_SIZE \in Nat /\ PROC_TABLE_SIZE >= 2
    /\ MaxPermits \in Nat

ASSUME PlatformAssumption == NullRootWorks \in BOOLEAN

VARIABLES
    state,           \* proc_t.state; "FREE" for an object not handed out
    pid,             \* proc_t.pid
    parent,          \* proc_t.parent
    children,        \* proc_t.children
    zombie_children, \* proc_t.zombie_children
    proc_waiting,    \* proc_t.proc_waiting
    page_table,      \* proc_t.page_table is not nullptr
    resume,          \* kernel code the process goes on with; "user" for none
    proc_table,      \* proc.c: pid -> process
    last_pid,        \* proc.c: new_pid's static variable
    ready_queue,     \* sched.c
    curr_proc,       \* sched.c
    wait_queue,      \* timer.c: pending timers; a process names its own timer
    sem_val,         \* rx_sem.val
    sem_queue,       \* rx_sem.wait_queue
    signals,         \* sem_signaln: iterations still to do
    mode             \* "boot", "run", "hung" or "halted"

treeVars  == <<pid, parent, children, zombie_children, proc_waiting, page_table>>
tableVars == <<proc_table, last_pid>>
schedVars == <<state, ready_queue, curr_proc, wait_queue>>
semVars   == <<sem_val, sem_queue, signals>>
vars      == <<treeVars, tableVars, schedVars, semVars, resume, mode>>

Pid   == 0..(PROC_TABLE_SIZE - 1)
Timer == Proc \cup {SchedTimer}

ProcState == {"FREE", "INIT", "READY", "CURR", "WAIT_SEM", "WAIT_CHILD",
              "SLEEP", "ZOMBIE"}

(* Processes that can still run, and those that have a place in the tree.  *)
LiveState == {"READY", "CURR", "WAIT_SEM", "WAIT_CHILD", "SLEEP"}
Alive(p)  == state[p] \in LiveState
InTree(p) == Alive(p) \/ state[p] = "ZOMBIE"

-----------------------------------------------------------------------------
(* The scheduler, as functions of the part of the state it works on.       *)

Sched == [state |-> state, ready_queue |-> ready_queue,
          curr_proc |-> curr_proc, wait_queue |-> wait_queue]

(* proc_entry loads satp from the process, so one whose table is nullptr   *)
(* (idle_proc, and all that sys_proc makes) is translated by what is at    *)
(* physical address 0.  NullRootWorks assumes a platform whose memory      *)
(* there maps idle_task, its stack and the programs besides; nothing in    *)
(* the kernel enters them (proc_init maps a trampoline and two stacks, and *)
(* for idle_proc nothing).  TRUE thus stands for the most that may run,    *)
(* and FALSE for a machine that stops at the first such switch.            *)
CanRun(p) == page_table[p] \/ NullRootWorks

SetSched(k) ==
    /\ state' = k.state /\ ready_queue' = k.ready_queue
    /\ curr_proc' = k.curr_proc /\ wait_queue' = k.wait_queue
    /\ mode' = IF CanRun(k.curr_proc) THEN mode ELSE "hung"

(* The place of a timer among the pending ones depends on the deadlines,   *)
(* which this module leaves out: any place (Timer.tla has the deadlines).  *)
timer_wait(q, t, i) == list_insert(q, i, t)

timer_cancel(q, t) == list_remove(q, t)

(* Mutant: the ready queue is filled at its back. *)
Move_Fifo(k, p, s) ==
    [state       |-> [k.state EXCEPT ![p] = s],
     ready_queue |-> LET q == list_remove(k.ready_queue, p)
                     IN  IF s = "READY" THEN list_push_back(q, p) ELSE q,
     curr_proc   |-> IF s = "CURR" THEN p
                     ELSE IF s = "ZOMBIE" /\ p = k.curr_proc THEN NULL
                     ELSE k.curr_proc,
     wait_queue  |-> IF k.state[p] = "SLEEP"
                     THEN timer_cancel(k.wait_queue, p) ELSE k.wait_queue]

(* sched_update_state without the reschedule that may follow. *)
Move(k, p, s) ==
    [state       |-> [k.state EXCEPT ![p] = s],
     ready_queue |-> LET q == IF k.state[p] = "READY"
                              THEN list_remove(k.ready_queue, p)
                              ELSE k.ready_queue
                     IN  IF s = "READY" THEN list_push_front(q, p) ELSE q,
     curr_proc   |-> IF s = "CURR" THEN p
                     ELSE IF s = "ZOMBIE" /\ p = k.curr_proc THEN NULL
                     ELSE k.curr_proc,
     wait_queue  |-> IF k.state[p] = "SLEEP"
                     THEN timer_cancel(k.wait_queue, p) ELSE k.wait_queue]

(* Mutant: the process that was running is not made ready again. *)
sched_resched_Drops(k) == Move(k, list_first_entry(k.ready_queue), "CURR")

(* A process that was running goes to the front of the ready queue, from   *)
(* where the next one is taken.                                            *)
sched_resched(k) ==
    LET old == k.curr_proc
        k1  == IF old # NULL /\ k.state[old] = "CURR"
               THEN Move(k, old, "READY") ELSE k
    IN  Move(k1, list_first_entry(k1.ready_queue), "CURR")

sched_update_state(k, p, s) ==
    IF k.state[p] = s THEN k
    ELSE IF p = k.curr_proc /\ s \in {"WAIT_SEM", "WAIT_CHILD", "SLEEP", "ZOMBIE"}
         THEN sched_resched(Move(k, p, s))
         ELSE Move(k, p, s)

-----------------------------------------------------------------------------
(* Process creation and destruction.                                       *)

EAGAIN == 11

(* Mutant: identifiers are given in turn, taken or not. *)
new_pid_Counter == (last_pid + 1) % PROC_TABLE_SIZE

(* First free slot after last_pid, else first free slot before it: slot    *)
(* last_pid is not looked at, even when its process has been collected.    *)
new_pid ==
    LET above == {i \in Pid : i > last_pid /\ proc_table[i] = NULL}
        below == {i \in Pid : i < last_pid /\ proc_table[i] = NULL}
    IN  IF above # {} THEN Min(above)
        ELSE IF below # {} THEN Min(below)
        ELSE -EAGAIN

(* proc_init of an object p, up to the end, for a parent that may be NULL. *)
proc_init(p, par, table) ==
    /\ new_pid \in Pid
    /\ last_pid' = new_pid
    /\ pid' = [pid EXCEPT ![p] = new_pid]
    /\ parent' = [parent EXCEPT ![p] = par]
    /\ page_table' = [page_table EXCEPT ![p] = table]
    /\ proc_table' = [proc_table EXCEPT ![new_pid] = p]
    /\ children' = IF par = NULL THEN children
                   ELSE [children EXCEPT ![par] = list_push_back(@, p)]
    /\ UNCHANGED <<zombie_children, proc_waiting>>

(* Mutant: the static variable is assigned before the error is seen. *)
proc_init_fails_Stores(p) ==
    /\ last_pid' = new_pid
    /\ state' = [state EXCEPT ![p] = "INIT"]
    /\ UNCHANGED <<treeVars, proc_table, ready_queue, curr_proc, wait_queue>>

(* proc_init that returns early: with no identifier left it has done       *)
(* nothing, and out of memory it has used one up.  The object is in no     *)
(* table and on no list, and its caller does not give it back.             *)
proc_init_fails(p) ==
    /\ \/ new_pid = -EAGAIN /\ UNCHANGED last_pid
       \/ new_pid \in Pid /\ last_pid' = new_pid
    /\ state' = [state EXCEPT ![p] = "INIT"]
    /\ UNCHANGED <<treeVars, proc_table, ready_queue, curr_proc, wait_queue>>

(* Mutant: the slot of the process is not given back. *)
proc_deinit_KeepsSlot(z, par) ==
    /\ zombie_children' = [zombie_children EXCEPT ![par] = list_remove(@, z)]
    /\ state' = [state EXCEPT ![z] = "FREE"]
    /\ resume' = [resume EXCEPT ![par] = "user", ![z] = "user"]
    /\ parent' = [parent EXCEPT ![z] = NULL]
    /\ UNCHANGED <<pid, page_table, proc_table, children, proc_waiting, last_pid>>

(* proc_deinit and kfree of a zombie on the list of process par; sys_wait  *)
(* is their only caller.  The fields of a freed object that no code reads  *)
(* before proc_init sets them again are reset.                             *)
proc_deinit(z, par) ==
    /\ zombie_children' = [zombie_children EXCEPT ![par] = list_remove(@, z)]
    /\ proc_table' = [proc_table EXCEPT ![pid[z]] = NULL]
    /\ state' = [state EXCEPT ![z] = "FREE"]
    /\ resume' = [resume EXCEPT ![par] = "user", ![z] = "user"]
    /\ pid' = [pid EXCEPT ![z] = 0]
    /\ parent' = [parent EXCEPT ![z] = NULL]
    /\ page_table' = [page_table EXCEPT ![z] = FALSE]
    /\ UNCHANGED <<children, proc_waiting, last_pid>>

-----------------------------------------------------------------------------
(* Boot: the last initialisation phase makes idle_proc, kmain makes        *)
(* init_proc and starts the scheduler.                                     *)

Booting == mode = "boot"

init_idle ==
    /\ Booting /\ state[Idle] = "FREE"
    /\ proc_init(Idle, NULL, FALSE)
    /\ LET k == sched_update_state(Sched, Idle, "READY")
       IN  state' = k.state /\ ready_queue' = k.ready_queue
    /\ UNCHANGED <<curr_proc, wait_queue, semVars, resume, mode>>

(* Mutant: kmain does not wait for the phase that makes idle_proc. *)
kmain_Early ==
    /\ Booting /\ state[InitProc] = "FREE"
    /\ proc_init(InitProc, NULL, TRUE)
    /\ LET k == sched_update_state(Sched, InitProc, "READY")
       IN  state' = k.state /\ ready_queue' = k.ready_queue
    /\ UNCHANGED <<curr_proc, wait_queue, semVars, resume, mode>>

kmain ==
    /\ Booting /\ state[Idle] = "READY" /\ state[InitProc] = "FREE"
    /\ proc_init(InitProc, NULL, TRUE)
    /\ LET k == sched_update_state(Sched, InitProc, "READY")
       IN  state' = k.state /\ ready_queue' = k.ready_queue
    /\ UNCHANGED <<curr_proc, wait_queue, semVars, resume, mode>>

sched_start ==
    /\ Booting /\ state[InitProc] = "READY"
    /\ LET k == sched_resched([Sched EXCEPT !.wait_queue = timer_wait(@, SchedTimer, 1)])
       IN  /\ state' = k.state /\ ready_queue' = k.ready_queue
           /\ curr_proc' = k.curr_proc /\ wait_queue' = k.wait_queue
           /\ mode' = IF CanRun(k.curr_proc) THEN "run" ELSE "hung"
    /\ UNCHANGED <<treeVars, tableVars, semVars, resume>>

(* A module, the ELF image or a process that cannot be initialised is a    *)
(* panic: log_panic ends in pm_hang.                                       *)
panic ==
    /\ Booting
    /\ mode' = "hung"
    /\ UNCHANGED <<treeVars, tableVars, schedVars, semVars, resume>>

-----------------------------------------------------------------------------
(* The hart runs user code, or the idle loop: a trap may be taken.         *)
Interruptible ==
    /\ mode = "run" /\ signals = 0
    /\ resume[curr_proc] = "user"

(* The current process makes a system call; idle_task makes none. *)
Ecall(p) == Interruptible /\ p = curr_proc /\ p # Idle

(* Kernel code of the current process goes on at l. *)
Resumes(p, l) ==
    /\ mode = "run" /\ signals = 0
    /\ p = curr_proc /\ resume[p] = l

sys_yield(p) ==
    /\ Ecall(p)
    /\ SetSched(sched_resched(Sched))
    /\ UNCHANGED <<treeVars, tableVars, semVars, resume>>

sys_sleep(p) ==
    /\ Ecall(p)
    /\ \E i \in 1..(Len(wait_queue) + 1) :
          SetSched(sched_update_state(
              [Sched EXCEPT !.wait_queue = timer_wait(@, p, i)], p, "SLEEP"))
    /\ UNCHANGED <<treeVars, tableVars, semVars, resume>>

(* sys_proc with a null entry or argv, or without memory for a proc_t,     *)
(* returns an error and changes nothing.  A process so made has no page    *)
(* table, and vm_map_page writes to the table it is given.                 *)
sys_proc(p, c) ==
    /\ Ecall(p)
    /\ state[c] = "FREE"
    /\ \/ /\ NullRootWorks
          /\ proc_init(c, p, FALSE)
          /\ SetSched(sched_update_state(Sched, c, "READY"))
       \/ proc_init_fails(c) /\ UNCHANGED mode
       \/ /\ ~NullRootWorks
          /\ new_pid \in Pid /\ proc_init_fails(c)
          /\ mode' = "hung"
    /\ UNCHANGED <<semVars, resume>>

(* sys_reboot: every type ends with the machine off, restarting or hung. *)
sys_reboot(p) ==
    /\ Ecall(p)
    /\ mode' = "halted"
    /\ UNCHANGED <<treeVars, tableVars, schedVars, semVars, resume>>

-----------------------------------------------------------------------------
(* sys_exit: the process hands its children to init, one at a time, then   *)
(* becomes a zombie of its parent and is never switched to again.          *)

sys_exit(p) ==
    /\ Ecall(p)
    /\ resume' = [resume EXCEPT ![p] = "exit"]
    /\ UNCHANGED <<treeVars, tableVars, schedVars, semVars, mode>>

(* Mutant: a zombie is adopted as if it were alive. *)
proc_adopt_NoZombies(np, c, old) ==
    /\ parent' = [parent EXCEPT ![c] = np]
    /\ children' = [children EXCEPT ![old] = list_remove(@, c),
                                   ![np] = list_push_back(@, c)]
    /\ zombie_children' = [zombie_children EXCEPT ![old] = list_remove(@, c)]

(* Mutant: the two arguments are swapped where the parent is set. *)
proc_adopt_Swapped(np, c, old) ==
    /\ parent' = [parent EXCEPT ![np] = c]
    /\ children' = [children EXCEPT ![old] = list_remove(@, c)]
    /\ zombie_children' = [zombie_children EXCEPT ![old] = list_remove(@, c)]

(* Mutant: the node is left on the list it is on. *)
proc_adopt_Unlinked(np, c, old) ==
    /\ parent' = [parent EXCEPT ![c] = np]
    /\ UNCHANGED <<children, zombie_children>>

(* c leaves the list of process old and goes, by its state, on one of np. *)
proc_adopt(np, c, old) ==
    LET ch == [children EXCEPT ![old] = list_remove(@, c)]
        zc == [zombie_children EXCEPT ![old] = list_remove(@, c)]
    IN  /\ parent' = [parent EXCEPT ![c] = np]
        /\ IF state[c] # "ZOMBIE"
           THEN /\ children' = [ch EXCEPT ![np] = list_push_back(@, c)]
                /\ zombie_children' = zc
           ELSE /\ children' = ch
                /\ zombie_children' = [zc EXCEPT ![np] = list_push_back(@, c)]

(* One iteration of the first loop, or of the second once that has ended. *)
exit_adopt(p) ==
    /\ Resumes(p, "exit")
    /\ \/ /\ ~list_empty(children[p])
          /\ proc_adopt(proc_table[1], list_first_entry(children[p]), p)
       \/ /\ list_empty(children[p]) /\ ~list_empty(zombie_children[p])
          /\ proc_adopt(proc_table[1], list_first_entry(zombie_children[p]), p)
    /\ UNCHANGED <<pid, proc_waiting, page_table, tableVars, schedVars, semVars,
                   resume, mode>>

(* The rest of sys_exit.  init_proc has no parent: nullptr is read and     *)
(* written, and the kernel goes no further.                                *)
exit_finish(p) ==
    /\ Resumes(p, "exit")
    /\ list_empty(children[p]) /\ list_empty(zombie_children[p])
    /\ \/ /\ parent[p] = NULL
          /\ mode' = "hung"
          /\ UNCHANGED <<treeVars, schedVars>>
       \/ /\ parent[p] # NULL
          /\ LET par   == parent[p]
                 woken == state[par] = "WAIT_CHILD"
                 k     == IF woken THEN sched_update_state(Sched, par, "READY")
                          ELSE Sched
             IN  /\ children' = [children EXCEPT ![par] = list_remove(@, p)]
                 /\ zombie_children' =
                        [zombie_children EXCEPT ![par] = list_push_back(@, p)]
                 /\ proc_waiting' = IF woken
                                    THEN [proc_waiting EXCEPT ![par] = p]
                                    ELSE proc_waiting
                 /\ SetSched(sched_update_state(k, p, "ZOMBIE"))
          /\ UNCHANGED <<pid, parent, page_table>>
    /\ UNCHANGED <<tableVars, semVars, resume>>

(* Mutant: a process without a child is not turned away. *)
sys_wait_NoEchild(p) ==
    /\ Ecall(p)
    /\ \/ /\ ~list_empty(zombie_children[p])
          /\ proc_deinit(list_first_entry(zombie_children[p]), p)
          /\ UNCHANGED <<ready_queue, curr_proc, wait_queue, semVars, mode>>
       \/ /\ list_empty(zombie_children[p])
          /\ SetSched(sched_update_state(Sched, p, "WAIT_CHILD"))
          /\ resume' = [resume EXCEPT ![p] = "wait_child"]
          /\ UNCHANGED <<treeVars, tableVars, semVars>>

(* Mutant: the waiter returns to its program when it is switched to again. *)
sys_wait_Returns(p) ==
    /\ Ecall(p)
    /\ ~list_empty(children[p])
    /\ SetSched(sched_update_state(Sched, p, "WAIT_CHILD"))
    /\ UNCHANGED <<treeVars, tableVars, semVars, resume>>

(* Mutant: any zombie of the system is collected. *)
sys_wait_Any(p) ==
    /\ Ecall(p)
    /\ \E q \in Proc :
          /\ ~list_empty(zombie_children[q])
          /\ proc_deinit(list_first_entry(zombie_children[q]), q)
    /\ UNCHANGED <<ready_queue, curr_proc, wait_queue, semVars, mode>>

(* sys_wait without a child returns ECHILD and changes nothing; with a     *)
(* zombie it collects the first one; else it waits for a child to exit.    *)
sys_wait(p) ==
    /\ Ecall(p)
    /\ \/ /\ ~list_empty(zombie_children[p])
          /\ proc_deinit(list_first_entry(zombie_children[p]), p)
          /\ UNCHANGED <<ready_queue, curr_proc, wait_queue, semVars, mode>>
       \/ /\ list_empty(zombie_children[p]) /\ ~list_empty(children[p])
          /\ SetSched(sched_update_state(Sched, p, "WAIT_CHILD"))
          /\ resume' = [resume EXCEPT ![p] = "wait_child"]
          /\ UNCHANGED <<treeVars, tableVars, semVars>>

(* The waiter, switched to again, collects the child named to it. *)
wait_resume(p) ==
    /\ Resumes(p, "wait_child")
    /\ proc_deinit(proc_waiting[p], p)
    /\ UNCHANGED <<ready_queue, curr_proc, wait_queue, semVars, mode>>

-----------------------------------------------------------------------------
(* The terminal's semaphore: a read waits for a permit per byte, and the   *)
(* interrupt of the terminal that completes a line signals its bytes.      *)

(* Mutant: the last permit makes its taker wait. *)
sem_wait_TooSoon(p) ==
    /\ sem_val' = sem_val - 1
    /\ IF sem_val - 1 <= 0
       THEN /\ sem_queue' = list_push_back(sem_queue, p)
            /\ SetSched(sched_update_state(Sched, p, "WAIT_SEM"))
       ELSE UNCHANGED <<sem_queue, schedVars, mode>>
    /\ UNCHANGED <<treeVars, tableVars, signals>>

sem_wait(p) ==
    /\ sem_val' = sem_val - 1
    /\ IF sem_val - 1 < 0
       THEN /\ sem_queue' = list_push_back(sem_queue, p)
            /\ SetSched(sched_update_state(Sched, p, "WAIT_SEM"))
       ELSE UNCHANGED <<sem_queue, schedVars, mode>>
    /\ UNCHANGED <<treeVars, tableVars, signals>>

(* sys_read of at least one byte (one of none, or of a bad descriptor,     *)
(* changes nothing), up to the first byte it may take.                     *)
sys_read(p) ==
    /\ Ecall(p)
    /\ sem_wait(p)
    /\ resume' = [resume EXCEPT ![p] = "read"]

(* The byte is taken.  The read is over when the buffer is full or the     *)
(* byte ends the line, else it waits for the next byte.                    *)
read_byte(p) ==
    /\ Resumes(p, "read")
    /\ \/ /\ resume' = [resume EXCEPT ![p] = "user"]
          /\ UNCHANGED <<treeVars, tableVars, schedVars, semVars, mode>>
       \/ sem_wait(p) /\ UNCHANGED resume

(* The external interrupt of the terminal commits a line of n bytes. *)
ext_intr(n) ==
    /\ Interruptible
    /\ sem_val + n <= MaxPermits
    /\ signals' = n
    /\ UNCHANGED <<treeVars, tableVars, schedVars, sem_val, sem_queue, resume, mode>>

sem_signal ==
    /\ mode = "run" /\ signals > 0
    /\ signals' = signals - 1
    /\ sem_val' = sem_val + 1
    /\ IF sem_val < 0
       THEN /\ sem_queue' = list_pop_front(sem_queue)
            /\ SetSched(sched_update_state(Sched, list_first_entry(sem_queue), "READY"))
       ELSE UNCHANGED <<sem_queue, schedVars, mode>>
    /\ UNCHANGED <<treeVars, tableVars, resume>>

-----------------------------------------------------------------------------
(* timer_isr takes the first timer off the queue and calls its callback,   *)
(* sched_preempt for the one of the time slice, wakeup_proc for a sleeper. *)

sched_preempt ==
    /\ Interruptible
    /\ ~list_empty(wait_queue) /\ list_first_entry(wait_queue) = SchedTimer
    /\ \E i \in 1..Len(wait_queue) :
          SetSched(sched_resched([Sched EXCEPT
              !.wait_queue = timer_wait(list_pop_front(@), SchedTimer, i)]))
    /\ UNCHANGED <<treeVars, tableVars, semVars, resume>>

wakeup_proc ==
    /\ Interruptible
    /\ ~list_empty(wait_queue) /\ list_first_entry(wait_queue) # SchedTimer
    /\ SetSched(sched_update_state([Sched EXCEPT !.wait_queue = list_pop_front(@)],
                                   list_first_entry(wait_queue), "READY"))
    /\ UNCHANGED <<treeVars, tableVars, semVars, resume>>

(* The machine is off, restarting or hung. *)
stopped == mode \in {"hung", "halted"} /\ UNCHANGED vars

-----------------------------------------------------------------------------
Init ==
    /\ state = [p \in Proc |-> "FREE"]
    /\ pid = [p \in Proc |-> 0]
    /\ parent = [p \in Proc |-> NULL]
    /\ children = [p \in Proc |-> <<>>]
    /\ zombie_children = [p \in Proc |-> <<>>]
    /\ proc_waiting = [p \in Proc |-> NULL]
    /\ page_table = [p \in Proc |-> FALSE]
    /\ resume = [p \in Proc |-> "user"]
    /\ proc_table = [i \in Pid |-> NULL]
    /\ last_pid = PROC_TABLE_SIZE - 1
    /\ ready_queue = <<>> /\ curr_proc = NULL /\ wait_queue = <<>>
    /\ sem_val = 0 /\ sem_queue = <<>> /\ signals = 0
    /\ mode = "boot"

Boot == init_idle \/ kmain \/ sched_start \/ panic

Syscall(p) ==
    \/ sys_yield(p) \/ sys_sleep(p) \/ sys_reboot(p)
    \/ sys_exit(p) \/ sys_wait(p) \/ sys_read(p)
    \/ \E c \in Proc : sys_proc(p, c)

(* Kernel code that is under way: it runs on without interruption. *)
KernelStep ==
    \/ \E p \in Proc : exit_adopt(p) \/ exit_finish(p) \/ wait_resume(p) \/ read_byte(p)
    \/ sem_signal

TimerIsr == sched_preempt \/ wakeup_proc

Next ==
    \/ Boot
    \/ \E p \in Proc : Syscall(p)
    \/ KernelStep
    \/ TimerIsr
    \/ \E n \in 1..MaxPermits : ext_intr(n)
    \/ stopped

Spec == Init /\ [][Next]_vars

-----------------------------------------------------------------------------
(* Types of the variables. *)
TreeTypeOK ==
    /\ pid \in [Proc -> Pid]
    /\ parent \in [Proc -> Proc \cup {NULL}]
    /\ children \in [Proc -> Seq(Proc)]
    /\ zombie_children \in [Proc -> Seq(Proc)]
    /\ proc_waiting \in [Proc -> Proc \cup {NULL}]
    /\ page_table \in [Proc -> BOOLEAN]

TableTypeOK ==
    /\ proc_table \in [Pid -> Proc \cup {NULL}]
    /\ last_pid \in Pid

SchedTypeOK ==
    /\ state \in [Proc -> ProcState]
    /\ ready_queue \in Seq(Proc)
    /\ curr_proc \in Proc \cup {NULL}
    /\ wait_queue \in Seq(Timer)

SemTypeOK ==
    /\ sem_val \in Int
    /\ sem_queue \in Seq(Proc)
    /\ signals \in 0..MaxPermits
    /\ sem_val + signals <= MaxPermits

TypeOK ==
    /\ TreeTypeOK /\ TableTypeOK /\ SchedTypeOK /\ SemTypeOK
    /\ resume \in [Proc -> {"user", "exit", "wait_child", "read"}]
    /\ mode \in {"boot", "run", "hung", "halted"}

(* proc_t.node is the one link for the ready queue and for the queue of a  *)
(* semaphore, proc_t.timer the one for sleeping.  After every operation    *)
(* each queue holds exactly the processes in the state it is for, once     *)
(* each, and curr_proc is the only process in state CURR; so no node is on *)
(* two lists, and no process is lost or queued twice (sched.c, sem.c,      *)
(* timer.c: the calls to list_remove and list_push that have to pair up).  *)
QueuesMatchStates ==
    /\ IsList(ready_queue) /\ IsList(sem_queue) /\ IsList(wait_queue)
    /\ \A p \in Proc :
        /\ p \in Range(ready_queue) <=> state[p] = "READY"
        /\ p \in Range(sem_queue)   <=> state[p] = "WAIT_SEM"
        /\ p \in Range(wait_queue)  <=> state[p] = "SLEEP"
        /\ p = curr_proc             <=> state[p] = "CURR"
    /\ SchedTimer \in Range(wait_queue) <=> curr_proc # NULL

(* sched_resched takes the first entry of the ready queue without a test   *)
(* that there is one.  There always is: idle_proc, once made, is ready or  *)
(* running, whatever the other processes do.                               *)
IdleRunnable ==
    /\ mode = "run" => state[Idle] \in {"READY", "CURR"}
    /\ mode = "run" /\ curr_proc # Idle => ~list_empty(ready_queue)

(* A semaphore below zero counts its waiters (sem.c: val and wait_queue    *)
(* are changed apart, val first); at zero or above it has none.            *)
SemCountsWaiters ==
    Len(sem_queue) = IF sem_val < 0 THEN -sem_val ELSE 0

(* The process tree.  The children list of a process holds exactly its     *)
(* live children and the zombie list its zombies, in both cases the        *)
(* processes whose parent pointer names it; the parent is itself alive, so *)
(* no pointer to a freed or exited process is followed in sys_exit.        *)
TreeConsistent ==
    \A p \in Proc :
        /\ IsList(children[p]) /\ IsList(zombie_children[p])
        /\ \A c \in Proc :
            /\ c \in Range(children[p]) <=> parent[c] = p /\ Alive(c)
            /\ c \in Range(zombie_children[p]) <=> parent[c] = p /\ state[c] = "ZOMBIE"
        /\ parent[p] # NULL => InTree(p) /\ Alive(parent[p])
        /\ InTree(p) /\ parent[p] = NULL => p \in {Idle, InitProc}

(* Adoption keeps the tree a tree: following parent pointers from any      *)
(* process never goes round in a circle, so it ends at init_proc (or is    *)
(* idle_proc itself).                                                      *)
TreeAcyclic ==
    \A S \in SUBSET {p \in Proc : parent[p] # NULL} :
        S # {} => \E p \in S : parent[p] \notin S

(* The process table names exactly the processes of the tree, each at its  *)
(* own identifier, and no object whose proc_init failed; idle has          *)
(* identifier 0 and init 1, which sys_exit and the docs rely on.           *)
TableConsistent ==
    /\ \A i \in Pid : proc_table[i] # NULL =>
           InTree(proc_table[i]) /\ pid[proc_table[i]] = i
    /\ \A p \in Proc : InTree(p) => proc_table[pid[p]] = p
    /\ mode = "run" => proc_table[0] = Idle /\ proc_table[1] = InitProc

(* proc_waiting is set by another process's exit and read when the waiter  *)
(* is switched to again.  Between the two nothing else runs: a process     *)
(* that has left WAIT_CHILD inside sys_wait is the current one, and        *)
(* proc_waiting is an uncollected zombie child of its own.                 *)
WaiterGetsItsZombie ==
    \A p \in Proc : resume[p] = "wait_child" =>
        \/ state[p] = "WAIT_CHILD"
        \/ p = curr_proc /\ proc_waiting[p] \in Range(zombie_children[p])

(* Only the exit of a child ends WAIT_CHILD, so a process in that state    *)
(* has a live child at all times; it never waits for nobody.               *)
WaiterHasLiveChild ==
    \A p \in Proc : state[p] = "WAIT_CHILD" => ~list_empty(children[p])

(* A process blocked inside the kernel is inside the code that blocks in   *)
(* that way, and one that exits is never put back in a queue: it is the    *)
(* current process until it is a zombie.                                   *)
BlockedInItsCall ==
    \A p \in Proc :
        /\ state[p] = "WAIT_SEM" => resume[p] = "read"
        /\ state[p] = "WAIT_CHILD" => resume[p] = "wait_child"
        /\ state[p] \in {"SLEEP", "FREE", "INIT"} => resume[p] = "user"
        /\ state[p] = "ZOMBIE" <=> resume[p] = "exit" /\ p # curr_proc

(* Until the scheduler starts there are idle_proc and init_proc and no     *)
(* other, made in this order, which is what gives them their identifiers;  *)
(* from then on there is always a current process, init_proc lives, and    *)
(* neither of the two is anybody's child.                                  *)
BootOrder ==
    /\ mode = "boot" =>
        /\ curr_proc = NULL /\ wait_queue = <<>>
        /\ \A p \in Proc : resume[p] = "user" /\ parent[p] = NULL
        /\ \A p \in Proc \ {Idle, InitProc} : state[p] = "FREE"
        /\ \/ /\ state[Idle] = "FREE" /\ state[InitProc] = "FREE"
              /\ last_pid = PROC_TABLE_SIZE - 1
              /\ \A i \in Pid : proc_table[i] = NULL
           \/ /\ state[Idle] = "READY" /\ state[InitProc] = "FREE"
              /\ last_pid = 0 /\ proc_table[0] = Idle
              /\ \A i \in Pid \ {0} : proc_table[i] = NULL
           \/ /\ state[Idle] = "READY" /\ state[InitProc] = "READY"
              /\ proc_table[0] = Idle /\ proc_table[1] = InitProc
    /\ mode = "run" =>
        /\ curr_proc # NULL /\ resume[Idle] = "user"
        /\ Alive(InitProc) /\ parent[InitProc] = NULL /\ parent[Idle] = NULL

(* The inductive invariant: none of its parts is preserved without the     *)
(* others (a zombie is freed without a look at the queues, the scheduler   *)
(* takes the front of a queue without a look at its length, ...).          *)
KernelInv ==
    /\ TypeOK /\ QueuesMatchStates /\ IdleRunnable /\ SemCountsWaiters
    /\ TreeConsistent /\ TableConsistent /\ WaiterGetsItsZombie
    /\ BlockedInItsCall /\ BootOrder

(* A zombie stays one until its parent, running, collects it (wait.c is    *)
(* the only place that frees a process).                                   *)
ZombieCollectedByParent ==
    [][\A z \in Proc : state[z] = "ZOMBIE" =>
        \/ state'[z] = "ZOMBIE"
        \/ state'[z] = "FREE" /\ parent[z] = curr_proc]_vars

(* An identifier is taken from a process only when that process, a zombie, *)
(* is collected: a new process never displaces another in proc_table.      *)
PidGivenOnce ==
    [][\A i \in Pid : proc_table[i] # NULL /\ proc_table'[i] # proc_table[i] =>
        proc_table'[i] = NULL /\ state[proc_table[i]] = "ZOMBIE"]_vars

(* Every exit but that of init_proc comes to its end: the adoption loops   *)
(* empty the lists they run over.                                          *)
ExitCompletes ==
    \A p \in Proc \ {InitProc} :
        p = curr_proc /\ resume[p] = "exit" ~> state[p] = "ZOMBIE"

(* sched_start runs whatever is first in the ready queue.  That is         *)
(* init_proc, on every platform, and the hart does not stop there: it was  *)
(* made ready after idle_proc, which has no page table, and ready          *)
(* processes go to the front (sched.c: init, sched_start; kmain.c; trap.S: *)
(* proc_entry).                                                            *)
StartsOnInit ==
    [][mode = "boot" /\ curr_proc' # NULL =>
        curr_proc' = InitProc /\ mode' = "run"]_vars

-----------------------------------------------------------------------------
(* What docs/README.md says of this layer and the code does not do.        *)

(* Line 28, "a round-robin strategy": a ready process gets its turn.       *)
RoundRobin ==
    \A p \in Proc \ {Idle} :
        state[p] = "READY" ~> state[p] # "READY" \/ mode # "run"

(* Line 21, a process in WAIT waits for "the termination of a child        *)
(* process": none that it could collect is there already.                  *)
NoZombieWhileWaiting ==
    \A p \in Proc : mode = "run" /\ state[p] = "WAIT_CHILD"
                       /\ resume[curr_proc] # "exit" =>
        list_empty(zombie_children[p])

(* Line 17, "Each process owns various resources, such as a page table". *)
OwnsPageTable ==
    \A p \in Proc \ {Idle} : Alive(p) => page_table[p]

(* Line 25, the idle process "simply waits when there are no other         *)
(* processes ready to be scheduled": switching to it does not hang.        *)
IdleSimplyWaits == curr_proc = Idle => mode # "hung"

-----------------------------------------------------------------------------
(* Kernel code runs on by itself. *)
KernelProgress == WF_vars(Boot) /\ WF_vars(KernelStep)

(* A pending timer interrupt is taken as soon as the hart is back in user  *)
(* mode, which it may be for a few instructions only.                      *)
TimerProgress == SF_vars(sched_preempt) /\ SF_vars(wakeup_proc)

FairSpec == Spec /\ KernelProgress /\ TimerProgress
=============================================================================

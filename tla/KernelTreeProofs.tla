-------------------------- MODULE KernelTreeProofs --------------------------
(***************************************************************************)
(* Proofs about how the process tree and the process table change from one *)
(* state to the next, and that only a process with a page table runs, from *)
(* the invariant proved in KernelProofs.                                   *)
(***************************************************************************)
EXTENDS KernelProofs

-----------------------------------------------------------------------------
(* The current process collects z (sys_wait, before or after a switch). *)
Collects(z) ==
    /\ mode = "run" /\ curr_proc \in Proc
    /\ z \in Proc /\ z \in Range(zombie_children[curr_proc])
    /\ proc_deinit(z, curr_proc)

(* Object c becomes a process with parent par. *)
Creates(c, par) ==
    /\ state[c] = "FREE"
    /\ \/ par = NULL /\ c \in {Idle, InitProc}
       \/ mode = "run" /\ par = curr_proc /\ par \in Proc
    /\ \E table \in BOOLEAN : proc_init(c, par, table)
    /\ state' = [state EXCEPT ![c] = "READY"]

(* sys_wait does one of two things: it collects or it blocks. *)
LEMMA WaitKinds ==
    ASSUME KernelInv, NEW p \in Proc, sys_wait(p)
    PROVE  \/ \E z \in Proc : Collects(z)
           \/ UNCHANGED <<treeVars, proc_table>> /\ ~list_empty(children[p])
<1>1. mode = "run" /\ p = curr_proc
  BY DEF sys_wait, Ecall, Interruptible
<1>2. CASE /\ ~list_empty(zombie_children[p])
           /\ proc_deinit(list_first_entry(zombie_children[p]), p)
  <2>1. /\ list_first_entry(zombie_children[p]) \in Range(zombie_children[p])
        /\ list_first_entry(zombie_children[p]) \in Proc
    BY <1>2, FirstEntry DEF KernelInv, TypeOK, TreeTypeOK
  <2> QED BY <1>1, <1>2, <2>1 DEF Collects
<1> QED BY <1>2 DEF sys_wait, tableVars

(* sys_wait after the switch collects. *)
LEMMA WaitResumeKind ==
    ASSUME KernelInv, NEW p \in Proc, wait_resume(p)
    PROVE  \E z \in Proc : Collects(z)
<1>1. mode = "run" /\ p = curr_proc /\ resume[curr_proc] = "wait_child"
      /\ proc_deinit(proc_waiting[p], p)
  BY DEF wait_resume, Resumes
<1>2. state[p] = "CURR"
  BY <1>1, RunningFacts
<1>3. proc_waiting[p] \in Range(zombie_children[p])
  BY <1>1, <1>2 DEF KernelInv, WaiterGetsItsZombie
<1>4. proc_waiting[p] \in Proc
  BY <1>3, EntryType DEF KernelInv, TypeOK, TreeTypeOK
<1> QED BY <1>1, <1>3, <1>4 DEF Collects

(* The state sched_update_state leaves when a new process is made ready. *)
LEMMA NewIsReady ==
    ASSUME KernelInv, NEW c \in Proc, state[c] = "FREE"
    PROVE  sched_update_state(Sched, c, "READY").state = [state EXCEPT ![c] = "READY"]
<1>1. Sched \in SchedType
  BY DEF Sched, SchedType, KernelInv, TypeOK, SchedTypeOK
<1>2. Sched.state = state
  BY DEF Sched
<1> QED BY <1>1, <1>2, MakeReady

(* sys_proc makes a process or leaves tree and table alone. *)
LEMMA ProcKinds ==
    ASSUME KernelInv, NEW p \in Proc, NEW c \in Proc, sys_proc(p, c)
    PROVE  Creates(c, p) \/ UNCHANGED <<treeVars, proc_table>>
<1>1. mode = "run" /\ p = curr_proc /\ state[c] = "FREE"
  BY DEF sys_proc, Ecall, Interruptible
<1>2. CASE proc_init(c, p, FALSE) /\ SetSched(sched_update_state(Sched, c, "READY"))
  <2>1. state' = [state EXCEPT ![c] = "READY"]
    BY <1>1, <1>2, NewIsReady DEF SetSched
  <2> QED BY Zenon, <1>1, <1>2, <2>1 DEF Creates
<1>3. CASE proc_init_fails(c)
  BY <1>3 DEF proc_init_fails
<1> QED BY Zenon, <1>2, <1>3 DEF sys_proc

(* What a step can do to the tree and the table. *)
LEMMA StepKinds ==
    ASSUME KernelInv, [Next]_vars
    PROVE  \/ UNCHANGED <<treeVars, proc_table>>
           \/ \E p \in Proc : exit_adopt(p)
           \/ \E p \in Proc : exit_finish(p)
           \/ \E z \in Proc : Collects(z)
           \/ \E c \in Proc : \E par \in Proc \cup {NULL} : Creates(c, par)
<1>1. CASE init_idle
  BY Zenon, <1>1, NewIsReady, ProcAssumption DEF init_idle, Creates
<1>2. CASE kmain
  BY Zenon, <1>2, NewIsReady, ProcAssumption DEF kmain, Creates
<1>3. CASE sched_start \/ panic \/ sem_signal \/ sched_preempt \/ wakeup_proc
  BY <1>3 DEF sched_start, panic, sem_signal, sched_preempt, wakeup_proc, tableVars
<1>4. ASSUME NEW p \in Proc, Syscall(p)
      PROVE  \/ UNCHANGED <<treeVars, proc_table>>
             \/ \E z \in Proc : Collects(z)
             \/ \E c \in Proc : Creates(c, p)
  <2>1. CASE sys_yield(p) \/ sys_sleep(p) \/ sys_reboot(p) \/ sys_exit(p) \/ sys_read(p)
    BY <2>1 DEF sys_yield, sys_sleep, sys_reboot, sys_exit, sys_read, sem_wait, tableVars
  <2>2. CASE sys_wait(p)
    BY <2>2, WaitKinds
  <2>3. CASE \E c \in Proc : sys_proc(p, c)
    BY <2>3, ProcKinds
  <2> QED BY <1>4, <2>1, <2>2, <2>3 DEF Syscall
<1>5. ASSUME NEW p \in Proc, read_byte(p)
      PROVE  UNCHANGED <<treeVars, proc_table>>
  BY <1>5 DEF read_byte, sem_wait, tableVars
<1>6. CASE \E p \in Proc : wait_resume(p)
  BY <1>6, WaitResumeKind
<1>7. CASE \E n \in 1..MaxPermits : ext_intr(n)
  BY <1>7 DEF ext_intr, tableVars
<1>8. CASE UNCHANGED vars
  BY <1>8 DEF vars, tableVars
<1> QED BY <1>1, <1>2, <1>3, <1>4, <1>5, <1>6, <1>7, <1>8
    DEF Next, Boot, KernelStep, TimerIsr, stopped

-----------------------------------------------------------------------------
(* Unless it runs, the kernel boots or does nothing. *)
LEMMA OnlyBootUntilRun ==
    ASSUME [Next]_vars, mode # "run"
    PROVE  Boot \/ UNCHANGED vars
<1>1. \A p \in Proc : ~Syscall(p)
  BY ZenonT(60) DEF Syscall, sys_yield, sys_sleep, sys_reboot, sys_exit, sys_wait, sys_read, sys_proc,
         Ecall, Interruptible
<1>2. ~KernelStep
  BY DEF KernelStep, exit_adopt, exit_finish, wait_resume, read_byte, sem_signal, Resumes
<1>3. ~TimerIsr /\ \A n \in 1..MaxPermits : ~ext_intr(n)
  BY DEF TimerIsr, sched_preempt, wakeup_proc, ext_intr, Interruptible
<1> QED BY <1>1, <1>2, <1>3 DEF Next, stopped

(* Once the machine has stopped, nothing changes. *)
LEMMA StoppedForGood ==
    ASSUME [Next]_vars, mode \in {"hung", "halted"}
    PROVE  UNCHANGED vars
<1>1. ~Boot
  BY Zenon DEF Boot, init_idle, kmain, sched_start, panic, Booting
<1> QED BY <1>1, OnlyBootUntilRun

(* While the kernel runs, a zombie is on its parent's list of zombies. *)
LEMMA ZombieHasParent ==
    ASSUME KernelInv, mode \notin {"hung", "halted"}, NEW z \in Proc, state[z] = "ZOMBIE"
    PROVE  parent[z] \in Proc /\ z \in Range(zombie_children[parent[z]])
<1>1. mode = "run"
  BY DEF KernelInv, TypeOK, BootOrder, BlockedInItsCall
<1>2. z # Idle /\ z # InitProc
  BY <1>1 DEF KernelInv, IdleRunnable, BootOrder, Alive, LiveState
<1>3. parent[z] # NULL
  BY <1>2 DEF KernelInv, TreeConsistent, InTree
<1>4. parent[z] \in Proc
  BY <1>3 DEF KernelInv, TypeOK, TreeTypeOK
<1> QED BY <1>4 DEF KernelInv, TreeConsistent

(* What proc_deinit does to the tree and the table. *)
LEMMA CollectEffect ==
    ASSUME KernelInv, NEW z \in Proc, Collects(z)
    PROVE  /\ state[z] = "ZOMBIE" /\ parent[z] = curr_proc
           /\ state' = [state EXCEPT ![z] = "FREE"]
           /\ parent' = [parent EXCEPT ![z] = NULL]
           /\ proc_table' = [proc_table EXCEPT ![pid[z]] = NULL]
           /\ pid[z] \in Pid /\ proc_table[pid[z]] = z
           /\ UNCHANGED children
<1>1. state[z] = "ZOMBIE" /\ parent[z] = curr_proc
  BY DEF Collects, KernelInv, TreeConsistent
<1>2. pid[z] \in Pid /\ proc_table[pid[z]] = z
  BY <1>1 DEF KernelInv, TypeOK, TreeTypeOK, TableConsistent, InTree
<1> QED BY <1>1, <1>2 DEF Collects, proc_deinit

(* A step frees a zombie only if the current process is its parent. *)
LEMMA ZombieStep ==
    ASSUME KernelInv, KernelInv', [Next]_vars, NEW z \in Proc, state[z] = "ZOMBIE"
    PROVE  state'[z] = "ZOMBIE" \/ (state'[z] = "FREE" /\ parent[z] = curr_proc)
<1>1. CASE mode \in {"hung", "halted"}
  BY <1>1, StoppedForGood DEF vars, schedVars
<1>2. CASE mode \notin {"hung", "halted"}
  <2>1. parent[z] \in Proc /\ z \in Range(zombie_children[parent[z]])
    BY <1>2, ZombieHasParent
  <2>2. state \in [Proc -> ProcState]
    BY DEF KernelInv, TypeOK, SchedTypeOK
  <2>3. \A par \in Proc : z \in Range(zombie_children'[par]) => state'[z] = "ZOMBIE"
    BY DEF KernelInv, TreeConsistent
  <2>4. CASE UNCHANGED <<treeVars, proc_table>>
    BY <2>1, <2>3, <2>4 DEF treeVars
  <2>5. ASSUME NEW p \in Proc, exit_adopt(p) PROVE state'[z] = "ZOMBIE"
    BY <2>5 DEF exit_adopt, schedVars
  <2>6. ASSUME NEW p \in Proc, exit_finish(p) PROVE state'[z] = "ZOMBIE"
    <3>1. CASE UNCHANGED <<treeVars, schedVars>>
      BY <3>1 DEF schedVars
    <3>2. CASE parent[p] # NULL /\ zombie_children' =
                  [zombie_children EXCEPT ![parent[p]] = list_push_back(@, p)]
      <4>1. zombie_children \in [Proc -> Seq(Proc)] /\ parent[p] \in Proc
        BY <3>2 DEF KernelInv, TypeOK, TreeTypeOK
      <4> DEFINE r == list_push_back(zombie_children[parent[p]], p)
      <4>2. Range(r) = Range(zombie_children[parent[p]]) \cup {p}
        BY ZenonT(60), <4>1, PushBack
      <4> HIDE DEF r
      <4>3. zombie_children' = [zombie_children EXCEPT ![parent[p]] = r]
        BY <3>2 DEF r
      <4>4. z \in Range(zombie_children'[parent[z]])
        BY <2>1, <4>1, <4>2, <4>3
      <4> QED BY <2>1, <2>3, <4>4
    <3> QED BY <2>6, <3>1, <3>2 DEF exit_finish
  <2>7. ASSUME NEW y \in Proc, Collects(y)
        PROVE  state'[z] = "ZOMBIE" \/ (state'[z] = "FREE" /\ parent[z] = curr_proc)
    BY <2>2, <2>7, CollectEffect
  <2>8. ASSUME NEW c \in Proc, NEW par \in Proc \cup {NULL}, Creates(c, par)
        PROVE  state'[z] = "ZOMBIE"
    BY <2>2, <2>8 DEF Creates
  <2> QED BY <2>4, <2>5, <2>6, <2>7, <2>8, StepKinds
<1> QED BY <1>1, <1>2

(* A zombie stays one until its parent, running, collects it. *)
THEOREM OnlyParentCollects == Spec => ZombieCollectedByParent
<1>1. KernelInv /\ KernelInv' /\ [Next]_vars =>
         [\A z \in Proc : state[z] = "ZOMBIE" =>
             \/ state'[z] = "ZOMBIE"
             \/ state'[z] = "FREE" /\ parent[z] = curr_proc]_vars
  BY ZombieStep
<1> QED BY <1>1, KernelInvariant, PTL DEF Spec, ZombieCollectedByParent

(* A step takes an identifier away only from a zombie. *)
LEMMA TableStep ==
    ASSUME KernelInv, [Next]_vars, NEW i \in Pid, proc_table[i] # NULL,
           proc_table'[i] # proc_table[i]
    PROVE  proc_table'[i] = NULL /\ state[proc_table[i]] = "ZOMBIE"
<1>1. proc_table \in [Pid -> Proc \cup {NULL}]
  BY DEF KernelInv, TypeOK, TableTypeOK
<1>2. ~(UNCHANGED <<treeVars, proc_table>>)
  OBVIOUS
<1>3. \A p \in Proc : ~exit_adopt(p) /\ ~exit_finish(p)
  BY DEF exit_adopt, exit_finish, tableVars
<1>4. ASSUME NEW z \in Proc, Collects(z)
      PROVE  proc_table'[i] = NULL /\ state[proc_table[i]] = "ZOMBIE"
  BY <1>1, <1>4, CollectEffect
<1>5. ASSUME NEW c \in Proc, NEW par \in Proc \cup {NULL}, Creates(c, par)
      PROVE  FALSE
  <2>1. new_pid \in Pid /\ proc_table' = [proc_table EXCEPT ![new_pid] = c]
    BY <1>5 DEF Creates, proc_init
  <2>2. proc_table[new_pid] = NULL
    BY <2>1, NewPid DEF KernelInv
  <2> QED BY <1>1, <2>1, <2>2
<1> QED BY <1>2, <1>3, <1>4, <1>5, StepKinds

(* A new process never displaces another in the table (new_pid). *)
THEOREM PidNeverStolen == Spec => PidGivenOnce
<1>1. KernelInv /\ [Next]_vars =>
         [\A i \in Pid : proc_table[i] # NULL /\ proc_table'[i] # proc_table[i] =>
             proc_table'[i] = NULL /\ state[proc_table[i]] = "ZOMBIE"]_vars
  BY TableStep
<1> QED BY <1>1, KernelInvariant, PTL DEF Spec, PidGivenOnce

-----------------------------------------------------------------------------
(* What an iteration of an adoption loop does to the tree. *)
LEMMA AdoptEffect ==
    ASSUME KernelInv, NEW p \in Proc, exit_adopt(p)
    PROVE  /\ mode = "run" /\ p = curr_proc /\ UNCHANGED <<state, mode>>
           /\ \E c \in Proc : parent[c] = p /\ parent' = [parent EXCEPT ![c] = InitProc]
<1>1. mode = "run" /\ p = curr_proc /\ UNCHANGED <<state, mode>>
  BY DEF exit_adopt, Resumes, schedVars
<1>2. proc_table[1] = InitProc
  BY <1>1 DEF KernelInv, TableConsistent
<1>3. children[p] \in Seq(Proc) /\ zombie_children[p] \in Seq(Proc)
  BY DEF KernelInv, TypeOK, TreeTypeOK
<1>4. ASSUME ~list_empty(children[p]),
             proc_adopt(proc_table[1], list_first_entry(children[p]), p)
      PROVE  \E c \in Proc : parent[c] = p /\ parent' = [parent EXCEPT ![c] = InitProc]
  <2>1. /\ list_first_entry(children[p]) \in Range(children[p])
        /\ list_first_entry(children[p]) \in Proc
    BY <1>3, <1>4, FirstEntry
  <2> QED BY ZenonT(60), <1>2, <1>4, <2>1 DEF KernelInv, TreeConsistent, proc_adopt
<1>5. ASSUME ~list_empty(zombie_children[p]),
             proc_adopt(proc_table[1], list_first_entry(zombie_children[p]), p)
      PROVE  \E c \in Proc : parent[c] = p /\ parent' = [parent EXCEPT ![c] = InitProc]
  <2>1. /\ list_first_entry(zombie_children[p]) \in Range(zombie_children[p])
        /\ list_first_entry(zombie_children[p]) \in Proc
    BY <1>3, <1>5, FirstEntry
  <2> QED BY ZenonT(60), <1>2, <1>5, <2>1 DEF KernelInv, TreeConsistent, proc_adopt
<1> QED BY <1>1, <1>4, <1>5 DEF exit_adopt

(* No step closes a circle of parent pointers. *)
LEMMA AcyclicStep ==
    ASSUME KernelInv, KernelInv', TreeAcyclic, [Next]_vars
    PROVE  TreeAcyclic'
<1> SUFFICES ASSUME NEW S \in SUBSET {p \in Proc : parent'[p] # NULL}, S # {}
             PROVE  \E p \in S : parent'[p] \notin S
  BY DEF TreeAcyclic
<1>1. parent \in [Proc -> Proc \cup {NULL}]
  BY DEF KernelInv, TypeOK, TreeTypeOK
<1>2. \A T \in SUBSET {p \in Proc : parent[p] # NULL} :
         T # {} => \E p \in T : parent[p] \notin T
  BY DEF TreeAcyclic
<1>3. CASE UNCHANGED parent
  BY <1>2, <1>3
<1>4. ASSUME NEW q \in Proc, exit_adopt(q) PROVE \E p \in S : parent'[p] \notin S
  <2>1. PICK c \in Proc : parent' = [parent EXCEPT ![c] = InitProc]
    BY SMTT(30), <1>4, AdoptEffect
  <2>2. parent'[InitProc] = NULL
    BY SMTT(30), <1>4, AdoptEffect DEF KernelInv, BootOrder
  <2>3. CASE c \in S
    BY <1>1, <2>1, <2>2, <2>3
  <2>4. CASE c \notin S
    <3>1. S \in SUBSET {p \in Proc : parent[p] # NULL}
      BY SMTT(30), <1>1, <2>1, <2>4
    <3> QED BY <1>1, <1>2, <2>1, <2>4, <3>1
  <2> QED BY <2>3, <2>4
<1>5. ASSUME NEW p \in Proc, exit_finish(p) PROVE UNCHANGED parent
  BY <1>5 DEF exit_finish, treeVars
<1>6. ASSUME NEW z \in Proc, Collects(z) PROVE \E p \in S : parent'[p] \notin S
  <2>1. parent' = [parent EXCEPT ![z] = NULL]
    BY <1>6, CollectEffect
  <2>2. z \notin S /\ S \in SUBSET {p \in Proc : parent[p] # NULL}
    BY <1>1, <2>1
  <2> QED BY <1>1, <1>2, <2>1, <2>2
<1>7. ASSUME NEW c \in Proc, NEW par \in Proc \cup {NULL}, Creates(c, par)
      PROVE  \E p \in S : parent'[p] \notin S
  <2>1. parent' = [parent EXCEPT ![c] = par] /\ state[c] = "FREE"
    BY <1>7 DEF Creates, proc_init
  <2>2. parent[c] = NULL /\ \A q \in Proc : parent[q] # c
    BY <2>1, FreeObject
  <2>3. par # c
    BY <1>7, <2>1, RunningFacts, ProcAssumption DEF Creates
  <2> DEFINE T == S \ {c}
  <2>4. T \in SUBSET {p \in Proc : parent[p] # NULL}
    BY <1>1, <2>1
  <2>5. CASE T # {}
    <3>1. PICK p \in T : parent[p] \notin T
      BY Zenon, <1>2, <2>4, <2>5
    <3>2. p \in S /\ p \in Proc /\ p # c
      OBVIOUS
    <3> QED BY <1>1, <2>1, <2>2, <3>1, <3>2
  <2>6. CASE T = {}
    <3>1. S = {c}
      BY <2>6
    <3> QED BY <1>1, <2>1, <2>3, <3>1
  <2> QED BY <2>5, <2>6
<1> QED BY <1>3, <1>4, <1>5, <1>6, <1>7, StepKinds DEF treeVars

(* Parent pointers never form a circle, however processes are made, exit   *)
(* and are adopted.                                                        *)
THEOREM TreeStaysAcyclic == Spec => []TreeAcyclic
<1>1. Init => TreeAcyclic
  <2> SUFFICES ASSUME Init, NEW S \in SUBSET {p \in Proc : parent[p] # NULL}, S # {}
               PROVE  FALSE
    BY DEF TreeAcyclic
  <2> QED BY DEF Init
<1>2. KernelInv /\ KernelInv' /\ TreeAcyclic /\ [Next]_vars => TreeAcyclic'
  BY AcyclicStep
<1> QED BY <1>1, <1>2, KernelInvariant, PTL DEF Spec

-----------------------------------------------------------------------------
(* A signal moves no process but the first waiter. *)
LEMMA SignalEffect ==
    ASSUME KernelInv, sem_signal, NEW p \in Proc
    PROVE  state'[p] = state[p] \/ state'[p] = "READY"
<1>1. CASE sem_val < 0
  <2> DEFINE w == list_first_entry(sem_queue)
  <2>1. sem_queue \in Seq(Proc) /\ ~list_empty(sem_queue)
    <3>1. sem_queue \in Seq(Proc) /\ Len(sem_queue) = -sem_val /\ sem_val \in Int
      BY <1>1 DEF KernelInv, TypeOK, SemTypeOK, SemCountsWaiters
    <3> QED BY <1>1, <3>1 DEF list_empty
  <2>2. w \in Range(sem_queue) /\ w \in Proc
    BY <2>1, FirstEntry
  <2>3. state[w] = "WAIT_SEM" /\ mode = "run"
    BY <2>2 DEF KernelInv, QueuesMatchStates, sem_signal
  <2>4. Sched \in SchedType /\ Sched.state = state
    BY <2>3, RunningFacts DEF Sched
  <2>5. sched_update_state(Sched, w, "READY").state = [state EXCEPT ![w] = "READY"]
    BY <2>2, <2>3, <2>4, MakeReady
  <2>6. state' = [state EXCEPT ![w] = "READY"]
    BY <1>1, <2>5 DEF sem_signal, SetSched
  <2>7. state \in [Proc -> ProcState]
    BY DEF KernelInv, TypeOK, SchedTypeOK
  <2> HIDE DEF w
  <2> QED BY <2>2, <2>6, <2>7
<1>2. CASE ~(sem_val < 0)
  BY <1>2 DEF sem_signal, schedVars
<1> QED BY <1>1, <1>2

(* A process comes to wait for a child only through sys_wait, with a live  *)
(* child.                                                                  *)
LEMMA WaitBegins ==
    ASSUME KernelInv, KernelInv', [Next]_vars,
           NEW p \in Proc, state'[p] = "WAIT_CHILD", state[p] # "WAIT_CHILD"
    PROVE  UNCHANGED treeVars /\ ~list_empty(children[p])
<1>1. resume'[p] = "wait_child" /\ resume \in [Proc -> {"user", "exit", "wait_child", "read"}]
  BY DEF KernelInv, TypeOK, BlockedInItsCall
<1>2. resume[p] = "wait_child" => p = curr_proc
  BY DEF KernelInv, WaiterGetsItsZombie
<1>3. resume[p] = "wait_child" => ~Interruptible
  BY <1>2 DEF Interruptible
<1>4. ~Boot
  <2>1. mode = "boot" => resume[p] = "user"
    BY SMTT(30) DEF KernelInv, BootOrder
  <2> QED BY ZenonT(60), <1>1, <2>1
      DEF Boot, init_idle, kmain, sched_start, panic, Booting
<1>5. ASSUME NEW q \in Proc, Syscall(q)
      PROVE  UNCHANGED treeVars /\ ~list_empty(children[p])
  <2>1. Interruptible
    BY Zenon, <1>5 DEF Syscall, sys_yield, sys_sleep, sys_reboot, sys_exit, sys_wait, sys_read,
                sys_proc, Ecall
  <2>2. resume[p] # "wait_child"
    BY <1>3, <2>1
  <2>3. resume' # resume
    BY <1>1, <2>2
  <2>4. ~(\E c \in Proc : sys_proc(q, c)) /\ ~sys_yield(q) /\ ~sys_sleep(q) /\ ~sys_reboot(q)
    BY ZenonT(60), <2>3 DEF sys_proc, sys_yield, sys_sleep, sys_reboot
  <2>5. ~sys_exit(q) /\ ~sys_read(q)
    BY <1>1, <2>2 DEF sys_exit, sys_read
  <2>6. sys_wait(q)
    BY SMTT(30), <1>5, <2>4, <2>5 DEF Syscall
  <2>7. CASE proc_deinit(list_first_entry(zombie_children[q]), q)
    BY <1>1, <2>2, <2>7 DEF proc_deinit
  <2>8. CASE /\ ~list_empty(children[q]) /\ UNCHANGED treeVars
             /\ resume' = [resume EXCEPT ![q] = "wait_child"]
    <3>1. q = p
      BY <1>1, <2>2, <2>8
    <3> QED BY <2>8, <3>1
  <2> QED BY <2>6, <2>7, <2>8 DEF sys_wait
<1>6. ~KernelStep
  <2>1. CASE sem_signal
    BY <2>1, SignalEffect
  <2>2. ASSUME NEW q \in Proc, exit_adopt(q) \/ exit_finish(q) PROVE FALSE
    <3>1. resume[curr_proc] = "exit" /\ UNCHANGED resume
      BY <2>2 DEF exit_adopt, exit_finish, Resumes
    <3> QED BY SMTT(30), <1>1, <1>2, <3>1
  <2>3. ASSUME NEW q \in Proc, wait_resume(q) PROVE FALSE
    <3>1. resume' = [resume EXCEPT ![q] = "user", ![proc_waiting[q]] = "user"] /\ q = curr_proc
      BY <2>3 DEF wait_resume, proc_deinit, Resumes
    <3> QED BY SMTT(30), <1>1, <1>2, <3>1
  <2>4. ASSUME NEW q \in Proc, read_byte(q) PROVE FALSE
    <3>1. /\ resume[curr_proc] = "read"
          /\ UNCHANGED resume \/ resume' = [resume EXCEPT ![q] = "user"]
      BY <2>4 DEF read_byte, Resumes
    <3> QED BY <1>1, <1>2, <3>1
  <2> QED BY <2>1, <2>2, <2>3, <2>4 DEF KernelStep
<1>7. ~TimerIsr /\ ~(\E n \in 1..MaxPermits : ext_intr(n))
  BY <1>1, <1>3 DEF TimerIsr, sched_preempt, wakeup_proc, ext_intr
<1>8. ~(UNCHANGED vars)
  BY DEF vars, schedVars
<1> QED BY SMTT(30), <1>4, <1>5, <1>6, <1>7, <1>8 DEF Next, stopped

(* The exit of a child ends the wait of its parent. *)
LEMMA ExitEndsWait ==
    ASSUME KernelInv, NEW q \in Proc, exit_finish(q), NEW p \in Proc,
           parent[q] = p, state[p] = "WAIT_CHILD"
    PROVE  state'[p] # "WAIT_CHILD"
<1>1. mode = "run" /\ q = curr_proc /\ resume[q] = "exit" /\ parent[q] # NULL
  BY ProcAssumption DEF exit_finish, Resumes
<1>2. q # Idle /\ state[q] = "CURR"
  BY ZenonT(60), <1>1, RunningFacts DEF KernelInv, BootOrder
<1>3. SetSched(sched_update_state(sched_update_state(Sched, p, "READY"), curr_proc, "ZOMBIE"))
  BY ZenonT(60), <1>1 DEF exit_finish
<1>4. state' = [[[state EXCEPT ![p] = "READY"]
                    EXCEPT ![curr_proc] = "ZOMBIE"] EXCEPT ![p] = "CURR"]
  BY SMTT(30), <1>1, <1>2, <1>3, ExitSwitchesToParent
<1>5. state \in [Proc -> ProcState]
  BY SMTT(30) DEF KernelInv, TypeOK, SchedTypeOK
<1> QED BY SMTT(30), <1>1, <1>4, <1>5

(* No step takes the last live child of a process that goes on waiting. *)
LEMMA WaiterStep ==
    ASSUME KernelInv, KernelInv', WaiterHasLiveChild, [Next]_vars,
           NEW p \in Proc, state'[p] = "WAIT_CHILD"
    PROVE  ~list_empty(children'[p])
<1>1. CASE state[p] # "WAIT_CHILD"
  BY <1>1, WaitBegins DEF treeVars
<1>2. CASE state[p] = "WAIT_CHILD"
  <2>1. ~list_empty(children[p]) /\ children \in [Proc -> Seq(Proc)]
    BY <1>2 DEF WaiterHasLiveChild, KernelInv, TypeOK, TreeTypeOK
  <2>2. PICK c \in Proc : c \in Range(children[p])
    BY <2>1, FirstEntry
  <2>3. parent[c] = p /\ state[c] \in LiveState
    BY ZenonT(60), <2>2 DEF KernelInv, TreeConsistent, Alive
  <2>4. parent'[c] = p /\ state'[c] \in LiveState => c \in Range(children'[p])
    BY DEF KernelInv, TreeConsistent, Alive
  <2>5. c \in Range(children'[p]) => ~list_empty(children'[p])
    BY NotEmpty
  <2>6. CASE UNCHANGED <<treeVars, proc_table>>
    BY <2>1, <2>6 DEF treeVars
  <2>7. ASSUME NEW q \in Proc, exit_adopt(q) PROVE ~list_empty(children'[p])
    <3>1. q = curr_proc /\ mode = "run" /\ UNCHANGED state
      BY <2>7, AdoptEffect
    <3>2. q # p
      BY <1>2, <3>1, RunningFacts
    <3>3. PICK d \in Proc : parent[d] = q /\ parent' = [parent EXCEPT ![d] = InitProc]
      BY <2>7, AdoptEffect
    <3>4. parent \in [Proc -> Proc \cup {NULL}]
      BY SMTT(30) DEF KernelInv, TypeOK, TreeTypeOK
    <3> QED BY <2>3, <2>4, <2>5, <3>1, <3>2, <3>3, <3>4
  <2>8. ASSUME NEW q \in Proc, exit_finish(q) PROVE ~list_empty(children'[p])
    <3>1. c # q
      BY <1>2, <2>3, <2>8, ExitEndsWait
    <3>2. CASE UNCHANGED treeVars
      BY <2>1, <3>2 DEF treeVars
    <3>3. CASE /\ parent[q] # NULL
               /\ children' = [children EXCEPT ![parent[q]] = list_remove(@, q)]
      <4> DEFINE r == list_remove(children[parent[q]], q)
      <4>1. parent[q] \in Proc
        BY <3>3 DEF KernelInv, TypeOK, TreeTypeOK
      <4>2. children[parent[q]] \in Seq(Proc) /\ IsList(children[parent[q]])
        BY ZenonT(60), <4>1 DEF KernelInv, TypeOK, TreeTypeOK, TreeConsistent
      <4>3. Range(r) = Range(children[parent[q]]) \ {q}
        BY <4>2, RemoveEntry
      <4>4. children' = [children EXCEPT ![parent[q]] = r]
        BY <3>3
      <4> HIDE DEF r
      <4>5. c \in Range(children'[p])
        BY SMTT(30), <2>1, <2>2, <3>1, <4>1, <4>3, <4>4
      <4> QED BY <2>5, <4>5
    <3> QED BY <2>8, <3>2, <3>3 DEF exit_finish
  <2>9. ASSUME NEW z \in Proc, Collects(z) PROVE ~list_empty(children'[p])
    BY <2>1, <2>9, CollectEffect
  <2>10. ASSUME NEW d \in Proc, NEW par \in Proc \cup {NULL}, Creates(d, par)
         PROVE  ~list_empty(children'[p])
    <3>1. parent' = [parent EXCEPT ![d] = par] /\ state' = [state EXCEPT ![d] = "READY"]
          /\ state[d] = "FREE"
      BY <2>10 DEF Creates, proc_init
    <3>2. d # c
      BY <2>3, <3>1 DEF LiveState
    <3>3. state \in [Proc -> ProcState] /\ parent \in [Proc -> Proc \cup {NULL}]
      BY Zenon DEF KernelInv, TypeOK, TreeTypeOK, SchedTypeOK
    <3> QED BY <2>3, <2>4, <2>5, <3>1, <3>2, <3>3
  <2> QED BY SMTT(30), <2>6, <2>7, <2>8, <2>9, <2>10, StepKinds
<1> QED BY SMTT(30), <1>1, <1>2

(* A process in WAIT_CHILD always has a live child, whose exit will wake   *)
(* it: none is taken from it by another process's exit or wait.            *)
THEOREM WaiterAlwaysHasLiveChild == Spec => []WaiterHasLiveChild
<1>1. Init => WaiterHasLiveChild
  BY DEF Init, WaiterHasLiveChild
<1>2. KernelInv /\ KernelInv' /\ WaiterHasLiveChild /\ [Next]_vars => WaiterHasLiveChild'
  BY WaiterStep DEF WaiterHasLiveChild
<1> QED BY <1>1, <1>2, KernelInvariant, PTL DEF Spec

-----------------------------------------------------------------------------
(* init_proc, made with a page table, is the first process to run. *)
FirstHasTable ==
    mode = "boot" /\ state[InitProc] = "READY" =>
        page_table[InitProc] /\ Head(ready_queue) = InitProc

(* The steps of the boot make init_proc the first to run. *)
LEMMA BootRuns ==
    ASSUME KernelInv, FirstHasTable, Boot
    PROVE  /\ curr_proc' # NULL => curr_proc' = InitProc /\ mode' = "run"
           /\ FirstHasTable'
<1>1. mode = "boot" /\ curr_proc = NULL
  <2>1. mode = "boot"
    BY Zenon DEF Boot, init_idle, kmain, sched_start, panic, Booting
  <2> QED BY <2>1 DEF KernelInv, BootOrder
<1>2. CASE init_idle
  <2>1. /\ mode' = "boot" /\ curr_proc' = NULL
        /\ state[InitProc] = "FREE" /\ state[Idle] = "FREE"
    BY <1>1, <1>2 DEF init_idle, KernelInv, BootOrder
  <2>2. state' = [state EXCEPT ![Idle] = "READY"]
    BY <1>2, <2>1, NewIsReady, ProcAssumption DEF init_idle
  <2>3. state'[InitProc] = "FREE"
    BY <2>1, <2>2, ProcAssumption DEF KernelInv, TypeOK, SchedTypeOK
  <2> QED BY <2>1, <2>3 DEF FirstHasTable
<1>3. CASE kmain
  <2>1. mode' = "boot" /\ curr_proc' = NULL /\ state[InitProc] = "FREE"
    BY <1>1, <1>3 DEF kmain
  <2>2. page_table' = [page_table EXCEPT ![InitProc] = TRUE]
    BY <1>3 DEF kmain, proc_init
  <2>3. page_table'[InitProc]
    BY <2>2, ProcAssumption DEF KernelInv, TypeOK, TreeTypeOK
  <2>4. Sched \in SchedType /\ Sched.ready_queue = ready_queue /\ Sched.state = state
    BY DEF Sched, SchedType, KernelInv, TypeOK, SchedTypeOK
  <2>5. ready_queue' = list_push_front(ready_queue, InitProc)
    BY <1>3, <2>1, <2>4, MakeReady, ProcAssumption DEF kmain
  <2>6. Head(ready_queue') = InitProc
    <3>1. ready_queue \in Seq(Proc)
      BY DEF KernelInv, TypeOK, SchedTypeOK
    <3> QED BY <2>5, <3>1, ProcAssumption DEF list_push_front
  <2> QED BY <2>1, <2>3, <2>6 DEF FirstHasTable
<1>4. CASE sched_start
  <2> DEFINE k == [Sched EXCEPT !.wait_queue = timer_wait(@, SchedTimer, 1)]
  <2>1. state[InitProc] = "READY"
    BY <1>4 DEF sched_start
  <2>2. page_table[InitProc] /\ Head(ready_queue) = InitProc
    BY <1>1, <2>1 DEF FirstHasTable
  <2>3. /\ curr_proc' = sched_resched(k).curr_proc
        /\ mode' = IF CanRun(sched_resched(k).curr_proc) THEN "run" ELSE "hung"
    BY <1>4 DEF sched_start
  <2>4. sched_resched(k) = Move(k, Head(ready_queue), "CURR")
    BY <1>1 DEF sched_resched, Sched, list_first_entry
  <2>5. Move(k, Head(ready_queue), "CURR").curr_proc = Head(ready_queue)
    BY DEF Move
  <2> HIDE DEF k
  <2>6. curr_proc' = InitProc /\ mode' = "run"
    BY <2>2, <2>3, <2>4, <2>5 DEF CanRun
  <2> QED BY <2>6 DEF FirstHasTable
<1>5. CASE panic
  BY <1>1, <1>5 DEF panic, schedVars, FirstHasTable
<1> QED BY <1>2, <1>3, <1>4, <1>5 DEF Boot

(* Nothing but the boot leaves the kernel booting. *)
LEMMA BootIsOver ==
    ASSUME Next, ~Boot
    PROVE  mode' # "boot"
<1>1. ASSUME NEW STATE k, SetSched(k), mode = "run" PROVE mode' # "boot"
  BY <1>1 DEF SetSched
<1>2. ASSUME NEW p \in Proc, Syscall(p) PROVE mode' # "boot"
  <2>1. mode = "run"
    BY Zenon, <1>2 DEF Syscall, sys_yield, sys_sleep, sys_reboot, sys_exit, sys_wait,
       sys_read, sys_proc, Ecall, Interruptible
  <2>2. CASE sys_yield(p) \/ sys_sleep(p)
    BY Zenon, <1>1, <2>1, <2>2 DEF sys_yield, sys_sleep
  <2>3. CASE sys_reboot(p) \/ sys_exit(p)
    BY <2>1, <2>3 DEF sys_reboot, sys_exit, schedVars
  <2>4. CASE sys_wait(p)
    BY <1>1, <2>1, <2>4 DEF sys_wait
  <2>5. CASE sys_read(p)
    BY <1>1, <2>1, <2>5 DEF sys_read, sem_wait, schedVars
  <2>6. ASSUME NEW c \in Proc, sys_proc(p, c) PROVE mode' = mode \/ mode' = "hung"
    BY Zenon, <2>6 DEF sys_proc, proc_init_fails, SetSched
  <2> QED BY <1>2, <2>1, <2>2, <2>3, <2>4, <2>5, <2>6 DEF Syscall
<1>3. ASSUME NEW p \in Proc,
             exit_adopt(p) \/ exit_finish(p) \/ wait_resume(p) \/ read_byte(p)
      PROVE  mode' # "boot"
  <2>1. mode = "run"
    BY Zenon, <1>3 DEF exit_adopt, exit_finish, wait_resume, read_byte, Resumes
  <2> QED BY <1>1, <1>3, <2>1 DEF exit_adopt, exit_finish, wait_resume, read_byte,
             sem_wait, schedVars
<1>4. CASE sem_signal
  BY <1>1, <1>4 DEF sem_signal, schedVars
<1>5. CASE TimerIsr
  BY Zenon, <1>1, <1>5 DEF TimerIsr, sched_preempt, wakeup_proc, Interruptible
<1>6. ASSUME NEW n \in 1..MaxPermits, ext_intr(n) PROVE mode' # "boot"
  BY <1>6 DEF ext_intr, schedVars, Interruptible
<1>7. CASE stopped
  BY <1>7 DEF stopped, vars, schedVars
<1> QED BY <1>2, <1>3, <1>4, <1>5, <1>6, <1>7 DEF Next, KernelStep

(* The first process to run is init_proc, which has a page table, on every *)
(* platform and for any number of processes: sched_start neither runs idle *)
(* nor stops the hart (sched.c, kmain.c, trap.S).                          *)
THEOREM StartsAlwaysOnInit == Spec => StartsOnInit
<1>1. Init => FirstHasTable
  BY ProcAssumption DEF Init, FirstHasTable
<1>2. KernelInv /\ FirstHasTable /\ [Next]_vars => FirstHasTable'
  <2> SUFFICES ASSUME KernelInv, FirstHasTable, [Next]_vars PROVE FirstHasTable'
    OBVIOUS
  <2>1. CASE Boot
    BY <2>1, BootRuns
  <2>2. CASE Next /\ ~Boot
    BY <2>2, BootIsOver DEF FirstHasTable
  <2>3. CASE UNCHANGED vars
    <3>1. UNCHANGED <<mode, state, page_table, ready_queue>>
      BY <2>3 DEF vars, schedVars, treeVars
    <3> QED BY <3>1 DEF FirstHasTable
  <2> QED BY <2>1, <2>2, <2>3
<1>3. KernelInv /\ FirstHasTable /\ [Next]_vars =>
        [mode = "boot" /\ curr_proc' # NULL => curr_proc' = InitProc /\ mode' = "run"]_vars
  <2> SUFFICES ASSUME KernelInv, FirstHasTable, [Next]_vars, mode = "boot", ~UNCHANGED vars,
                      curr_proc' # NULL
               PROVE  curr_proc' = InitProc /\ mode' = "run"
    OBVIOUS
  <2> QED BY OnlyBootUntilRun, BootRuns
<1> QED BY <1>1, <1>2, <1>3, KernelInvariant, PTL DEF Spec, StartsOnInit
=============================================================================

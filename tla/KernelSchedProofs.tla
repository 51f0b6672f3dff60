------------------------- MODULE KernelSchedProofs --------------------------
(*****************************************************************************)
(* The steps of the process layer that move processes between queues and   *)
(* leave the tree alone keep its invariant: switches, blocking, waking up, *)
(* timers and the semaphore.                                               *)
(*****************************************************************************)
EXTENDS Kernel, ListProofs

-----------------------------------------------------------------------------
(* The scheduler's functions.                                              *)

SchedType == [state       : [Proc -> ProcState],
              ready_queue : Seq(Proc),
              curr_proc   : Proc \cup {NULL},
              wait_queue  : Seq(Timer)]

Blocked == {"WAIT_SEM", "WAIT_CHILD", "SLEEP", "ZOMBIE"}

(* A process that becomes ready is put at the front of the ready queue,    *)
(* and nothing else changes (sched_update_state to READY).                 *)
LEMMA MakeReady ==
    ASSUME NEW k \in SchedType, NEW p \in Proc,
           k.state[p] # "READY",
           k.state[p] = "SLEEP" => p \notin Range(k.wait_queue)
    PROVE  sched_update_state(k, p, "READY") =
              [state       |-> [k.state EXCEPT ![p] = "READY"],
               ready_queue |-> list_push_front(k.ready_queue, p),
               curr_proc   |-> k.curr_proc,
               wait_queue  |-> k.wait_queue]
BY DEF sched_update_state, Move, timer_cancel, list_remove

(* The current process blocks or exits: the first ready process becomes    *)
(* the current one (sched_update_state to a blocked state).                *)
LEMMA BlockCurrent ==
    ASSUME NEW k \in SchedType, NEW s \in Blocked,
           k.curr_proc \in Proc, k.state[k.curr_proc] = "CURR",
           k.ready_queue # <<>>, k.state[Head(k.ready_queue)] = "READY"
    PROVE  sched_update_state(k, k.curr_proc, s) =
              [state       |-> [[k.state EXCEPT ![k.curr_proc] = s]
                                    EXCEPT ![Head(k.ready_queue)] = "CURR"],
               ready_queue |-> list_remove(k.ready_queue, Head(k.ready_queue)),
               curr_proc   |-> Head(k.ready_queue),
               wait_queue  |-> k.wait_queue]
<1> DEFINE p == k.curr_proc
           n == Head(k.ready_queue)
           m == Move(k, p, s)
<1>1. n \in Proc /\ n # p
  BY SeqHeadTail DEF SchedType
<1>2. m = [state       |-> [k.state EXCEPT ![p] = s],
           ready_queue |-> k.ready_queue,
           curr_proc   |-> IF s = "ZOMBIE" THEN NULL ELSE p,
           wait_queue  |-> k.wait_queue]
  BY DEF Move, Blocked
<1> HIDE DEF m
<1>3. sched_update_state(k, p, s) = sched_resched(m)
  BY DEF sched_update_state, Blocked, m
<1>4. ~(m.curr_proc # NULL /\ m.state[m.curr_proc] = "CURR")
  BY <1>2, ProcAssumption DEF SchedType, Blocked
<1>5. sched_resched(m) = Move(m, n, "CURR")
  BY <1>2, <1>4 DEF sched_resched, list_first_entry
<1>6. m.state[n] = "READY"
  BY <1>1, <1>2 DEF SchedType
<1>7. Move(m, n, "CURR") =
        [state       |-> [m.state EXCEPT ![n] = "CURR"],
         ready_queue |-> list_remove(m.ready_queue, n),
         curr_proc   |-> n,
         wait_queue  |-> m.wait_queue]
  BY <1>6 DEF Move
<1> QED BY <1>2, <1>3, <1>5, <1>7

(* A process that is running when the scheduler is called goes to the      *)
(* front of the ready queue and is taken from there again: nothing         *)
(* changes (sched_resched from sys_yield and sched_preempt).               *)
LEMMA ReschedRunning ==
    ASSUME NEW k \in SchedType,
           k.curr_proc \in Proc, k.state[k.curr_proc] = "CURR",
           k.curr_proc \notin Range(k.ready_queue)
    PROVE  sched_resched(k) = k
<1> DEFINE p == k.curr_proc
           m == Move(k, p, "READY")
<1>1. m = [state       |-> [k.state EXCEPT ![p] = "READY"],
           ready_queue |-> list_push_front(k.ready_queue, p),
           curr_proc   |-> p,
           wait_queue  |-> k.wait_queue]
  BY DEF Move
<1> HIDE DEF m
<1>2. Head(list_push_front(k.ready_queue, p)) = p
  BY PushFront DEF SchedType
<1>3. sched_resched(k) = Move(m, p, "CURR")
  BY <1>1, <1>2, ProcAssumption DEF sched_resched, list_first_entry, m
<1>4. Move(m, p, "CURR") =
        [state       |-> [m.state EXCEPT ![p] = "CURR"],
         ready_queue |-> list_remove(m.ready_queue, p),
         curr_proc   |-> p,
         wait_queue  |-> m.wait_queue]
  <2>1. m.state[p] = "READY"
    BY <1>1 DEF SchedType
  <2> QED BY <2>1 DEF Move
<1>5. [m.state EXCEPT ![p] = "CURR"] = k.state
  BY Zenon, <1>1 DEF SchedType
<1>6. list_remove(m.ready_queue, p) = k.ready_queue
  BY <1>1, RemovePushed DEF SchedType
<1> QED BY <1>1, <1>3, <1>4, <1>5, <1>6 DEF SchedType

(* The first call of the scheduler, with no current process: the first     *)
(* ready process becomes the current one (sched_start).                    *)
LEMMA ReschedFirst ==
    ASSUME NEW k \in SchedType,
           k.curr_proc = NULL, k.ready_queue # <<>>,
           k.state[Head(k.ready_queue)] = "READY"
    PROVE  sched_resched(k) =
              [state       |-> [k.state EXCEPT ![Head(k.ready_queue)] = "CURR"],
               ready_queue |-> list_remove(k.ready_queue, Head(k.ready_queue)),
               curr_proc   |-> Head(k.ready_queue),
               wait_queue  |-> k.wait_queue]
<1>1. sched_resched(k) = Move(k, Head(k.ready_queue), "CURR")
  BY DEF sched_resched, list_first_entry
<1> QED BY <1>1 DEF Move

-----------------------------------------------------------------------------
(* What storing the scheduler's result does. *)
LEMMA SetSchedEffect ==
    ASSUME NEW STATE a, NEW STATE b, NEW STATE c, NEW STATE d,
           SetSched([state |-> a, ready_queue |-> b, curr_proc |-> c, wait_queue |-> d])
    PROVE  /\ state' = a /\ ready_queue' = b /\ curr_proc' = c /\ wait_queue' = d
           /\ mode' = mode \/ mode' = "hung"
BY DEF SetSched

(* What the invariant says of a state in which the hart runs a process. *)
LEMMA RunningFacts ==
    ASSUME KernelInv, mode = "run"
    PROVE  /\ curr_proc \in Proc /\ state[curr_proc] = "CURR"
           /\ curr_proc \notin Range(ready_queue)
           /\ Sched \in SchedType
           /\ curr_proc # Idle =>
                 /\ ready_queue # <<>>
                 /\ Head(ready_queue) \in Range(ready_queue)
                 /\ Head(ready_queue) \in Proc
                 /\ state[Head(ready_queue)] = "READY"
<1> USE DEF KernelInv
<1>1. curr_proc \in Proc
  BY DEF BootOrder, TypeOK, SchedTypeOK
<1>2. state[curr_proc] = "CURR" /\ curr_proc \notin Range(ready_queue)
  BY <1>1 DEF QueuesMatchStates
<1>3. Sched \in SchedType
  BY DEF Sched, SchedType, TypeOK, SchedTypeOK
<1>4. ASSUME curr_proc # Idle
      PROVE  /\ ready_queue # <<>>
             /\ Head(ready_queue) \in Range(ready_queue)
             /\ Head(ready_queue) \in Proc
             /\ state[Head(ready_queue)] = "READY"
  <2>1. ready_queue # <<>>
    BY <1>4 DEF IdleRunnable, list_empty
  <2>2. Head(ready_queue) \in Range(ready_queue) /\ Head(ready_queue) \in Proc
    BY <2>1, PopFront DEF TypeOK, SchedTypeOK
  <2> QED BY <2>1, <2>2 DEF QueuesMatchStates
<1> QED BY <1>1, <1>2, <1>3, <1>4

(* The tree does not depend on which queue a live process is in. *)
LEMMA TreeFrame ==
    ASSUME TypeOK, TreeConsistent, UNCHANGED <<parent, children, zombie_children>>,
           \A q \in Proc : state'[q] \in LiveState <=> state[q] \in LiveState,
           \A q \in Proc : state'[q] = "ZOMBIE" <=> state[q] = "ZOMBIE"
    PROVE  TreeConsistent'
<1>1. parent \in [Proc -> Proc \cup {NULL}]
  BY DEF TypeOK, TreeTypeOK
<1> QED BY <1>1 DEF TreeConsistent, InTree, Alive

(* Nor does the table. *)
LEMMA TableFrame ==
    ASSUME TypeOK, TableConsistent, UNCHANGED <<pid, proc_table>>,
           mode' = "run" => mode = "run",
           \A q \in Proc : state'[q] \in LiveState <=> state[q] \in LiveState,
           \A q \in Proc : state'[q] = "ZOMBIE" <=> state[q] = "ZOMBIE"
    PROVE  TableConsistent'
<1>1. proc_table \in [Pid -> Proc \cup {NULL}]
  BY DEF TypeOK, TableTypeOK
<1> QED BY <1>1 DEF TableConsistent, InTree, Alive

-----------------------------------------------------------------------------
(* The current process blocks in state s, its timer being in wq or not:    *)
(* the first ready process n is the current one.                           *)
LEMMA CurrentBlocks ==
    ASSUME KernelInv, mode = "run", curr_proc # Idle,
           NEW s \in Blocked, NEW STATE wq, wq \in Seq(Timer),
           SetSched(sched_update_state([Sched EXCEPT !.wait_queue = wq], curr_proc, s))
    PROVE  \E n \in Proc :
              /\ n # curr_proc /\ state[n] = "READY"
              /\ state' = [[state EXCEPT ![curr_proc] = s] EXCEPT ![n] = "CURR"]
              /\ ready_queue' \in Seq(Proc) /\ IsList(ready_queue')
              /\ Range(ready_queue') = Range(ready_queue) \ {n}
              /\ curr_proc' = n
              /\ wait_queue' = wq
              /\ mode' \in {"run", "hung"}
<1> DEFINE k == [Sched EXCEPT !.wait_queue = wq]
           n == Head(ready_queue)
<1>1. /\ curr_proc \in Proc /\ state[curr_proc] = "CURR"
      /\ ready_queue # <<>> /\ n \in Proc /\ state[n] = "READY"
      /\ n \in Range(ready_queue)
  BY RunningFacts
<1>2. k = [state |-> state, ready_queue |-> ready_queue,
           curr_proc |-> curr_proc, wait_queue |-> wq]
  BY DEF Sched
<1>3. k \in SchedType
  BY Zenon, <1>2 DEF KernelInv, TypeOK, SchedTypeOK, SchedType
<1>0. SetSched(sched_update_state(k, curr_proc, s))
  OBVIOUS
<1> HIDE DEF k
<1> DEFINE r == sched_update_state(k, curr_proc, s)
<1>4. r = [state       |-> [[state EXCEPT ![curr_proc] = s] EXCEPT ![n] = "CURR"],
           ready_queue |-> list_remove(ready_queue, n),
           curr_proc   |-> n,
           wait_queue  |-> wq]
  BY <1>1, <1>2, <1>3, BlockCurrent
<1>5. /\ state' = [[state EXCEPT ![curr_proc] = s] EXCEPT ![n] = "CURR"]
      /\ ready_queue' = list_remove(ready_queue, n)
      /\ curr_proc' = n /\ wait_queue' = wq
      /\ mode' \in {"run", "hung"}
  <2>1. /\ state' = r.state /\ ready_queue' = r.ready_queue
        /\ curr_proc' = r.curr_proc /\ wait_queue' = r.wait_queue
        /\ mode' = IF CanRun(r.curr_proc) THEN mode ELSE "hung"
    BY <1>0 DEF SetSched
  <2>2. mode' \in {"run", "hung"}
    BY <2>1
  <2> HIDE DEF r
  <2> QED BY <1>4, <2>1, <2>2
<1>6. /\ ready_queue' \in Seq(Proc) /\ IsList(ready_queue')
      /\ Range(ready_queue') = Range(ready_queue) \ {n}
  BY Zenon, <1>5, RemoveEntry DEF KernelInv, TypeOK, SchedTypeOK, QueuesMatchStates
<1> QED BY Zenon, <1>1, <1>5, <1>6

(* If the queues of sleepers and of readers come out right, blocking keeps *)
(* the queues and the states in step, and there is a process to run.       *)
LEMMA BlockKeepsQueues ==
    ASSUME KernelInv, mode = "run", curr_proc # Idle,
           NEW s \in Blocked, NEW n \in Proc,
           n # curr_proc, state[n] = "READY",
           state' = [[state EXCEPT ![curr_proc] = s] EXCEPT ![n] = "CURR"],
           IsList(ready_queue'), Range(ready_queue') = Range(ready_queue) \ {n},
           curr_proc' = n,
           IsList(wait_queue'), IsList(sem_queue'),
           \A q \in Proc : q \in Range(wait_queue') <=>
                               state[q] = "SLEEP" \/ (q = curr_proc /\ s = "SLEEP"),
           \A q \in Proc : q \in Range(sem_queue') <=>
                               state[q] = "WAIT_SEM" \/ (q = curr_proc /\ s = "WAIT_SEM"),
           SchedTimer \in Range(wait_queue')
    PROVE  QueuesMatchStates' /\ IdleRunnable'
<1>1. /\ curr_proc \in Proc /\ state[curr_proc] = "CURR" /\ state \in [Proc -> ProcState]
      /\ state[Idle] \in {"READY", "CURR"} /\ Idle \in Proc /\ NULL \notin Proc
  BY RunningFacts, ProcAssumption DEF KernelInv, TypeOK, SchedTypeOK, IdleRunnable
<1>2. \A q \in Proc :
        /\ q \in Range(ready_queue) <=> state[q] = "READY"
        /\ q = curr_proc <=> state[q] = "CURR"
  BY DEF KernelInv, QueuesMatchStates
<1>3. QueuesMatchStates'
  BY <1>1, <1>2 DEF QueuesMatchStates, Blocked
<1>4. state'[Idle] \in {"READY", "CURR"}
  BY <1>1, <1>2
<1>5. curr_proc' # Idle => Idle \in Range(ready_queue')
  BY <1>1, <1>2
<1>6. curr_proc' # Idle => ~list_empty(ready_queue')
  BY <1>5, NotEmpty
<1> QED BY <1>3, <1>4, <1>6 DEF IdleRunnable

(* The kernel code a process that blocks in state s will go on with. *)
Label(s) == IF s = "WAIT_SEM" THEN "read"
            ELSE IF s = "WAIT_CHILD" THEN "wait_child" ELSE "user"

(* A system call that blocks its caller keeps the invariant, if the two    *)
(* queues it may have put the caller on come out right (sys_sleep,         *)
(* sys_wait, sem_wait).                                                    *)
LEMMA CurrentBlocksInv ==
    ASSUME KernelInv, mode = "run", curr_proc # Idle, resume[curr_proc] # "exit",
           NEW s \in {"WAIT_SEM", "WAIT_CHILD", "SLEEP"}, NEW STATE wq, wq \in Seq(Timer),
           SetSched(sched_update_state([Sched EXCEPT !.wait_queue = wq], curr_proc, s)),
           IsList(wq), SchedTimer \in Range(wq),
           \A q \in Proc : q \in Range(wq) <=>
                               state[q] = "SLEEP" \/ (q = curr_proc /\ s = "SLEEP"),
           sem_queue' \in Seq(Proc), IsList(sem_queue'),
           \A q \in Proc : q \in Range(sem_queue') <=>
                               state[q] = "WAIT_SEM" \/ (q = curr_proc /\ s = "WAIT_SEM"),
           sem_val' \in Int, sem_val' <= sem_val, UNCHANGED signals, SemCountsWaiters',
           resume' = [resume EXCEPT ![curr_proc] = Label(s)],
           UNCHANGED <<treeVars, tableVars>>
    PROVE  KernelInv'
<1>1. PICK n \in Proc :
              /\ n # curr_proc /\ state[n] = "READY"
              /\ state' = [[state EXCEPT ![curr_proc] = s] EXCEPT ![n] = "CURR"]
              /\ ready_queue' \in Seq(Proc) /\ IsList(ready_queue')
              /\ Range(ready_queue') = Range(ready_queue) \ {n}
              /\ curr_proc' = n
              /\ wait_queue' = wq
              /\ mode' \in {"run", "hung"}
  <2>1. s \in Blocked
    BY DEF Blocked
  <2> QED BY <2>1, CurrentBlocks
<1>2. curr_proc \in Proc /\ state[curr_proc] = "CURR"
  BY RunningFacts
<1>3. /\ state \in [Proc -> ProcState] /\ state' \in [Proc -> ProcState]
      /\ state'[n] = "CURR" /\ state'[curr_proc] = s
      /\ \A q \in Proc \ {n, curr_proc} : state'[q] = state[q]
  BY Zenon, <1>1, <1>2 DEF KernelInv, TypeOK, SchedTypeOK, ProcState
<1>4. TypeOK'
  <2>1. TreeTypeOK' /\ TableTypeOK'
    BY DEF KernelInv, TypeOK, TreeTypeOK, TableTypeOK, treeVars, tableVars
  <2>2. SchedTypeOK'
    BY <1>1, <1>3 DEF SchedTypeOK
  <2>3. SemTypeOK'
    BY BoundAssumption DEF KernelInv, TypeOK, SemTypeOK
  <2>4. resume' \in [Proc -> {"user", "exit", "wait_child", "read"}]
    BY Zenon DEF KernelInv, TypeOK, Label
  <2> QED BY <1>1, <2>1, <2>2, <2>3, <2>4 DEF TypeOK
<1>5. QueuesMatchStates' /\ IdleRunnable'
  <2>1. s \in Blocked
    BY DEF Blocked
  <2> QED BY Zenon, <1>1, <1>2, <2>1, BlockKeepsQueues
<1>6. \A q \in Proc : /\ state'[q] \in LiveState <=> state[q] \in LiveState
                      /\ state'[q] = "ZOMBIE" <=> state[q] = "ZOMBIE"
  BY <1>1, <1>2, <1>3 DEF LiveState
<1>7. TreeConsistent'
  BY <1>6, TreeFrame DEF KernelInv, treeVars
<1>8. TableConsistent'
  BY <1>6, TableFrame DEF KernelInv, treeVars, tableVars
<1>9. /\ resume' \in [Proc -> {"user", "exit", "wait_child", "read"}]
      /\ resume'[curr_proc] = Label(s)
      /\ \A q \in Proc \ {curr_proc} : resume'[q] = resume[q]
  BY <1>2 DEF KernelInv, TypeOK, Label
<1>10. WaiterGetsItsZombie'
  <2>1. \A q \in Proc \ {curr_proc} :
           resume[q] = "wait_child" => state[q] = "WAIT_CHILD" /\ q # n
    BY <1>1 DEF KernelInv, WaiterGetsItsZombie
  <2> QED BY <1>2, <1>3, <1>9, <2>1 DEF WaiterGetsItsZombie, Label
<1>11. BlockedInItsCall'
  BY <1>1, <1>2, <1>3, <1>9 DEF KernelInv, BlockedInItsCall, Label
<1>12. BootOrder'
  <2>1. mode' # "boot" /\ curr_proc' # NULL /\ resume'[Idle] = "user"
    BY <1>1, <1>9, ProcAssumption DEF KernelInv, BootOrder
  <2>2. /\ state'[InitProc] \in LiveState
        /\ parent'[InitProc] = NULL /\ parent'[Idle] = NULL
    BY <1>6, ProcAssumption DEF KernelInv, BootOrder, Alive, treeVars
  <2> QED BY <2>1, <2>2 DEF BootOrder, Alive
<1> QED BY <1>4, <1>5, <1>7, <1>8, <1>10, <1>11, <1>12 DEF KernelInv

-----------------------------------------------------------------------------
(* One lemma per operation: it keeps the invariant.                        *)

(* sys_sleep preserves the invariant. *)
LEMMA SleepInv ==
    ASSUME KernelInv, NEW p \in Proc, sys_sleep(p)
    PROVE  KernelInv'
<1>1. /\ mode = "run" /\ p = curr_proc /\ curr_proc # Idle /\ resume[curr_proc] = "user"
      /\ UNCHANGED <<treeVars, tableVars, semVars, resume>>
  BY DEF sys_sleep, Ecall, Interruptible
<1>2. PICK i \in 1..(Len(wait_queue) + 1) :
         SetSched(sched_update_state(
             [Sched EXCEPT !.wait_queue = timer_wait(@, p, i)], p, "SLEEP"))
  BY DEF sys_sleep
<1> DEFINE wq == list_insert(wait_queue, i, p)
<1>3. [Sched EXCEPT !.wait_queue = timer_wait(@, p, i)] = [Sched EXCEPT !.wait_queue = wq]
  BY DEF Sched, timer_wait
<1>4. wait_queue \in Seq(Timer) /\ p \in Timer /\ p \notin Range(wait_queue)
      /\ SchedTimer \in Range(wait_queue) /\ IsList(wait_queue)
  BY <1>1, RunningFacts DEF KernelInv, TypeOK, SchedTypeOK, QueuesMatchStates, Timer, BootOrder
<1>5. wq \in Seq(Timer) /\ IsList(wq) /\ Range(wq) = Range(wait_queue) \cup {p}
  BY <1>4, InsertEntry
<1> HIDE DEF wq
<1>6. SetSched(sched_update_state([Sched EXCEPT !.wait_queue = wq], curr_proc, "SLEEP"))
  BY <1>1, <1>2, <1>3
<1>7. \A q \in Proc : q \in Range(wq) <=>
          state[q] = "SLEEP" \/ (q = curr_proc /\ "SLEEP" = "SLEEP")
  BY <1>1, <1>5 DEF KernelInv, QueuesMatchStates
<1>8. /\ sem_queue' \in Seq(Proc) /\ IsList(sem_queue')
      /\ \A q \in Proc : q \in Range(sem_queue') <=>
            state[q] = "WAIT_SEM" \/ (q = curr_proc /\ "SLEEP" = "WAIT_SEM")
      /\ sem_val' \in Int /\ sem_val' <= sem_val /\ UNCHANGED signals
  BY <1>1 DEF KernelInv, TypeOK, SemTypeOK, QueuesMatchStates, semVars
<1>9. SemCountsWaiters'
  BY <1>1 DEF KernelInv, SemCountsWaiters, semVars
<1>10. resume' = [resume EXCEPT ![curr_proc] = Label("SLEEP")]
  BY <1>1 DEF Label, KernelInv, TypeOK
<1> QED BY Zenon, <1>1, <1>4, <1>5, <1>6, <1>7, <1>8, <1>9, <1>10, CurrentBlocksInv

(* So does sem_wait that finds no permit: the process queues and blocks. *)
LEMMA SemWaitBlocksInv ==
    ASSUME KernelInv, NEW p \in Proc, mode = "run", p = curr_proc, p # Idle,
           resume[p] \in {"user", "read"}, sem_val - 1 < 0, sem_wait(p),
           resume' = [resume EXCEPT ![p] = "read"]
    PROVE  KernelInv'
<1>1. /\ sem_val' = sem_val - 1 /\ sem_queue' = list_push_back(sem_queue, p)
      /\ SetSched(sched_update_state(Sched, curr_proc, "WAIT_SEM"))
      /\ UNCHANGED <<treeVars, tableVars, signals>>
  BY DEF sem_wait
<1>2. /\ wait_queue \in Seq(Timer) /\ IsList(wait_queue) /\ SchedTimer \in Range(wait_queue)
      /\ sem_queue \in Seq(Proc) /\ IsList(sem_queue) /\ p \notin Range(sem_queue)
      /\ sem_val \in Int
  BY RunningFacts DEF KernelInv, TypeOK, SchedTypeOK, SemTypeOK, QueuesMatchStates, BootOrder
<1>3. Sched = [Sched EXCEPT !.wait_queue = wait_queue]
  BY DEF Sched
<1>4. SetSched(sched_update_state([Sched EXCEPT !.wait_queue = wait_queue], curr_proc, "WAIT_SEM"))
  BY <1>1, <1>3
<1>5. /\ sem_queue' \in Seq(Proc) /\ IsList(sem_queue') /\ Len(sem_queue') = Len(sem_queue) + 1
      /\ Range(sem_queue') = Range(sem_queue) \cup {p}
  <2> DEFINE r == list_push_back(sem_queue, p)
  <2>1. r \in Seq(Proc) /\ IsList(r) /\ Len(r) = Len(sem_queue) + 1
        /\ Range(r) = Range(sem_queue) \cup {p}
    BY <1>2, PushBack
  <2> QED BY <1>1, <2>1
<1>6. \A q \in Proc : q \in Range(sem_queue') <=>
         state[q] = "WAIT_SEM" \/ (q = curr_proc /\ "WAIT_SEM" = "WAIT_SEM")
  BY <1>5 DEF KernelInv, QueuesMatchStates
<1>7. \A q \in Proc : q \in Range(wait_queue) <=>
         state[q] = "SLEEP" \/ (q = curr_proc /\ "WAIT_SEM" = "SLEEP")
  BY DEF KernelInv, QueuesMatchStates
<1>8. SemCountsWaiters'
  BY <1>1, <1>2, <1>5 DEF KernelInv, SemCountsWaiters
<1>9. sem_val' \in Int /\ sem_val' <= sem_val
  BY <1>1, <1>2
<1>10. resume' = [resume EXCEPT ![curr_proc] = Label("WAIT_SEM")]
  BY DEF Label
<1> QED BY Zenon, <1>1, <1>2, <1>4, <1>5, <1>6, <1>7, <1>8, <1>9, <1>10, CurrentBlocksInv

(* So does sys_wait that has to wait for a child. *)
LEMMA WaitBlocksInv ==
    ASSUME KernelInv, NEW p \in Proc, Ecall(p),
           SetSched(sched_update_state(Sched, p, "WAIT_CHILD")),
           resume' = [resume EXCEPT ![p] = "wait_child"],
           UNCHANGED <<treeVars, tableVars, semVars>>
    PROVE  KernelInv'
<1>1. mode = "run" /\ p = curr_proc /\ curr_proc # Idle /\ resume[curr_proc] = "user"
  BY DEF Ecall, Interruptible
<1>2. /\ wait_queue \in Seq(Timer) /\ IsList(wait_queue) /\ SchedTimer \in Range(wait_queue)
      /\ sem_queue' \in Seq(Proc) /\ IsList(sem_queue')
      /\ sem_val' \in Int /\ sem_val' <= sem_val /\ UNCHANGED signals
  BY <1>1 DEF KernelInv, TypeOK, SchedTypeOK, SemTypeOK, QueuesMatchStates, BootOrder, semVars
<1>3. Sched = [Sched EXCEPT !.wait_queue = wait_queue]
  BY DEF Sched
<1>4. SetSched(sched_update_state([Sched EXCEPT !.wait_queue = wait_queue], curr_proc, "WAIT_CHILD"))
  BY <1>1, <1>3
<1>5. \A q \in Proc :
         /\ q \in Range(sem_queue') <=>
               state[q] = "WAIT_SEM" \/ (q = curr_proc /\ "WAIT_CHILD" = "WAIT_SEM")
         /\ q \in Range(wait_queue) <=>
               state[q] = "SLEEP" \/ (q = curr_proc /\ "WAIT_CHILD" = "SLEEP")
  BY DEF KernelInv, QueuesMatchStates, semVars
<1>6. SemCountsWaiters'
  BY DEF KernelInv, SemCountsWaiters, semVars
<1>7. resume' = [resume EXCEPT ![curr_proc] = Label("WAIT_CHILD")]
  BY <1>1 DEF Label
<1> QED BY Zenon, <1>1, <1>2, <1>4, <1>5, <1>6, <1>7, CurrentBlocksInv

(* An operation that changes the state of no process: what is left to show *)
(* is about the timers, the semaphore's count and the places where kernel  *)
(* code goes on.                                                           *)
LEMMA FrameInv ==
    ASSUME KernelInv,
           UNCHANGED <<treeVars, tableVars, state, ready_queue, curr_proc, sem_queue>>,
           wait_queue' \in Seq(Timer), IsList(wait_queue'),
           Range(wait_queue') = Range(wait_queue),
           mode = "boot" => wait_queue' = wait_queue /\ resume' = resume,
           SemTypeOK', SemCountsWaiters',
           mode' \in {mode, "hung", "halted"},
           resume' \in [Proc -> {"user", "exit", "wait_child", "read"}],
           mode = "run" => resume'[Idle] = "user",
           WaiterGetsItsZombie', BlockedInItsCall'
    PROVE  KernelInv'
<1>1. mode' \in {"boot", "run", "hung", "halted"}
      /\ (mode' = "run" => mode = "run") /\ (mode' = "boot" => mode = "boot")
  BY DEF KernelInv, TypeOK
<1>2. TypeOK'
  <2>1. TreeTypeOK' /\ TableTypeOK'
    BY DEF KernelInv, TypeOK, TreeTypeOK, TableTypeOK, treeVars, tableVars
  <2>2. SchedTypeOK'
    BY DEF KernelInv, TypeOK, SchedTypeOK
  <2> QED BY <1>1, <2>1, <2>2 DEF TypeOK
<1>3. QueuesMatchStates'
  BY DEF KernelInv, QueuesMatchStates
<1>4. IdleRunnable'
  BY <1>1 DEF KernelInv, IdleRunnable
<1>5. TreeConsistent'
  BY TreeFrame DEF KernelInv, treeVars
<1>6. TableConsistent'
  BY <1>1, TableFrame DEF KernelInv, treeVars, tableVars
<1>7. BootOrder'
  BY <1>1 DEF KernelInv, BootOrder, Alive, treeVars, tableVars
<1> QED BY <1>2, <1>3, <1>4, <1>5, <1>6, <1>7 DEF KernelInv

(* An operation that changes nothing but, at most, the mode. *)
LEMMA StandstillInv ==
    ASSUME KernelInv, UNCHANGED <<treeVars, tableVars, schedVars, semVars, resume>>,
           mode' \in {mode, "hung", "halted"}
    PROVE  KernelInv'
<1>1. UNCHANGED <<state, ready_queue, curr_proc, wait_queue, sem_val, sem_queue, signals>>
  BY DEF schedVars, semVars
<1>2. wait_queue' \in Seq(Timer) /\ IsList(wait_queue') /\ SemTypeOK' /\ SemCountsWaiters'
  BY <1>1 DEF KernelInv, TypeOK, SchedTypeOK, SemTypeOK, SemCountsWaiters, QueuesMatchStates
<1>3. WaiterGetsItsZombie' /\ BlockedInItsCall'
  BY <1>1 DEF KernelInv, WaiterGetsItsZombie, BlockedInItsCall, treeVars
<1>4. /\ resume' \in [Proc -> {"user", "exit", "wait_child", "read"}]
      /\ mode = "run" => resume'[Idle] = "user"
  BY DEF KernelInv, TypeOK, BootOrder
<1> QED BY <1>1, <1>2, <1>3, <1>4, FrameInv

(* sys_yield: the reschedule changes nothing (ReschedRunning). *)
LEMMA YieldInv ==
    ASSUME KernelInv, NEW p \in Proc, sys_yield(p)
    PROVE  KernelInv'
<1>1. mode = "run" /\ UNCHANGED <<treeVars, tableVars, semVars, resume>>
      /\ SetSched(sched_resched(Sched))
  BY DEF sys_yield, Ecall, Interruptible
<1>2. sched_resched(Sched) = Sched
  <2>1. /\ Sched.curr_proc = curr_proc /\ Sched.state = state
        /\ Sched.ready_queue = ready_queue
    BY DEF Sched
  <2> QED BY <1>1, <2>1, RunningFacts, ReschedRunning
<1>3. UNCHANGED schedVars /\ mode' \in {mode, "hung", "halted"}
  <2>1. SetSched(Sched)
    BY <1>1, <1>2
  <2> QED BY <2>1 DEF SetSched, Sched, schedVars
<1> QED BY <1>1, <1>3, StandstillInv

(* The end of the time slice: the slice timer is queued again. *)
LEMMA PreemptInv ==
    ASSUME KernelInv, sched_preempt
    PROVE  KernelInv'
<1>1. /\ mode = "run" /\ wait_queue # <<>> /\ Head(wait_queue) = SchedTimer
      /\ UNCHANGED <<treeVars, tableVars, semVars, resume>>
  BY DEF sched_preempt, Interruptible, list_empty, list_first_entry
<1>2. PICK i \in 1..Len(wait_queue) :
         SetSched(sched_resched([Sched EXCEPT
             !.wait_queue = timer_wait(list_pop_front(@), SchedTimer, i)]))
  BY DEF sched_preempt
<1> DEFINE q == list_pop_front(wait_queue)
           wq == list_insert(q, i, SchedTimer)
           k == [Sched EXCEPT !.wait_queue = timer_wait(list_pop_front(@), SchedTimer, i)]
<1>3. k = [state |-> state, ready_queue |-> ready_queue,
           curr_proc |-> curr_proc, wait_queue |-> wq]
  BY DEF Sched, timer_wait
<1>4. wait_queue \in Seq(Timer) /\ IsList(wait_queue) /\ SchedTimer \in Timer
  BY DEF KernelInv, TypeOK, SchedTypeOK, QueuesMatchStates, Timer
<1>5. /\ q \in Seq(Timer) /\ IsList(q) /\ SchedTimer \notin Range(q) /\ Len(q) = Len(wait_queue) - 1
      /\ Range(wait_queue) = Range(q) \cup {SchedTimer}
  BY <1>1, <1>4, PopFront
<1>6. wq \in Seq(Timer) /\ IsList(wq) /\ Range(wq) = Range(wait_queue)
  <2> HIDE DEF q
  <2>1. i \in 1..(Len(q) + 1)
    BY <1>4, <1>5, SeqLength
  <2> QED BY <1>4, <1>5, <2>1, InsertEntry
<1> HIDE DEF wq, q
<1>7. k \in SchedType
  BY <1>3, <1>6 DEF SchedType, KernelInv, TypeOK, SchedTypeOK
<1>8. SetSched(sched_resched(k))
  BY <1>2
<1> HIDE DEF k
<1>9. sched_resched(k) = k
  BY <1>1, <1>3, <1>7, RunningFacts, ReschedRunning
<1>10. /\ UNCHANGED <<state, ready_queue, curr_proc>> /\ wait_queue' = wq
       /\ mode' \in {mode, "hung", "halted"}
  <2>1. SetSched(k)
    BY <1>8, <1>9
  <2> QED BY <1>3, <2>1 DEF SetSched
<1>11. UNCHANGED sem_queue /\ SemTypeOK' /\ SemCountsWaiters'
  BY <1>1 DEF KernelInv, TypeOK, SemTypeOK, SemCountsWaiters, semVars
<1>12. WaiterGetsItsZombie' /\ BlockedInItsCall'
  BY <1>1, <1>10 DEF KernelInv, WaiterGetsItsZombie, BlockedInItsCall, treeVars
<1>13. /\ resume' \in [Proc -> {"user", "exit", "wait_child", "read"}]
       /\ mode = "run" => resume'[Idle] = "user"
  BY <1>1 DEF KernelInv, TypeOK, BootOrder
<1> QED BY <1>1, <1>6, <1>10, <1>11, <1>12, <1>13, FrameInv

(* sys_exit up to its first loop. *)
LEMMA ExitBeginsInv ==
    ASSUME KernelInv, NEW p \in Proc, sys_exit(p)
    PROVE  KernelInv'
<1>1. /\ mode = "run" /\ p = curr_proc /\ p # Idle
      /\ resume' = [resume EXCEPT ![p] = "exit"]
      /\ UNCHANGED <<treeVars, tableVars, schedVars, semVars, mode>>
  BY DEF sys_exit, Ecall, Interruptible
<1>2. UNCHANGED <<state, ready_queue, curr_proc, wait_queue, sem_val, sem_queue, signals>>
  BY <1>1 DEF schedVars, semVars
<1>3. wait_queue' \in Seq(Timer) /\ IsList(wait_queue') /\ SemTypeOK' /\ SemCountsWaiters'
  BY <1>2 DEF KernelInv, TypeOK, SchedTypeOK, SemTypeOK, SemCountsWaiters, QueuesMatchStates
<1>4. /\ resume' \in [Proc -> {"user", "exit", "wait_child", "read"}]
      /\ resume'[p] = "exit" /\ \A q \in Proc \ {p} : resume'[q] = resume[q]
  BY <1>1 DEF KernelInv, TypeOK
<1>5. resume'[Idle] = "user"
  BY SMTT(30), <1>1, <1>4, ProcAssumption DEF KernelInv, BootOrder
<1>6. WaiterGetsItsZombie'
  BY <1>1, <1>2, <1>4 DEF KernelInv, WaiterGetsItsZombie, treeVars
<1>7. BlockedInItsCall'
  BY <1>1, <1>2, <1>4, RunningFacts DEF KernelInv, BlockedInItsCall
<1> QED BY <1>1, <1>2, <1>3, <1>4, <1>5, <1>6, <1>7, FrameInv

(* A read that finds a permit, or that returns: the reader stays current.  *)
LEMMA ReaderRunsOnInv ==
    ASSUME KernelInv, NEW p \in Proc, mode = "run", p = curr_proc, p # Idle,
           resume[p] \in {"user", "read"},
           NEW l \in {"user", "read"}, resume' = [resume EXCEPT ![p] = l],
           UNCHANGED <<treeVars, tableVars, schedVars, sem_queue, signals, mode>>,
           SemTypeOK', SemCountsWaiters'
    PROVE  KernelInv'
<1>1. UNCHANGED <<state, ready_queue, curr_proc, wait_queue>>
  BY DEF schedVars
<1>2. wait_queue' \in Seq(Timer) /\ IsList(wait_queue')
  BY <1>1 DEF KernelInv, TypeOK, SchedTypeOK, QueuesMatchStates
<1>3. /\ resume' \in [Proc -> {"user", "exit", "wait_child", "read"}]
      /\ resume'[p] = l /\ \A q \in Proc \ {p} : resume'[q] = resume[q]
  BY DEF KernelInv, TypeOK
<1>4. resume'[Idle] = "user"
  BY <1>3, ProcAssumption DEF KernelInv, BootOrder
<1>5. WaiterGetsItsZombie'
  BY <1>1, <1>3 DEF KernelInv, WaiterGetsItsZombie, treeVars
<1>6. BlockedInItsCall'
  BY <1>1, <1>3, RunningFacts DEF KernelInv, BlockedInItsCall
<1> QED BY <1>1, <1>2, <1>3, <1>4, <1>5, <1>6, FrameInv

(* sem_wait, blocking or not. *)
LEMMA SemWaitInv ==
    ASSUME KernelInv, NEW p \in Proc, mode = "run", p = curr_proc, p # Idle,
           resume[p] \in {"user", "read"}, sem_wait(p),
           resume' = [resume EXCEPT ![p] = "read"]
    PROVE  KernelInv'
<1>1. CASE sem_val - 1 < 0
  BY Zenon, <1>1, SemWaitBlocksInv
<1>2. CASE ~(sem_val - 1 < 0)
  <2>1. /\ sem_val' = sem_val - 1
        /\ UNCHANGED <<treeVars, tableVars, schedVars, sem_queue, signals, mode>>
    BY <1>2 DEF sem_wait
  <2>2. SemTypeOK' /\ SemCountsWaiters'
    BY <1>2, <2>1, BoundAssumption DEF KernelInv, TypeOK, SemTypeOK, SemCountsWaiters
  <2> QED BY Zenon, <2>1, <2>2, ReaderRunsOnInv
<1> QED BY <1>1, <1>2

(* sys_read up to the first byte. *)
LEMMA ReadInv ==
    ASSUME KernelInv, NEW p \in Proc, sys_read(p)
    PROVE  KernelInv'
BY Zenon, SemWaitInv DEF sys_read, Ecall, Interruptible

(* A byte is taken, and the read ends or waits for the next. *)
LEMMA ReadByteInv ==
    ASSUME KernelInv, NEW p \in Proc, read_byte(p)
    PROVE  KernelInv'
<1>1. mode = "run" /\ p = curr_proc /\ resume[p] = "read"
  BY DEF read_byte, Resumes
<1>2. p # Idle
  BY <1>1 DEF KernelInv, BootOrder
<1>3. CASE /\ resume' = [resume EXCEPT ![p] = "user"]
           /\ UNCHANGED <<treeVars, tableVars, schedVars, semVars, mode>>
  <2>1. SemTypeOK' /\ SemCountsWaiters' /\ UNCHANGED <<sem_queue, signals>>
    BY <1>3 DEF KernelInv, TypeOK, SemTypeOK, SemCountsWaiters, semVars
  <2> QED BY Zenon, <1>1, <1>2, <1>3, <2>1, ReaderRunsOnInv
<1>4. CASE sem_wait(p) /\ UNCHANGED resume
  <2>1. resume' = [resume EXCEPT ![p] = "read"]
    BY <1>1, <1>4 DEF KernelInv, TypeOK
  <2> QED BY Zenon, <1>1, <1>2, <1>4, <2>1, SemWaitInv
<1> QED BY <1>3, <1>4 DEF read_byte

(* The terminal's interrupt, up to the signals it owes. *)
LEMMA ExtIntrInv ==
    ASSUME KernelInv, NEW n \in 1..MaxPermits, ext_intr(n)
    PROVE  KernelInv'
<1>1. /\ mode = "run" /\ signals' = n /\ sem_val + n <= MaxPermits
      /\ UNCHANGED <<treeVars, tableVars, schedVars, sem_val, sem_queue, resume, mode>>
  BY DEF ext_intr, Interruptible
<1>2. UNCHANGED <<state, ready_queue, curr_proc, wait_queue>>
  BY <1>1 DEF schedVars
<1>3. wait_queue' \in Seq(Timer) /\ IsList(wait_queue')
  BY <1>2 DEF KernelInv, TypeOK, SchedTypeOK, QueuesMatchStates
<1>4. SemTypeOK'
  BY <1>1, BoundAssumption DEF KernelInv, TypeOK, SemTypeOK
<1>5. SemCountsWaiters'
  BY <1>1 DEF KernelInv, SemCountsWaiters
<1>6. WaiterGetsItsZombie' /\ BlockedInItsCall'
  BY <1>1, <1>2 DEF KernelInv, WaiterGetsItsZombie, BlockedInItsCall, treeVars
<1>7. /\ resume' \in [Proc -> {"user", "exit", "wait_child", "read"}]
      /\ resume'[Idle] = "user"
  BY <1>1 DEF KernelInv, TypeOK, BootOrder
<1> QED BY <1>1, <1>2, <1>3, <1>4, <1>5, <1>6, <1>7, FrameInv

(* A process that waits for the semaphore or sleeps becomes ready. *)
LEMMA WakeInv ==
    ASSUME KernelInv, mode = "run",
           NEW STATE w, w \in Proc, state[w] \in {"WAIT_SEM", "SLEEP"},
           state' = [state EXCEPT ![w] = "READY"],
           ready_queue' = list_push_front(ready_queue, w),
           UNCHANGED curr_proc,
           wait_queue' \in Seq(Timer), IsList(wait_queue'),
           Range(wait_queue') = Range(wait_queue) \ {w},
           IsList(sem_queue'), Range(sem_queue') = Range(sem_queue) \ {w},
           SemTypeOK', SemCountsWaiters',
           UNCHANGED <<treeVars, tableVars, resume>>,
           mode' \in {"run", "hung"}
    PROVE  KernelInv'
<1>1. /\ state \in [Proc -> ProcState] /\ state' \in [Proc -> ProcState]
      /\ state'[w] = "READY" /\ \A q \in Proc \ {w} : state'[q] = state[q]
      /\ ready_queue \in Seq(Proc)
  BY DEF KernelInv, TypeOK, SchedTypeOK, ProcState
<1>2. /\ \A q \in Proc : /\ q \in Range(ready_queue) <=> state[q] = "READY"
                         /\ q \in Range(sem_queue) <=> state[q] = "WAIT_SEM"
                         /\ q \in Range(wait_queue) <=> state[q] = "SLEEP"
                         /\ q = curr_proc <=> state[q] = "CURR"
      /\ SchedTimer \in Range(wait_queue) <=> curr_proc # NULL
      /\ IsList(ready_queue)
  BY DEF KernelInv, QueuesMatchStates
<1>3. /\ ready_queue' \in Seq(Proc) /\ IsList(ready_queue')
      /\ Range(ready_queue') = Range(ready_queue) \cup {w}
  <2> DEFINE r == list_push_front(ready_queue, w)
  <2>1. r \in Seq(Proc) /\ IsList(r) /\ Range(r) = Range(ready_queue) \cup {w}
    BY ZenonT(60), <1>1, <1>2, PushFront
  <2> QED BY <2>1
<1>4. TypeOK'
  <2>1. TreeTypeOK' /\ TableTypeOK'
    BY DEF KernelInv, TypeOK, TreeTypeOK, TableTypeOK, treeVars, tableVars
  <2>2. SchedTypeOK'
    BY <1>1, <1>3 DEF KernelInv, TypeOK, SchedTypeOK
  <2>3. resume' \in [Proc -> {"user", "exit", "wait_child", "read"}]
    BY DEF KernelInv, TypeOK
  <2> QED BY <2>1, <2>2, <2>3 DEF TypeOK
<1>5. QueuesMatchStates'
  <2>1. SchedTimer # w
    BY ProcAssumption
  <2>2. \A q \in Proc : /\ q \in Range(ready_queue') <=> state'[q] = "READY"
                        /\ q \in Range(sem_queue') <=> state'[q] = "WAIT_SEM"
                        /\ q \in Range(wait_queue') <=> state'[q] = "SLEEP"
                        /\ q = curr_proc' <=> state'[q] = "CURR"
    BY <1>1, <1>2, <1>3
  <2>3. SchedTimer \in Range(wait_queue') <=> curr_proc' # NULL
    BY <1>2, <2>1
  <2> QED BY <1>3, <2>2, <2>3 DEF QueuesMatchStates
<1>6. IdleRunnable'
  <2>1. state'[Idle] \in {"READY", "CURR"} /\ w \in Range(ready_queue')
    BY SMTT(30), <1>1, <1>3, ProcAssumption DEF KernelInv, IdleRunnable
  <2> QED BY <2>1, NotEmpty DEF IdleRunnable
<1>7. \A q \in Proc : /\ state'[q] \in LiveState <=> state[q] \in LiveState
                      /\ state'[q] = "ZOMBIE" <=> state[q] = "ZOMBIE"
  BY <1>1 DEF LiveState
<1>8. TreeConsistent'
  BY <1>7, TreeFrame DEF KernelInv, treeVars
<1>9. TableConsistent'
  BY SMTT(30), <1>7, TableFrame DEF KernelInv, treeVars, tableVars
<1>10. WaiterGetsItsZombie'
  <2>1. resume[w] # "wait_child"
    BY SMTT(30), <1>2 DEF KernelInv, WaiterGetsItsZombie
  <2> QED BY <1>1, <2>1 DEF KernelInv, WaiterGetsItsZombie, treeVars
<1>11. BlockedInItsCall'
  BY SMTT(30), <1>1, <1>2 DEF KernelInv, BlockedInItsCall
<1>12. BootOrder'
  BY <1>7, ProcAssumption DEF KernelInv, BootOrder, Alive, treeVars
<1> QED BY <1>4, <1>5, <1>6, <1>8, <1>9, <1>10, <1>11, <1>12 DEF KernelInv

(* One iteration of sem_signaln: the first waiter, if any, is made ready. *)
LEMMA SemSignalInv ==
    ASSUME KernelInv, sem_signal
    PROVE  KernelInv'
<1>1. /\ mode = "run" /\ signals > 0 /\ signals' = signals - 1 /\ sem_val' = sem_val + 1
      /\ UNCHANGED <<treeVars, tableVars, resume>>
  BY DEF sem_signal
<1>2. /\ sem_val \in Int /\ sem_queue \in Seq(Proc) /\ signals \in 0..MaxPermits
      /\ sem_val + signals <= MaxPermits
      /\ Len(sem_queue) = IF sem_val < 0 THEN -sem_val ELSE 0
      /\ IsList(sem_queue) /\ wait_queue \in Seq(Timer) /\ IsList(wait_queue)
  BY DEF KernelInv, TypeOK, SchedTypeOK, SemTypeOK, SemCountsWaiters, QueuesMatchStates
<1>3. CASE ~(sem_val < 0)
  <2>1. UNCHANGED <<sem_queue, schedVars, mode>>
    BY <1>3 DEF sem_signal
  <2>2. UNCHANGED <<state, ready_queue, curr_proc, wait_queue>>
    BY <2>1 DEF schedVars
  <2>3. SemTypeOK'
    BY <1>1, <1>2, <2>1, BoundAssumption DEF SemTypeOK
  <2>4. SemCountsWaiters'
    BY <1>1, <1>2, <1>3, <2>1 DEF SemCountsWaiters
  <2>5. WaiterGetsItsZombie' /\ BlockedInItsCall'
    BY SMTT(30), <1>1, <2>2 DEF KernelInv, WaiterGetsItsZombie, BlockedInItsCall, treeVars
  <2>6. /\ resume' \in [Proc -> {"user", "exit", "wait_child", "read"}]
        /\ resume'[Idle] = "user"
    BY <1>1 DEF KernelInv, TypeOK, BootOrder
  <2> QED BY <1>1, <1>2, <2>1, <2>2, <2>3, <2>4, <2>5, <2>6, FrameInv
<1>4. CASE sem_val < 0
  <2> DEFINE w == Head(sem_queue)
             r == list_pop_front(sem_queue)
  <2>1. /\ sem_queue' = r
        /\ SetSched(sched_update_state(Sched, w, "READY"))
    BY <1>4 DEF sem_signal, list_first_entry
  <2>2. sem_queue # <<>>
    BY <1>2, <1>4, SeqLength
  <2>3. /\ w \in Proc /\ w \in Range(sem_queue) /\ r \in Seq(Proc) /\ Len(r) = Len(sem_queue) - 1
        /\ IsList(r) /\ Range(sem_queue) = Range(r) \cup {w} /\ w \notin Range(r)
    BY <1>2, <2>2, PopFront
  <2> HIDE DEF r, w
  <2>4. state[w] = "WAIT_SEM" /\ w \notin Range(wait_queue)
    BY <2>3 DEF KernelInv, QueuesMatchStates
  <2>5. sched_update_state(Sched, w, "READY") =
           [state |-> [state EXCEPT ![w] = "READY"],
            ready_queue |-> list_push_front(ready_queue, w),
            curr_proc |-> curr_proc, wait_queue |-> wait_queue]
    <3>1. Sched \in SchedType
      BY <1>1, RunningFacts
    <3>2. /\ Sched.state = state /\ Sched.ready_queue = ready_queue
          /\ Sched.curr_proc = curr_proc /\ Sched.wait_queue = wait_queue
      BY DEF Sched
    <3> QED BY <2>3, <2>4, <3>1, <3>2, MakeReady
  <2>6. /\ state' = [state EXCEPT ![w] = "READY"]
        /\ ready_queue' = list_push_front(ready_queue, w)
        /\ UNCHANGED <<curr_proc, wait_queue>>
        /\ mode' \in {"run", "hung"}
    <3>1. SetSched([state |-> [state EXCEPT ![w] = "READY"],
                    ready_queue |-> list_push_front(ready_queue, w),
                    curr_proc |-> curr_proc, wait_queue |-> wait_queue])
      BY <2>1, <2>5
    <3> QED BY <1>1, <3>1, SetSchedEffect
  <2>7. SemTypeOK'
    BY <1>1, <1>2, <2>1, <2>3, BoundAssumption DEF SemTypeOK
  <2>8. SemCountsWaiters'
    BY <1>1, <1>2, <1>4, <2>1, <2>3 DEF SemCountsWaiters
  <2>9. /\ Range(wait_queue') = Range(wait_queue) \ {w}
        /\ Range(sem_queue') = Range(sem_queue) \ {w}
    BY <2>1, <2>3, <2>4, <2>6
  <2> QED BY ZenonT(60), <1>1, <1>2, <2>1, <2>3, <2>4, <2>6, <2>7, <2>8, <2>9, WakeInv
<1> QED BY <1>3, <1>4

(* The timer of a sleeper fires. *)
LEMMA WakeupInv ==
    ASSUME KernelInv, wakeup_proc
    PROVE  KernelInv'
<1> DEFINE w == Head(wait_queue)
           r == list_pop_front(wait_queue)
           k == [Sched EXCEPT !.wait_queue = list_pop_front(@)]
<1>1. /\ mode = "run" /\ wait_queue # <<>> /\ w # SchedTimer
      /\ SetSched(sched_update_state(k, w, "READY"))
      /\ UNCHANGED <<treeVars, tableVars, semVars, resume>>
  BY DEF wakeup_proc, Interruptible, list_empty, list_first_entry
<1>2. wait_queue \in Seq(Timer) /\ IsList(wait_queue)
  BY DEF KernelInv, TypeOK, SchedTypeOK, QueuesMatchStates
<1>3. /\ w \in Timer /\ w \in Range(wait_queue) /\ r \in Seq(Timer)
      /\ IsList(r) /\ Range(wait_queue) = Range(r) \cup {w} /\ w \notin Range(r)
  BY <1>1, <1>2, PopFront
<1>4. k = [state |-> state, ready_queue |-> ready_queue,
           curr_proc |-> curr_proc, wait_queue |-> r]
  BY DEF Sched
<1> HIDE DEF r, w, k
<1>5. w \in Proc /\ state[w] = "SLEEP" /\ w \notin Range(sem_queue)
  BY SMTT(30), <1>1, <1>3 DEF Timer, KernelInv, QueuesMatchStates
<1>6. k \in SchedType
  BY <1>3, <1>4 DEF SchedType, KernelInv, TypeOK, SchedTypeOK
<1>7. sched_update_state(k, w, "READY") =
         [state |-> [state EXCEPT ![w] = "READY"],
          ready_queue |-> list_push_front(ready_queue, w),
          curr_proc |-> curr_proc, wait_queue |-> r]
  BY <1>3, <1>4, <1>5, <1>6, MakeReady
<1>8. /\ state' = [state EXCEPT ![w] = "READY"]
      /\ ready_queue' = list_push_front(ready_queue, w)
      /\ UNCHANGED curr_proc /\ wait_queue' = r
      /\ mode' \in {"run", "hung"}
  <2>1. SetSched([state |-> [state EXCEPT ![w] = "READY"],
                  ready_queue |-> list_push_front(ready_queue, w),
                  curr_proc |-> curr_proc, wait_queue |-> r])
    BY <1>1, <1>7
  <2> QED BY <1>1, <2>1, SetSchedEffect
<1>9. /\ Range(wait_queue') = Range(wait_queue) \ {w}
      /\ Range(sem_queue') = Range(sem_queue) \ {w}
      /\ wait_queue' \in Seq(Timer) /\ IsList(wait_queue')
  BY <1>1, <1>3, <1>5, <1>8 DEF semVars
<1>10. SemTypeOK' /\ SemCountsWaiters' /\ IsList(sem_queue')
  BY <1>1 DEF KernelInv, TypeOK, SemTypeOK, SemCountsWaiters, QueuesMatchStates, semVars
<1> QED BY ZenonT(60), <1>1, <1>5, <1>8, <1>9, <1>10, WakeInv
=============================================================================

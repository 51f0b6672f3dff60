---------------------------- MODULE KernelProofs ----------------------------
(*****************************************************************************)
(* Proofs about the process layer, for any number of processes, any size   *)
(* of the process table and either kind of platform: process creation and  *)
(* boot keep its invariant, so every step does, and what follows from it.  *)
(*****************************************************************************)
EXTENDS KernelFamilyProofs, WellFoundedInduction

-----------------------------------------------------------------------------
(* A set of natural numbers that is not empty has a least element. *)
LEMMA LeastNumber ==
    ASSUME NEW S, S \subseteq Nat, S # {}
    PROVE  Min(S) \in S /\ \A i \in S : Min(S) <= i
<1>1. PICK x \in S : \A y \in S : ~(<<y, x>> \in OpToRel(<, Nat))
  BY NatLessThanWellFounded, WFMin, Zenon
<1>2. \A y \in S : x <= y
  <2> SUFFICES ASSUME NEW y \in S, ~(x <= y) PROVE FALSE
    OBVIOUS
  <2>1. x \in Nat /\ y \in Nat /\ y < x
    OBVIOUS
  <2> QED BY Zenon, <1>1, <2>1 DEF OpToRel
<1> QED BY Zenon, <1>2 DEF Min

(* What new_pid returns: a free slot, or EAGAIN when none is free but,     *)
(* at most, last_pid.                                                      *)
LEMMA NewPid ==
    ASSUME TypeOK
    PROVE  /\ new_pid \in Pid \/ new_pid = -EAGAIN
           /\ -EAGAIN \notin Pid
           /\ new_pid \in Pid => proc_table[new_pid] = NULL
           /\ new_pid \notin Pid => \A i \in Pid : proc_table[i] = NULL => i = last_pid
<1> DEFINE above == {i \in Pid : i > last_pid /\ proc_table[i] = NULL}
           below == {i \in Pid : i < last_pid /\ proc_table[i] = NULL}
<1>1. Pid \subseteq Nat /\ last_pid \in Pid /\ -EAGAIN \notin Pid
  BY BoundAssumption DEF Pid, EAGAIN, TypeOK, TableTypeOK
<1>2. above \subseteq Nat /\ below \subseteq Nat
  BY Zenon, <1>1
<1>3. CASE above # {}
  <2>1. Min(above) \in above
    BY <1>2, <1>3, LeastNumber
  <2> QED BY <1>1, <1>3, <2>1 DEF new_pid
<1>4. CASE above = {} /\ below # {}
  <2>1. Min(below) \in below
    BY <1>2, <1>4, LeastNumber
  <2> QED BY <1>1, <1>4, <2>1 DEF new_pid
<1>5. CASE above = {} /\ below = {}
  <2>1. new_pid = -EAGAIN
    BY <1>5 DEF new_pid
  <2>2. \A i \in Pid : i > last_pid \/ i < last_pid \/ i = last_pid
    BY <1>1
  <2> QED BY <1>1, <1>5, <2>1, <2>2
<1> QED BY <1>3, <1>4, <1>5

(* A process object that is free is named nowhere. *)
LEMMA FreeObject ==
    ASSUME KernelInv, NEW c \in Proc, state[c] \in {"FREE", "INIT"}
    PROVE  /\ ~InTree(c) /\ parent[c] = NULL /\ c # curr_proc
           /\ \A q \in Proc : /\ parent[q] # c
                              /\ c \notin Range(children[q])
                              /\ c \notin Range(zombie_children[q])
           /\ c \notin Range(ready_queue)
           /\ \A i \in Pid : proc_table[i] # c
<1>1. ~InTree(c) /\ ~Alive(c)
  BY DEF InTree, Alive, LiveState
<1>2. parent[c] = NULL
  BY <1>1 DEF KernelInv, TreeConsistent
<1>3. \A q \in Proc : parent[q] # c
  BY <1>1, ProcAssumption DEF KernelInv, TreeConsistent
<1>4. \A q \in Proc : c \notin Range(children[q]) /\ c \notin Range(zombie_children[q])
  BY <1>2, ProcAssumption DEF KernelInv, TreeConsistent
<1>5. c # curr_proc /\ c \notin Range(ready_queue)
  BY DEF KernelInv, QueuesMatchStates
<1>6. \A i \in Pid : proc_table[i] # c
  BY <1>1, ProcAssumption DEF KernelInv, TableConsistent
<1> QED BY <1>1, <1>2, <1>3, <1>4, <1>5, <1>6

(* proc_init and the move to READY that follows every call of it. *)
LEMMA NewProc ==
    ASSUME KernelInv, NEW c \in Proc, state[c] = "FREE",
           NEW STATE par, par \in Proc \cup {NULL},
           par = NULL => c \in {Idle, InitProc}, par # NULL => Alive(par),
           NEW table \in BOOLEAN, proc_init(c, par, table),
           state' = [state EXCEPT ![c] = "READY"],
           ready_queue' = list_push_front(ready_queue, c),
           UNCHANGED <<curr_proc, wait_queue, semVars, resume>>,
           mode' = mode \/ mode' = "hung"
    PROVE  /\ TypeOK' /\ QueuesMatchStates' /\ SemCountsWaiters' /\ TreeConsistent'
           /\ WaiterGetsItsZombie' /\ BlockedInItsCall'
           /\ \A i \in Pid : proc_table'[i] # NULL =>
                 InTree(proc_table[i])' /\ pid'[proc_table'[i]] = i
           /\ \A q \in Proc : InTree(q)' => proc_table'[pid'[q]] = q
<1>1. /\ ~InTree(c) /\ parent[c] = NULL /\ c # curr_proc
      /\ \A q \in Proc : /\ parent[q] # c
                         /\ c \notin Range(children[q])
                         /\ c \notin Range(zombie_children[q])
      /\ c \notin Range(ready_queue)
      /\ \A i \in Pid : proc_table[i] # c
  BY FreeObject
<1>2. /\ state \in [Proc -> ProcState] /\ state' \in [Proc -> ProcState]
      /\ state'[c] = "READY" /\ \A q \in Proc \ {c} : state'[q] = state[q]
  BY DEF KernelInv, TypeOK, SchedTypeOK, ProcState
<1>3. /\ ready_queue' \in Seq(Proc) /\ IsList(ready_queue')
      /\ Range(ready_queue') = Range(ready_queue) \cup {c}
  <2> DEFINE r == list_push_front(ready_queue, c)
  <2>1. /\ ready_queue \in Seq(Proc) /\ IsList(ready_queue)
        /\ c \in Proc /\ c \notin Range(ready_queue)
    BY <1>1 DEF KernelInv, TypeOK, SchedTypeOK, QueuesMatchStates
  <2>2. r \in Seq(Proc) /\ IsList(r) /\ Range(r) = Range(ready_queue) \cup {c}
    BY ONLY <2>1, PushFront
  <2> HIDE DEF r
  <2>3. ready_queue' = r
    BY DEF r
  <2> QED BY <2>2, <2>3
<1>4. /\ parent \in [Proc -> Proc \cup {NULL}] /\ parent' \in [Proc -> Proc \cup {NULL}]
      /\ parent'[c] = par /\ \A q \in Proc \ {c} : parent'[q] = parent[q]
  BY DEF KernelInv, TypeOK, TreeTypeOK, proc_init
<1>5. /\ pid \in [Proc -> Pid] /\ pid' \in [Proc -> Pid]
      /\ new_pid \in Pid /\ pid'[c] = new_pid /\ \A q \in Proc \ {c} : pid'[q] = pid[q]
      /\ proc_table \in [Pid -> Proc \cup {NULL}] /\ proc_table' \in [Pid -> Proc \cup {NULL}]
      /\ proc_table'[new_pid] = c
      /\ \A i \in Pid \ {new_pid} : proc_table'[i] = proc_table[i]
  BY DEF KernelInv, TypeOK, TreeTypeOK, TableTypeOK, proc_init
<1>6. proc_table[new_pid] = NULL
  BY <1>5, NewPid DEF KernelInv
<1>7. /\ children' \in [Proc -> Seq(Proc)]
      /\ \A q \in Proc : IsList(children'[q])
      /\ \A q \in Proc : \A x \in Proc :
            x \in Range(children'[q]) <=> x \in Range(children[q]) \/ (x = c /\ q = par)
  <2>1. children \in [Proc -> Seq(Proc)] /\ \A q \in Proc : IsList(children[q])
    BY DEF KernelInv, TypeOK, TreeTypeOK, TreeConsistent
  <2>2. CASE par = NULL
    BY <2>1, <2>2, ProcAssumption DEF proc_init
  <2>3. CASE par # NULL
    <3> DEFINE r == list_push_back(children[par], c)
    <3>1. r \in Seq(Proc) /\ IsList(r) /\ Range(r) = Range(children[par]) \cup {c}
      BY <1>1, <2>1, <2>3, PushBack
    <3>2. children' = [children EXCEPT ![par] = r]
      BY <2>3 DEF proc_init
    <3> HIDE DEF r
    <3>3. /\ children' \in [Proc -> Seq(Proc)] /\ children'[par] = r
          /\ \A q \in Proc \ {par} : children'[q] = children[q]
      BY <2>1, <2>3, <3>1, <3>2
    <3> QED BY Zenon, <1>1, <2>1, <3>1, <3>3
  <2> QED BY <2>2, <2>3
<1>8. UNCHANGED <<zombie_children, proc_waiting>>
  BY DEF proc_init
<1>9. TypeOK'
  <2>1. TreeTypeOK'
    <3>1. page_table' \in [Proc -> BOOLEAN]
      BY DEF KernelInv, TypeOK, TreeTypeOK, proc_init
    <3> QED BY SMTT(30), <1>4, <1>5, <1>7, <1>8, <3>1 DEF KernelInv, TypeOK, TreeTypeOK
  <2>2. TableTypeOK'
    BY <1>5 DEF TableTypeOK, proc_init
  <2>3. SchedTypeOK' /\ SemTypeOK'
    BY <1>2, <1>3 DEF KernelInv, TypeOK, SchedTypeOK, SemTypeOK, semVars
  <2> QED BY <2>1, <2>2, <2>3 DEF KernelInv, TypeOK
<1>10. QueuesMatchStates'
  BY <1>1, <1>2, <1>3 DEF KernelInv, QueuesMatchStates, semVars
<1>11. SemCountsWaiters'
  BY DEF KernelInv, SemCountsWaiters, semVars
<1>12. Alive(c)' /\ \A q \in Proc \ {c} : (Alive(q)' <=> Alive(q)) /\ (InTree(q)' <=> InTree(q))
  BY <1>2 DEF InTree, Alive, LiveState
<1>13. TreeConsistent'
  <2>1. ASSUME NEW q \in Proc, NEW x \in Proc
        PROVE  /\ x \in Range(children'[q]) <=> parent'[x] = q /\ Alive(x)'
               /\ x \in Range(zombie_children'[q]) <=> parent'[x] = q /\ state'[x] = "ZOMBIE"
    <3>1. /\ x \in Range(children[q]) <=> parent[x] = q /\ Alive(x)
          /\ x \in Range(zombie_children[q]) <=> parent[x] = q /\ state[x] = "ZOMBIE"
      BY DEF KernelInv, TreeConsistent
    <3>2. CASE x = c
      BY SMTT(30), <1>1, <1>2, <1>4, <1>7, <1>8, <1>12, <3>2
    <3>3. CASE x # c
      BY <1>2, <1>4, <1>7, <1>8, <1>12, <3>1, <3>3
    <3> QED BY <3>2, <3>3
  <2>2. ASSUME NEW q \in Proc, parent'[q] # NULL
        PROVE  InTree(q)' /\ Alive(parent[q])'
    <3>1. CASE q = c
      BY SMTT(30), <1>1, <1>2, <1>4, <1>12, <2>2, <3>1, ProcAssumption DEF InTree, Alive
    <3>2. CASE q # c
      <4>1. InTree(q) /\ state[parent[q]] \in LiveState /\ parent[q] \in Proc \ {c}
        BY SMTT(30), <1>1, <1>4, <2>2, <3>2 DEF KernelInv, TreeConsistent, Alive
      <4> QED BY SMTT(30), <1>2, <1>4, <1>12, <3>2, <4>1 DEF Alive
    <3> QED BY <3>1, <3>2
  <2>3. ASSUME NEW q \in Proc, InTree(q)', parent'[q] = NULL
        PROVE  q \in {Idle, InitProc}
    BY SMTT(30), <1>4, <1>12, <2>3 DEF KernelInv, TreeConsistent
  <2>4. \A q \in Proc : IsList(children'[q]) /\ IsList(zombie_children'[q])
    BY SMTT(30), <1>7, <1>8 DEF KernelInv, TreeConsistent
  <2> QED BY <2>1, <2>2, <2>3, <2>4 DEF TreeConsistent
<1>14. WaiterGetsItsZombie' /\ BlockedInItsCall'
  BY <1>1, <1>2, <1>8 DEF KernelInv, WaiterGetsItsZombie, BlockedInItsCall
<1>15. ASSUME NEW i \in Pid, proc_table'[i] # NULL
       PROVE  InTree(proc_table[i])' /\ pid'[proc_table'[i]] = i
  <2>1. CASE i = new_pid
    BY <1>2, <1>5, <2>1 DEF InTree, Alive, LiveState
  <2>2. CASE i # new_pid
    <3>1. proc_table'[i] = proc_table[i] /\ proc_table[i] \in Proc \ {c}
      BY <1>1, <1>5, <1>15, <2>2
    <3>2. InTree(proc_table[i]) /\ pid[proc_table[i]] = i
      BY <1>15, <3>1 DEF KernelInv, TableConsistent
    <3>3. state'[proc_table'[i]] = state[proc_table[i]]
      BY <1>2, <3>1
    <3> QED BY <1>5, <3>1, <3>2, <3>3 DEF InTree, Alive
  <2> QED BY <2>1, <2>2
<1>16. ASSUME NEW q \in Proc, InTree(q)'
       PROVE  proc_table'[pid'[q]] = q
  <2>1. CASE q = c
    BY <1>5, <2>1
  <2>2. CASE q # c
    <3>1. proc_table[pid[q]] = q /\ pid[q] \in Pid
      BY <1>5, <1>12, <1>16, <2>2 DEF KernelInv, TableConsistent
    <3> QED BY <1>5, <1>6, <2>2, <3>1, ProcAssumption
  <2> QED BY <2>1, <2>2
<1> QED BY <1>9, <1>10, <1>11, <1>13, <1>14, <1>15, <1>16

(* proc_init that fails leaves an object in state INIT and no other trace  *)
(* but last_pid.                                                           *)
LEMMA ProcInitFailsInv ==
    ASSUME KernelInv, mode = "run", NEW c \in Proc, state[c] = "FREE",
           proc_init_fails(c), UNCHANGED <<semVars, resume>>,
           mode' \in {"run", "hung"}
    PROVE  KernelInv'
<1>1. /\ state \in [Proc -> ProcState] /\ state' \in [Proc -> ProcState]
      /\ state'[c] = "INIT" /\ \A q \in Proc \ {c} : state'[q] = state[q]
  BY DEF KernelInv, TypeOK, SchedTypeOK, ProcState, proc_init_fails
<1>2. UNCHANGED <<treeVars, proc_table, ready_queue, curr_proc, wait_queue>>
      /\ last_pid' \in Pid
  BY DEF KernelInv, TypeOK, TableTypeOK, proc_init_fails
<1>3. /\ \A q \in Proc : state'[q] \in LiveState <=> state[q] \in LiveState
      /\ \A q \in Proc : state'[q] = "ZOMBIE" <=> state[q] = "ZOMBIE"
  BY <1>1 DEF LiveState
<1>4. TypeOK'
  <2>1. TreeTypeOK' /\ TableTypeOK'
    BY <1>2 DEF KernelInv, TypeOK, TreeTypeOK, TableTypeOK, treeVars
  <2>2. SchedTypeOK' /\ SemTypeOK'
    BY <1>1, <1>2 DEF KernelInv, TypeOK, SchedTypeOK, SemTypeOK, semVars
  <2> QED BY <2>1, <2>2 DEF KernelInv, TypeOK
<1>5. QueuesMatchStates'
  BY <1>1, <1>2 DEF KernelInv, QueuesMatchStates, semVars
<1>6. IdleRunnable' /\ SemCountsWaiters'
  BY <1>1, <1>2, ProcAssumption DEF KernelInv, IdleRunnable, SemCountsWaiters, semVars
<1>7. TreeConsistent'
  BY <1>2, <1>3, TreeFrame DEF KernelInv, treeVars
<1>8. TableConsistent'
  BY <1>2, <1>3, TableFrame DEF KernelInv, treeVars
<1>9. WaiterGetsItsZombie' /\ BlockedInItsCall'
  BY SMTT(30), <1>1, <1>2 DEF KernelInv, WaiterGetsItsZombie, BlockedInItsCall, treeVars
<1>10. BootOrder'
  BY <1>1, <1>2, <1>3, ProcAssumption DEF KernelInv, BootOrder, Alive, treeVars
<1> QED BY SMTT(30), <1>4, <1>5, <1>6, <1>7, <1>8, <1>9, <1>10 DEF KernelInv

(* sys_proc. *)
LEMMA ProcInv ==
    ASSUME KernelInv, NEW p \in Proc, NEW c \in Proc, sys_proc(p, c)
    PROVE  KernelInv'
<1>1. /\ mode = "run" /\ p = curr_proc /\ p # Idle /\ state[c] = "FREE"
      /\ UNCHANGED <<semVars, resume>>
  BY SMTT(30) DEF sys_proc, Ecall, Interruptible
<1>2. CASE proc_init(c, p, FALSE) /\ SetSched(sched_update_state(Sched, c, "READY"))
  <2>1. /\ state' = [state EXCEPT ![c] = "READY"]
        /\ ready_queue' = list_push_front(ready_queue, c)
        /\ curr_proc' = curr_proc /\ wait_queue' = wait_queue
        /\ mode' = mode \/ mode' = "hung"
    <3> DEFINE r == [state |-> [state EXCEPT ![c] = "READY"],
                     ready_queue |-> list_push_front(ready_queue, c),
                     curr_proc |-> curr_proc, wait_queue |-> wait_queue]
    <3>1. /\ Sched.state = state /\ Sched.ready_queue = ready_queue
          /\ Sched.curr_proc = curr_proc /\ Sched.wait_queue = wait_queue
      BY DEF Sched
    <3>2. sched_update_state(Sched, c, "READY") = r
      BY <1>1, <3>1, RunningFacts, MakeReady
    <3>3. SetSched(r)
      BY <1>2, <3>2
    <3> QED BY <3>3, SetSchedEffect
  <2>2. Alive(p) /\ p \in Proc \cup {NULL} /\ p # NULL /\ FALSE \in BOOLEAN
    BY <1>1, RunningFacts, ProcAssumption DEF Alive, LiveState
  <2>3. UNCHANGED <<curr_proc, wait_queue, semVars, resume>>
    BY <1>1, <2>1
  <2>4. /\ TypeOK' /\ QueuesMatchStates' /\ SemCountsWaiters' /\ TreeConsistent'
        /\ WaiterGetsItsZombie' /\ BlockedInItsCall'
        /\ \A i \in Pid : proc_table'[i] # NULL =>
              InTree(proc_table[i])' /\ pid'[proc_table'[i]] = i
        /\ \A q \in Proc : InTree(q)' => proc_table'[pid'[q]] = q
    BY Zenon, <1>1, <1>2, <2>1, <2>2, <2>3, NewProc
  <2>5. /\ state \in [Proc -> ProcState]
        /\ state'[c] = "READY" /\ \A q \in Proc \ {c} : state'[q] = state[q]
    BY <2>1 DEF KernelInv, TypeOK, SchedTypeOK
  <2>6. c # Idle /\ c # InitProc
    BY <1>1 DEF KernelInv, IdleRunnable, BootOrder, Alive, LiveState
  <2>7. IdleRunnable'
    <3>1. ready_queue' # <<>>
      <4>1. ready_queue \in Seq(Proc) /\ list_push_front(ready_queue, c) # <<>>
        BY DEF KernelInv, TypeOK, SchedTypeOK, list_push_front
      <4> QED BY <2>1, <4>1
    <3> QED BY SMTT(30), <1>1, <2>1, <2>5, <2>6, <3>1, ProcAssumption
        DEF KernelInv, IdleRunnable, list_empty
  <2>8. proc_table'[0] = Idle /\ proc_table'[1] = InitProc
    <3>1. proc_table[0] = Idle /\ proc_table[1] = InitProc /\ 0 \in Pid /\ 1 \in Pid
      BY <1>1, BoundAssumption DEF KernelInv, TableConsistent, Pid
    <3>2. new_pid \in Pid /\ proc_table[new_pid] = NULL
      BY <1>2, NewPid DEF KernelInv, proc_init
    <3>3. proc_table \in [Pid -> Proc \cup {NULL}]
          /\ proc_table' = [proc_table EXCEPT ![new_pid] = c]
      BY <1>2 DEF KernelInv, TypeOK, TableTypeOK, proc_init
    <3> QED BY <3>1, <3>2, <3>3, ProcAssumption
  <2>9. TableConsistent'
    BY SMTT(30), <2>4, <2>8 DEF TableConsistent
  <2>10. BootOrder'
    <3>1. parent'[InitProc] = NULL /\ parent'[Idle] = NULL
      BY SMTT(30), <1>1, <1>2, <2>6, ProcAssumption
      DEF KernelInv, BootOrder, TypeOK, TreeTypeOK, proc_init
    <3>2. Alive(InitProc)'
      BY <1>1, <2>5, <2>6, ProcAssumption DEF KernelInv, BootOrder, Alive
    <3> QED BY SMTT(30), <1>1, <2>1, <3>1, <3>2 DEF KernelInv, BootOrder
  <2> QED BY <2>4, <2>7, <2>9, <2>10 DEF KernelInv
<1>3. CASE proc_init_fails(c) /\ mode' \in {"run", "hung"}
  BY <1>1, <1>3, ProcInitFailsInv
<1> QED BY ZenonT(60), <1>1, <1>2, <1>3 DEF sys_proc

-----------------------------------------------------------------------------
(* The first two identifiers new_pid gives are 0 and 1. *)
LEMMA FirstPids ==
    ASSUME TypeOK
    PROVE  /\ last_pid = PROC_TABLE_SIZE - 1 /\ (\A i \in Pid : proc_table[i] = NULL) =>
                 new_pid = 0
           /\ last_pid = 0 /\ (\A i \in Pid \ {0} : proc_table[i] = NULL) => new_pid = 1
<1> DEFINE above == {i \in Pid : i > last_pid /\ proc_table[i] = NULL}
           below == {i \in Pid : i < last_pid /\ proc_table[i] = NULL}
<1>1. Pid \subseteq Nat /\ 0 \in Pid /\ 1 \in Pid
      /\ PROC_TABLE_SIZE \in Nat /\ PROC_TABLE_SIZE >= 2
  BY BoundAssumption DEF Pid
<1>2. above \subseteq Nat /\ below \subseteq Nat
  BY Zenon, <1>1
<1>3. ASSUME last_pid = PROC_TABLE_SIZE - 1, \A i \in Pid : proc_table[i] = NULL
      PROVE  new_pid = 0
  <2>1. above = {}
    BY <1>1, <1>3 DEF Pid
  <2>2. 0 \in below
    BY <1>1, <1>3
  <2>3. Min(below) \in below /\ Min(below) <= 0
    BY <1>2, <2>2, LeastNumber
  <2>4. Min(below) = 0
    BY <1>2, <2>3
  <2> QED BY <2>1, <2>2, <2>4 DEF new_pid
<1>4. ASSUME last_pid = 0, \A i \in Pid \ {0} : proc_table[i] = NULL
      PROVE  new_pid = 1
  <2>1. 1 \in above
    BY <1>1, <1>4
  <2>2. Min(above) \in above /\ Min(above) <= 1
    BY <1>2, <2>1, LeastNumber
  <2>3. \A i \in above : i \in Nat /\ i > 0
    BY <1>1, <1>4
  <2>4. \A i \in Nat : i > 0 /\ i <= 1 => i = 1
    OBVIOUS
  <2>5. Min(above) = 1
    BY <2>2, <2>3, <2>4
  <2> QED BY <2>1, <2>5 DEF new_pid
<1> QED BY <1>3, <1>4

(* The module initialiser of the scheduler and kmain: proc_init of the two *)
(* processes that have no parent.                                          *)
LEMMA BootProcInv ==
    ASSUME KernelInv, mode = "boot", NEW c \in {Idle, InitProc}, NEW table \in BOOLEAN,
           state[c] = "FREE", c = InitProc => state[Idle] = "READY",
           c = Idle => state[InitProc] = "FREE",
           proc_init(c, NULL, table),
           LET k == sched_update_state(Sched, c, "READY")
           IN  state' = k.state /\ ready_queue' = k.ready_queue,
           UNCHANGED <<curr_proc, wait_queue, semVars, resume, mode>>
    PROVE  KernelInv'
<1>1. c \in Proc /\ Idle \in Proc /\ InitProc \in Proc /\ Idle # InitProc /\ NULL \notin Proc
  BY ProcAssumption
<1>2. /\ state' = [state EXCEPT ![c] = "READY"]
      /\ ready_queue' = list_push_front(ready_queue, c)
  <2>1. Sched \in SchedType
    BY DEF Sched, SchedType, KernelInv, TypeOK, SchedTypeOK
  <2>2. /\ Sched.state = state /\ Sched.ready_queue = ready_queue
        /\ Sched.curr_proc = curr_proc /\ Sched.wait_queue = wait_queue
    BY DEF Sched
  <2>3. sched_update_state(Sched, c, "READY") =
           [state |-> [state EXCEPT ![c] = "READY"],
            ready_queue |-> list_push_front(ready_queue, c),
            curr_proc |-> curr_proc, wait_queue |-> wait_queue]
    BY <1>1, <2>1, <2>2, MakeReady
  <2> DEFINE k == sched_update_state(Sched, c, "READY")
  <2>4. state' = k.state /\ ready_queue' = k.ready_queue
    OBVIOUS
  <2>5. k = [state |-> [state EXCEPT ![c] = "READY"],
             ready_queue |-> list_push_front(ready_queue, c),
             curr_proc |-> curr_proc, wait_queue |-> wait_queue]
    BY SMTT(30), <2>3
  <2> HIDE DEF k
  <2> QED BY ONLY SMTT(30), <2>4, <2>5
<1>3. /\ TypeOK' /\ QueuesMatchStates' /\ SemCountsWaiters' /\ TreeConsistent'
      /\ WaiterGetsItsZombie' /\ BlockedInItsCall'
      /\ \A i \in Pid : proc_table'[i] # NULL =>
            InTree(proc_table[i])' /\ pid'[proc_table'[i]] = i
      /\ \A q \in Proc : InTree(q)' => proc_table'[pid'[q]] = q
  BY SMTT(30), <1>1, <1>2, NewProc
<1>4. /\ state \in [Proc -> ProcState]
      /\ state'[c] = "READY" /\ \A q \in Proc \ {c} : state'[q] = state[q]
  BY SMTT(30), <1>1, <1>2 DEF KernelInv, TypeOK, SchedTypeOK
<1>5. /\ proc_table \in [Pid -> Proc \cup {NULL}]
      /\ proc_table' = [proc_table EXCEPT ![new_pid] = c]
      /\ last_pid' = new_pid
  BY DEF KernelInv, TypeOK, TableTypeOK, proc_init
<1>6. 0 \in Pid /\ 1 \in Pid
  BY SMTT(30), BoundAssumption DEF Pid
<1>7. \/ c = Idle /\ new_pid = 0 /\ (\A i \in Pid : proc_table[i] = NULL)
      \/ c = InitProc /\ new_pid = 1 /\ proc_table[0] = Idle
  BY <1>1, FirstPids DEF KernelInv, BootOrder
<1>8. BootOrder'
  <2>1. \A q \in Proc : resume'[q] = "user" /\ parent'[q] = NULL
    BY ZenonT(60), <1>1 DEF KernelInv, BootOrder, TypeOK, TreeTypeOK, proc_init
  <2>2. \A q \in Proc \ {Idle, InitProc} : state'[q] = "FREE"
    BY ZenonT(60), <1>4 DEF KernelInv, BootOrder
  <2>3. \/ /\ state'[Idle] = "READY" /\ state'[InitProc] = "FREE"
           /\ last_pid' = 0 /\ proc_table'[0] = Idle
           /\ \A i \in Pid \ {0} : proc_table'[i] = NULL
        \/ /\ state'[Idle] = "READY" /\ state'[InitProc] = "READY"
           /\ proc_table'[0] = Idle /\ proc_table'[1] = InitProc
    <3>1. CASE c = Idle /\ new_pid = 0 /\ (\A i \in Pid : proc_table[i] = NULL)
      BY SMTT(30), <1>1, <1>4, <1>5, <1>6, <3>1
    <3>2. CASE c = InitProc /\ new_pid = 1 /\ proc_table[0] = Idle
      BY SMTT(30), <1>1, <1>4, <1>5, <1>6, <3>2
    <3> QED BY ZenonT(60), <1>7, <3>1, <3>2
  <2> QED BY ZenonT(60), <2>1, <2>2, <2>3 DEF KernelInv, BootOrder
<1>9. IdleRunnable' /\ TableConsistent'
  BY <1>3 DEF IdleRunnable, TableConsistent
<1> QED BY <1>3, <1>8, <1>9 DEF KernelInv

(* The scheduler's initialiser preserves the invariant. *)
LEMMA InitIdleInv ==
    ASSUME KernelInv, init_idle
    PROVE  KernelInv'
<1>1. /\ mode = "boot" /\ state[Idle] = "FREE" /\ proc_init(Idle, NULL, FALSE)
      /\ LET k == sched_update_state(Sched, Idle, "READY")
         IN  state' = k.state /\ ready_queue' = k.ready_queue
      /\ UNCHANGED <<curr_proc, wait_queue, semVars, resume, mode>>
  BY Zenon DEF init_idle, Booting
<1>2. state[InitProc] = "FREE" /\ Idle # InitProc
  BY <1>1, ProcAssumption DEF KernelInv, BootOrder
<1> QED BY Zenon, <1>1, <1>2, BootProcInv

(* So does kmain, up to sched_start. *)
LEMMA KmainInv ==
    ASSUME KernelInv, kmain
    PROVE  KernelInv'
<1>1. /\ mode = "boot" /\ state[Idle] = "READY" /\ state[InitProc] = "FREE"
      /\ proc_init(InitProc, NULL, TRUE)
      /\ LET k == sched_update_state(Sched, InitProc, "READY")
         IN  state' = k.state /\ ready_queue' = k.ready_queue
      /\ UNCHANGED <<curr_proc, wait_queue, semVars, resume, mode>>
  BY ZenonT(60) DEF kmain, Booting
<1> QED BY Zenon, <1>1, ProcAssumption, BootProcInv

(* sched_start: the slice timer is set, and the first ready process runs. *)
LEMMA SchedStartInv ==
    ASSUME KernelInv, sched_start
    PROVE  KernelInv'
<1> DEFINE k == [Sched EXCEPT !.wait_queue = timer_wait(@, SchedTimer, 1)]
           n == Head(ready_queue)
           wq == list_insert(wait_queue, 1, SchedTimer)
           rq == list_remove(ready_queue, n)
<1>1. /\ mode = "boot" /\ state[InitProc] = "READY" /\ state[Idle] = "READY"
      /\ curr_proc = NULL /\ wait_queue = <<>>
      /\ proc_table[0] = Idle /\ proc_table[1] = InitProc
      /\ \A p \in Proc : resume[p] = "user" /\ parent[p] = NULL
      /\ mode' \in {"run", "hung"} /\ UNCHANGED <<treeVars, tableVars, semVars, resume>>
  BY DEF sched_start, Booting, KernelInv, BootOrder
<1>2. /\ state \in [Proc -> ProcState] /\ ready_queue \in Seq(Proc) /\ IsList(ready_queue)
      /\ \A q \in Proc : q \in Range(ready_queue) <=> state[q] = "READY"
  BY DEF KernelInv, TypeOK, SchedTypeOK, QueuesMatchStates
<1>3. ready_queue # <<>> /\ n \in Proc /\ n \in Range(ready_queue) /\ state[n] = "READY"
  <2>1. ready_queue # <<>>
    BY <1>1, <1>2, NotEmpty, ProcAssumption DEF list_empty
  <2> QED BY <1>2, <2>1, PopFront
<1>4. wq \in Seq(Timer) /\ IsList(wq) /\ Range(wq) = {SchedTimer}
  <2>1. /\ wait_queue \in Seq(Timer) /\ SchedTimer \in Timer
        /\ 1 \in 1..(Len(wait_queue) + 1)
    BY <1>1 DEF KernelInv, TypeOK, SchedTypeOK, Timer
  <2>2. IsList(wait_queue) /\ Range(wait_queue) = {}
    BY <1>1 DEF KernelInv, QueuesMatchStates, Range
  <2> HIDE DEF wq
  <2>3. wq \in Seq(Timer) /\ IsList(wq) /\ Range(wq) = Range(wait_queue) \cup {SchedTimer}
    BY ONLY <2>1, <2>2, InsertEntry DEF wq
  <2> QED BY <2>2, <2>3
<1>5. rq \in Seq(Proc) /\ IsList(rq) /\ Range(rq) = Range(ready_queue) \ {n}
  BY Zenon, <1>2, RemoveEntry
<1>6. k = [state |-> state, ready_queue |-> ready_queue, curr_proc |-> NULL,
           wait_queue |-> wq]
  BY <1>1 DEF Sched, timer_wait
<1>7. sched_resched(k) = [state |-> [state EXCEPT ![n] = "CURR"], ready_queue |-> rq,
                          curr_proc |-> n, wait_queue |-> wq]
  <2> HIDE DEF wq
  <2>1. /\ k \in SchedType /\ k.curr_proc = NULL /\ k.ready_queue = ready_queue
        /\ k.state = state /\ k.wait_queue = wq
    BY <1>2, <1>4, <1>6 DEF SchedType
  <2> HIDE DEF k
  <2> QED BY <1>3, <2>1, ReschedFirst
<1>8. /\ state' = [state EXCEPT ![n] = "CURR"] /\ ready_queue' = rq
      /\ curr_proc' = n /\ wait_queue' = wq
  <2>1. /\ state' = sched_resched(k).state /\ ready_queue' = sched_resched(k).ready_queue
        /\ curr_proc' = sched_resched(k).curr_proc
        /\ wait_queue' = sched_resched(k).wait_queue
    BY DEF sched_start
  <2> HIDE DEF k, wq, rq, n
  <2> QED BY <1>7, <2>1
<1> HIDE DEF k, wq, rq, n
<1>9. /\ state' \in [Proc -> ProcState]
      /\ state'[n] = "CURR" /\ \A q \in Proc \ {n} : state'[q] = state[q]
  BY <1>2, <1>3, <1>8 DEF ProcState
<1>10. TypeOK'
  <2>1. TreeTypeOK' /\ TableTypeOK' /\ SemTypeOK'
    BY <1>1
    DEF KernelInv, TypeOK, TreeTypeOK, TableTypeOK, SemTypeOK, treeVars, tableVars, semVars
  <2>2. SchedTypeOK'
    BY SMTT(30), <1>3, <1>4, <1>5, <1>8, <1>9 DEF SchedTypeOK
  <2> QED BY SMTT(30), <1>1, <2>1, <2>2 DEF KernelInv, TypeOK
<1>11. QueuesMatchStates'
  <2>1. \A q \in Proc : q \notin Range(wait_queue) /\ state[q] # "SLEEP" /\ state[q] # "CURR"
    BY SMTT(30), <1>1, ProcAssumption DEF KernelInv, QueuesMatchStates, Range
  <2>2. IsList(sem_queue') /\ \A q \in Proc : q \in Range(sem_queue') <=> state[q] = "WAIT_SEM"
    BY <1>1 DEF KernelInv, QueuesMatchStates, semVars
  <2> QED BY <1>2, <1>3, <1>4, <1>5, <1>8, <1>9, <2>1, <2>2, ProcAssumption
      DEF QueuesMatchStates
<1>12. IdleRunnable'
  <2>1. n # Idle => Idle \in Range(ready_queue')
    BY SMTT(30), <1>1, <1>2, <1>5, <1>8, ProcAssumption
  <2>2. state'[Idle] \in {"READY", "CURR"}
    BY <1>1, <1>9, ProcAssumption
  <2> QED BY SMTT(30), <1>8, <2>1, <2>2, NotEmpty DEF IdleRunnable
<1>13. SemCountsWaiters'
  BY <1>1 DEF KernelInv, SemCountsWaiters, semVars
<1>14. /\ \A q \in Proc : state'[q] \in LiveState <=> state[q] \in LiveState
       /\ \A q \in Proc : state'[q] = "ZOMBIE" <=> state[q] = "ZOMBIE"
  BY SMTT(30), <1>3, <1>9 DEF LiveState
<1>15. TreeConsistent'
  BY SMTT(30), <1>1, <1>14, TreeFrame DEF KernelInv, treeVars
<1>16. TableConsistent'
  <2>1. /\ UNCHANGED <<proc_table, pid>> /\ proc_table \in [Pid -> Proc \cup {NULL}]
    BY <1>1 DEF KernelInv, TypeOK, TableTypeOK, treeVars, tableVars
  <2> QED BY SMTT(30), <1>1, <1>14, <2>1 DEF KernelInv, TableConsistent, InTree, Alive
<1>17. WaiterGetsItsZombie' /\ BlockedInItsCall'
  <2>1. \A q \in Proc : state[q] \in {"FREE", "READY"}
    BY SMTT(30), <1>1 DEF KernelInv, BootOrder
  <2> QED BY SMTT(30), <1>1, <1>3, <1>8, <1>9, <2>1 DEF WaiterGetsItsZombie, BlockedInItsCall
<1>18. BootOrder'
  BY <1>1, <1>3, <1>8, <1>9, ProcAssumption DEF BootOrder, Alive, LiveState, treeVars
<1> QED BY <1>10, <1>11, <1>12, <1>13, <1>15, <1>16, <1>17, <1>18 DEF KernelInv

-----------------------------------------------------------------------------
(* The initial states satisfy the invariant. *)
LEMMA InitInv == Init => KernelInv
<1> SUFFICES ASSUME Init PROVE KernelInv
  OBVIOUS
<1>1. /\ state = [p \in Proc |-> "FREE"] /\ parent = [p \in Proc |-> NULL]
      /\ children = [p \in Proc |-> <<>>] /\ zombie_children = [p \in Proc |-> <<>>]
      /\ resume = [p \in Proc |-> "user"] /\ proc_table = [i \in Pid |-> NULL]
      /\ last_pid = PROC_TABLE_SIZE - 1 /\ ready_queue = <<>> /\ curr_proc = NULL
      /\ wait_queue = <<>> /\ sem_val = 0 /\ sem_queue = <<>> /\ mode = "boot"
  BY DEF Init
<1>2. TypeOK
  <2>1. 0 \in Pid /\ PROC_TABLE_SIZE - 1 \in Pid
    BY BoundAssumption DEF Pid
  <2>2. TreeTypeOK
    BY <2>1 DEF Init, TreeTypeOK
  <2>3. TableTypeOK
    BY <1>1, <2>1 DEF TableTypeOK
  <2>4. SchedTypeOK
    BY <1>1 DEF SchedTypeOK, ProcState
  <2>5. SemTypeOK
    BY BoundAssumption DEF Init, SemTypeOK
  <2> QED BY <1>1, <2>2, <2>3, <2>4, <2>5 DEF TypeOK
<1>3. IsList(<<>>) /\ Range(<<>>) = {}
  BY DEF IsList, IsInjective, Range
<1>4. QueuesMatchStates
  BY <1>1, <1>3, ProcAssumption DEF QueuesMatchStates
<1>5. TreeConsistent
  BY <1>1, <1>3, ProcAssumption DEF TreeConsistent, InTree, Alive, LiveState
<1>6. TableConsistent
  BY <1>1 DEF TableConsistent, InTree, Alive, LiveState
<1>7. IdleRunnable /\ SemCountsWaiters /\ WaiterGetsItsZombie
  BY <1>1 DEF IdleRunnable, SemCountsWaiters, WaiterGetsItsZombie
<1>8. BlockedInItsCall
  BY <1>1 DEF BlockedInItsCall
<1>9. BootOrder
  BY <1>1, ProcAssumption DEF BootOrder
<1> QED BY <1>2, <1>4, <1>5, <1>6, <1>7, <1>8, <1>9 DEF KernelInv

(* Every step preserves it. *)
LEMMA NextInv == KernelInv /\ [Next]_vars => KernelInv'
<1> SUFFICES ASSUME KernelInv, [Next]_vars PROVE KernelInv'
  OBVIOUS
<1>1. CASE init_idle
  BY <1>1, InitIdleInv
<1>2. CASE kmain
  BY <1>2, KmainInv
<1>3. CASE sched_start
  BY SMTT(30), <1>3, SchedStartInv
<1>4. CASE panic
  BY <1>4, StandstillInv DEF panic
<1>5. ASSUME NEW p \in Proc, Syscall(p) PROVE KernelInv'
  <2>1. CASE sys_yield(p)
    BY <2>1, YieldInv
  <2>2. CASE sys_sleep(p)
    BY <2>2, SleepInv
  <2>3. CASE sys_reboot(p)
    BY <2>3, StandstillInv DEF sys_reboot
  <2>4. CASE sys_exit(p)
    BY SMTT(30), <2>4, ExitBeginsInv
  <2>5. CASE sys_wait(p)
    BY SMTT(30), <2>5, WaitInv
  <2>6. CASE sys_read(p)
    BY SMTT(30), <2>6, ReadInv
  <2>7. CASE \E c \in Proc : sys_proc(p, c)
    BY <2>7, ProcInv
  <2> QED BY <1>5, <2>1, <2>2, <2>3, <2>4, <2>5, <2>6, <2>7 DEF Syscall
<1>6. ASSUME NEW p \in Proc, exit_adopt(p) \/ exit_finish(p) \/ wait_resume(p) \/ read_byte(p)
      PROVE  KernelInv'
  BY <1>6, ExitAdoptInv, ExitFinishInv, WaitResumeInv, ReadByteInv
<1>7. CASE sem_signal
  BY SMTT(30), <1>7, SemSignalInv
<1>8. CASE sched_preempt
  BY SMTT(30), <1>8, PreemptInv
<1>9. CASE wakeup_proc
  BY SMTT(30), <1>9, WakeupInv
<1>10. CASE \E n \in 1..MaxPermits : ext_intr(n)
  BY <1>10, ExtIntrInv
<1>11. CASE UNCHANGED vars
  BY <1>11, StandstillInv DEF vars
<1> QED BY <1>1, <1>2, <1>3, <1>4, <1>5, <1>6, <1>7, <1>8, <1>9, <1>10, <1>11
    DEF Next, Boot, KernelStep, TimerIsr, stopped

(* For any number of processes, any table size and any bound on permits,   *)
(* every reachable state of the process layer satisfies KernelInv.         *)
THEOREM KernelInvariant == Spec => []KernelInv
BY InitInv, NextInv, PTL DEF Spec

(* No operation stores a value of the wrong kind (proc.c, sched.c, sem.c). *)
THEOREM TypeCorrect == Spec => []TypeOK
<1>1. KernelInv => TypeOK
  BY DEF KernelInv
<1> QED BY <1>1, KernelInvariant, PTL

(* The queues hold exactly the processes in the state they are for, each   *)
(* once: the links of proc_t are on one list at a time (sched.c, sem.c).   *)
THEOREM QueuesAlwaysMatch == Spec => []QueuesMatchStates
<1>1. KernelInv => QueuesMatchStates
  BY DEF KernelInv
<1> QED BY <1>1, KernelInvariant, PTL

(* sched_resched, which takes the first entry of the ready queue without   *)
(* looking, always finds one.                                              *)
THEOREM SchedulerFindsProcess == Spec => []IdleRunnable
<1>1. KernelInv => IdleRunnable
  BY DEF KernelInv
<1> QED BY <1>1, KernelInvariant, PTL

(* The count of the semaphore and the length of its queue agree (sem.c). *)
THEOREM SemaphoreCounts == Spec => []SemCountsWaiters
<1>1. KernelInv => SemCountsWaiters
  BY DEF KernelInv
<1> QED BY <1>1, KernelInvariant, PTL

(* Parent pointers and the lists of children agree at all times, adoption  *)
(* by init included (proc.c, exit.c, wait.c).                              *)
THEOREM TreeAlwaysConsistent == Spec => []TreeConsistent
<1>1. KernelInv => TreeConsistent
  BY DEF KernelInv
<1> QED BY <1>1, KernelInvariant, PTL

(* The process table is the inverse of the identifiers of the processes in *)
(* the tree (proc.c).                                                      *)
THEOREM TableAlwaysConsistent == Spec => []TableConsistent
<1>1. KernelInv => TableConsistent
  BY DEF KernelInv
<1> QED BY <1>1, KernelInvariant, PTL

(* A waiter that is switched to again finds, in proc_waiting, a zombie of  *)
(* its own that nobody else has collected (exit.c, wait.c).                *)
THEOREM WaiterAlwaysGetsItsZombie == Spec => []WaiterGetsItsZombie
<1>1. KernelInv => WaiterGetsItsZombie
  BY DEF KernelInv
<1> QED BY <1>1, KernelInvariant, PTL

(* A process blocked in the kernel is inside the call that blocked it. *)
THEOREM AlwaysBlockedInItsCall == Spec => []BlockedInItsCall
<1>1. KernelInv => BlockedInItsCall
  BY DEF KernelInv
<1> QED BY <1>1, KernelInvariant, PTL
=============================================================================

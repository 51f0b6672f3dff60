------------------------- MODULE KernelFamilyProofs -------------------------
(*****************************************************************************)
(* The steps of sys_exit and sys_wait, which change the process tree, keep *)
(* the invariant of the process layer.                                     *)
(*****************************************************************************)
EXTENDS KernelSchedProofs

-----------------------------------------------------------------------------
(* proc_deinit of a zombie of the current process (sys_wait). *)
LEMMA CollectInv ==
    ASSUME KernelInv, mode = "run", curr_proc # Idle,
           resume[curr_proc] \in {"user", "wait_child"},
           NEW STATE z, z \in Range(zombie_children[curr_proc]),
           proc_deinit(z, curr_proc),
           UNCHANGED <<ready_queue, curr_proc, wait_queue, semVars, mode>>
    PROVE  KernelInv'
<1> DEFINE par == curr_proc
<1>1. par \in Proc /\ state[par] = "CURR"
  BY RunningFacts
<1>2. z \in Proc
  BY <1>1, EntryType DEF KernelInv, TypeOK, TreeTypeOK
<1>3. state[z] = "ZOMBIE" /\ parent[z] = par
  BY <1>1, <1>2 DEF KernelInv, TreeConsistent
<1>4. z # par /\ z # Idle /\ z # InitProc
  BY <1>1, <1>3, ProcAssumption DEF KernelInv, BootOrder
<1>5. \A c \in Proc : parent[c] # z
  BY <1>2, <1>3, ProcAssumption DEF KernelInv, TreeConsistent, Alive, LiveState
<1>6. /\ state \in [Proc -> ProcState] /\ state' \in [Proc -> ProcState]
      /\ state'[z] = "FREE" /\ \A q \in Proc \ {z} : state'[q] = state[q]
  BY <1>2 DEF KernelInv, TypeOK, SchedTypeOK, ProcState, proc_deinit
<1>7. /\ resume' \in [Proc -> {"user", "exit", "wait_child", "read"}]
      /\ resume'[z] = "user" /\ resume'[par] = "user"
      /\ \A q \in Proc \ {z, par} : resume'[q] = resume[q]
  BY <1>1, <1>2 DEF KernelInv, TypeOK, proc_deinit
<1>8. /\ parent' \in [Proc -> Proc \cup {NULL}]
      /\ parent'[z] = NULL /\ \A q \in Proc \ {z} : parent'[q] = parent[q]
  BY <1>2 DEF KernelInv, TypeOK, TreeTypeOK, proc_deinit
<1>9. /\ zombie_children' \in [Proc -> Seq(Proc)]
      /\ IsList(zombie_children'[par])
      /\ Range(zombie_children'[par]) = Range(zombie_children[par]) \ {z}
      /\ \A q \in Proc \ {par} : zombie_children'[q] = zombie_children[q]
  <2> DEFINE r == list_remove(zombie_children[par], z)
  <2>1. zombie_children \in [Proc -> Seq(Proc)] /\ IsList(zombie_children[par])
    BY <1>1 DEF KernelInv, TypeOK, TreeTypeOK, TreeConsistent
  <2>2. r \in Seq(Proc) /\ IsList(r) /\ Range(r) = Range(zombie_children[par]) \ {z}
    BY <1>1, <2>1, RemoveEntry
  <2>3. zombie_children' = [zombie_children EXCEPT ![par] = r]
    BY DEF proc_deinit
  <2> HIDE DEF r
  <2> QED BY <1>1, <2>1, <2>2, <2>3
<1>10. UNCHANGED <<children, proc_waiting, last_pid>>
  BY DEF proc_deinit
<1>11. TypeOK'
  <2>1. TreeTypeOK'
    BY <1>2, <1>8, <1>9, <1>10, BoundAssumption
    DEF KernelInv, TypeOK, TreeTypeOK, proc_deinit, Pid
  <2>2. TableTypeOK'
    BY <1>2 DEF KernelInv, TypeOK, TreeTypeOK, TableTypeOK, proc_deinit
  <2>3. SchedTypeOK' /\ SemTypeOK'
    BY <1>6 DEF KernelInv, TypeOK, SchedTypeOK, SemTypeOK, semVars
  <2> QED BY <1>7, <2>1, <2>2, <2>3 DEF KernelInv, TypeOK
<1>12. QueuesMatchStates'
  BY <1>2, <1>3, <1>6 DEF KernelInv, QueuesMatchStates, semVars
<1>13. IdleRunnable'
  BY <1>4, <1>6, ProcAssumption DEF KernelInv, IdleRunnable
<1>14. SemCountsWaiters'
  BY DEF KernelInv, SemCountsWaiters, semVars
<1>15. TreeConsistent'
  <2>1. SUFFICES ASSUME NEW p \in Proc
        PROVE  /\ IsList(children'[p]) /\ IsList(zombie_children'[p])
               /\ \A c \in Proc :
                   /\ c \in Range(children'[p]) <=> parent'[c] = p /\ state'[c] \in LiveState
                   /\ c \in Range(zombie_children'[p]) <=>
                          parent'[c] = p /\ state'[c] = "ZOMBIE"
               /\ parent'[p] # NULL =>
                     /\ state'[p] \in LiveState \/ state'[p] = "ZOMBIE"
                     /\ state'[parent'[p]] \in LiveState
               /\ (state'[p] \in LiveState \/ state'[p] = "ZOMBIE") /\ parent'[p] = NULL =>
                     p \in {Idle, InitProc}
    BY DEF TreeConsistent, InTree, Alive
  <2>2. /\ IsList(children[p]) /\ IsList(zombie_children[p])
        /\ \A c \in Proc :
              /\ c \in Range(children[p]) <=> parent[c] = p /\ state[c] \in LiveState
              /\ c \in Range(zombie_children[p]) <=> parent[c] = p /\ state[c] = "ZOMBIE"
        /\ parent[p] # NULL => /\ state[p] \in LiveState \/ state[p] = "ZOMBIE"
                               /\ state[parent[p]] \in LiveState
        /\ (state[p] \in LiveState \/ state[p] = "ZOMBIE") /\ parent[p] = NULL =>
              p \in {Idle, InitProc}
    BY DEF KernelInv, TreeConsistent, InTree, Alive
  <2>3. "FREE" \notin LiveState /\ "ZOMBIE" \notin LiveState
    BY DEF LiveState
  <2>4. parent[p] \in Proc \cup {NULL}
    BY DEF KernelInv, TypeOK, TreeTypeOK
  <2>5. IsList(children'[p]) /\ IsList(zombie_children'[p])
    BY <1>1, <1>9, <1>10, <2>2
  <2>6. ASSUME NEW c \in Proc
        PROVE  /\ c \in Range(children'[p]) <=> parent'[c] = p /\ state'[c] \in LiveState
               /\ c \in Range(zombie_children'[p]) <=>
                      parent'[c] = p /\ state'[c] = "ZOMBIE"
    <3>1. CASE c = z
      BY Zenon, <1>2, <1>3, <1>6, <1>8, <1>9, <1>10, <2>2, <2>3, <3>1, ProcAssumption
    <3>2. CASE c # z
      BY ZenonT(60), <1>6, <1>8, <1>9, <1>10, <2>2, <3>2
    <3> QED BY <3>1, <3>2
  <2>7. parent'[p] # NULL => /\ state'[p] \in LiveState \/ state'[p] = "ZOMBIE"
                             /\ state'[parent'[p]] \in LiveState
    BY <1>5, <1>6, <1>8, <2>2, <2>4
  <2>8. (state'[p] \in LiveState \/ state'[p] = "ZOMBIE") /\ parent'[p] = NULL =>
           p \in {Idle, InitProc}
    BY <1>6, <1>8, <2>2, <2>3
  <2> QED BY <2>5, <2>6, <2>7, <2>8
<1>16. TableConsistent'
  <2>1. pid[z] \in Pid /\ proc_table[pid[z]] = z /\ proc_table \in [Pid -> Proc \cup {NULL}]
    BY <1>2, <1>3 DEF KernelInv, TypeOK, TreeTypeOK, TableTypeOK, TableConsistent, InTree
  <2>2. /\ proc_table' = [proc_table EXCEPT ![pid[z]] = NULL]
        /\ \A q \in Proc \ {z} : pid'[q] = pid[q]
    BY <1>2 DEF KernelInv, TypeOK, TreeTypeOK, proc_deinit
  <2>3. ASSUME NEW i \in Pid, proc_table'[i] # NULL
        PROVE  InTree(proc_table[i])' /\ pid'[proc_table'[i]] = i
    <3>1. i # pid[z] /\ proc_table'[i] = proc_table[i] /\ proc_table[i] \in Proc \ {z}
      BY <2>1, <2>2, <2>3 DEF KernelInv, TableConsistent
    <3>2. InTree(proc_table[i]) /\ pid[proc_table[i]] = i
      BY <2>3, <3>1, ProcAssumption DEF KernelInv, TableConsistent
    <3>3. state'[proc_table'[i]] = state[proc_table[i]]
      BY <1>6, <3>1
    <3> QED BY <2>2, <3>1, <3>2, <3>3 DEF InTree, Alive
  <2>4. ASSUME NEW q \in Proc, InTree(q)' PROVE proc_table'[pid'[q]] = q
    <3>1. q # z /\ InTree(q)
      BY <1>6, <2>4 DEF InTree, Alive, LiveState
    <3>2. proc_table[pid[q]] = q /\ pid[q] # pid[z] /\ pid[q] \in Pid
      BY <2>1, <3>1 DEF KernelInv, TypeOK, TreeTypeOK, TableConsistent
    <3> QED BY <2>1, <2>2, <3>1, <3>2
  <2>5. proc_table'[0] = Idle /\ proc_table'[1] = InitProc
    <3>1. proc_table[0] = Idle /\ proc_table[1] = InitProc
      BY DEF KernelInv, TableConsistent
    <3>2. pid[z] # 0 /\ pid[z] # 1 /\ 0 \in Pid /\ 1 \in Pid
      BY <1>4, <2>1, <3>1, BoundAssumption DEF Pid
    <3> QED BY <2>1, <2>2, <3>1, <3>2
  <2> QED BY <2>3, <2>4, <2>5 DEF TableConsistent
<1>17. WaiterGetsItsZombie'
  BY <1>1, <1>2, <1>6, <1>7 DEF KernelInv, WaiterGetsItsZombie
<1>18. BlockedInItsCall'
  BY <1>1, <1>2, <1>3, <1>4, <1>6, <1>7 DEF KernelInv, BlockedInItsCall
<1>19. BootOrder'
  BY SMTT(30), <1>4, <1>6, <1>7, <1>8, ProcAssumption DEF KernelInv, BootOrder, Alive
<1> QED BY <1>11, <1>12, <1>13, <1>14, <1>15, <1>16, <1>17, <1>18, <1>19 DEF KernelInv

(* sys_wait and its continuation after the switch. *)
LEMMA WaitInv ==
    ASSUME KernelInv, NEW p \in Proc, sys_wait(p)
    PROVE  KernelInv'
<1>1. mode = "run" /\ p = curr_proc /\ curr_proc # Idle /\ resume[curr_proc] = "user"
  BY DEF sys_wait, Ecall, Interruptible
<1>2. CASE /\ ~list_empty(zombie_children[p])
           /\ proc_deinit(list_first_entry(zombie_children[p]), p)
           /\ UNCHANGED <<ready_queue, curr_proc, wait_queue, semVars, mode>>
  <2>1. list_first_entry(zombie_children[p]) \in Range(zombie_children[p])
    BY <1>2, FirstEntry DEF KernelInv, TypeOK, TreeTypeOK
  <2> QED BY <1>1, <1>2, <2>1, CollectInv
<1>3. CASE /\ SetSched(sched_update_state(Sched, p, "WAIT_CHILD"))
           /\ resume' = [resume EXCEPT ![p] = "wait_child"]
           /\ UNCHANGED <<treeVars, tableVars, semVars>>
  BY Zenon, <1>3, WaitBlocksInv DEF sys_wait
<1> QED BY <1>2, <1>3 DEF sys_wait

(* sys_wait after the switch collects the child named in proc_waiting. *)
LEMMA WaitResumeInv ==
    ASSUME KernelInv, NEW p \in Proc, wait_resume(p)
    PROVE  KernelInv'
<1>1. mode = "run" /\ p = curr_proc /\ resume[curr_proc] = "wait_child"
  BY DEF wait_resume, Resumes
<1>2. curr_proc # Idle
  BY <1>1 DEF KernelInv, BootOrder
<1>3. state[p] = "CURR"
  BY <1>1, RunningFacts
<1>4. proc_waiting[p] \in Range(zombie_children[p])
  BY <1>1, <1>3 DEF KernelInv, WaiterGetsItsZombie
<1> QED BY <1>1, <1>2, <1>4, CollectInv DEF wait_resume

-----------------------------------------------------------------------------
(* An entry moves from the list of old to that of np, as in proc_adopt. *)
Moved(f, old, np, c) ==
    [[f EXCEPT ![old] = list_remove(@, c)] EXCEPT ![np] = list_push_back(@, c)]

(* Afterwards it is on that list and on no other. *)
LEMMA MoveEntry ==
    ASSUME NEW f \in [Proc -> Seq(Proc)], NEW old \in Proc, NEW np \in Proc,
           NEW c \in Proc,
           \A q \in Proc : IsList(f[q]),
           \A q \in Proc \ {old} : c \notin Range(f[q])
    PROVE  LET g == Moved(f, old, np, c)
           IN  /\ g \in [Proc -> Seq(Proc)]
               /\ \A q \in Proc : IsList(g[q])
               /\ \A q \in Proc : \A x \in Proc :
                     x \in Range(g[q]) <=> IF x = c THEN q = np ELSE x \in Range(f[q])
<1> DEFINE r == list_remove(f[old], c)
           h == [f EXCEPT ![old] = r]
           b == list_push_back(h[np], c)
           g == [h EXCEPT ![np] = b]
<1>1. r \in Seq(Proc) /\ IsList(r) /\ Range(r) = Range(f[old]) \ {c}
  BY RemoveEntry
<1> HIDE DEF r
<1>2. /\ h \in [Proc -> Seq(Proc)] /\ h[old] = r
      /\ \A q \in Proc \ {old} : h[q] = f[q]
  BY <1>1
<1>3. IsList(h[np]) /\ c \notin Range(h[np])
  BY <1>1, <1>2
<1> HIDE DEF h
<1>4. b \in Seq(Proc) /\ IsList(b) /\ Range(b) = Range(h[np]) \cup {c}
  BY <1>2, <1>3, PushBack
<1> HIDE DEF b
<1>5. /\ g \in [Proc -> Seq(Proc)] /\ g[np] = b
      /\ \A q \in Proc \ {np} : g[q] = h[q]
  BY <1>2, <1>4
<1> HIDE DEF g
<1>6. \A q \in Proc : IsList(g[q])
  BY Zenon, <1>1, <1>2, <1>4, <1>5
<1>7. \A q \in Proc : \A x \in Proc : x \in Range(h[q]) <=> x # c /\ x \in Range(f[q])
  BY Zenon, <1>1, <1>2
<1>8. \A q \in Proc : \A x \in Proc :
         x \in Range(g[q]) <=> IF x = c THEN q = np ELSE x \in Range(f[q])
  BY Zenon, <1>4, <1>5, <1>7
<1> QED BY Zenon, <1>5, <1>6, <1>8 DEF g, h, r, b, Moved

(* list_remove of what is not there, as in proc_adopt: the other list of   *)
(* the old parent is left as it is.                                        *)
LEMMA KeepOther ==
    ASSUME NEW f \in [Proc -> Seq(Proc)], NEW old \in Proc, NEW c,
           c \notin Range(f[old])
    PROVE  [f EXCEPT ![old] = list_remove(@, c)] = f
<1>1. list_remove(f[old], c) = f[old]
  BY RemoveEntry
<1> QED BY <1>1

(* proc_adopt by init_proc of a child, live or zombie, of the current      *)
(* process, inside sys_exit.                                               *)
LEMMA AdoptInv ==
    ASSUME KernelInv, mode = "run", resume[curr_proc] = "exit",
           NEW STATE c, c \in Proc, parent[c] = curr_proc,
           proc_adopt(InitProc, c, curr_proc),
           UNCHANGED <<pid, proc_waiting, page_table, tableVars, schedVars, semVars,
                       resume, mode>>
    PROVE  KernelInv'
<1> DEFINE p == curr_proc
<1>1. p \in Proc /\ state[p] = "CURR" /\ InitProc \in Proc
  BY RunningFacts, ProcAssumption
<1>2. /\ parent \in [Proc -> Proc \cup {NULL}]
      /\ children \in [Proc -> Seq(Proc)] /\ zombie_children \in [Proc -> Seq(Proc)]
  BY DEF KernelInv, TypeOK, TreeTypeOK
<1>3. \A q \in Proc : IsList(children[q]) /\ IsList(zombie_children[q])
  BY DEF KernelInv, TreeConsistent
<1>4. \A q \in Proc : \A x \in Proc :
         /\ x \in Range(children[q]) <=> parent[x] = q /\ Alive(x)
         /\ x \in Range(zombie_children[q]) <=> parent[x] = q /\ state[x] = "ZOMBIE"
  BY DEF KernelInv, TreeConsistent
<1>5. /\ parent' \in [Proc -> Proc \cup {NULL}]
      /\ parent'[c] = InitProc /\ \A q \in Proc \ {c} : parent'[q] = parent[q]
  BY <1>1, <1>2 DEF proc_adopt
<1>6. /\ children' \in [Proc -> Seq(Proc)] /\ zombie_children' \in [Proc -> Seq(Proc)]
      /\ \A q \in Proc : IsList(children'[q]) /\ IsList(zombie_children'[q])
      /\ \A q \in Proc : \A x \in Proc :
            /\ x \in Range(children'[q]) <=> parent'[x] = q /\ Alive(x)
            /\ x \in Range(zombie_children'[q]) <=> parent'[x] = q /\ state[x] = "ZOMBIE"
  <2>1. CASE state[c] # "ZOMBIE"
    <3>1. Alive(c)
      BY <1>1, <2>1, ProcAssumption DEF KernelInv, TreeConsistent, InTree
    <3>2. c \notin Range(zombie_children[p])
          /\ \A q \in Proc \ {p} : c \notin Range(children[q])
      BY <1>1, <1>4, <2>1
    <3> DEFINE g == Moved(children, p, InitProc, c)
               o == [zombie_children EXCEPT ![p] = list_remove(@, c)]
    <3>3. children' = g /\ zombie_children' = o
      BY <2>1 DEF proc_adopt, Moved
    <3>4. o = zombie_children
      BY Zenon, <1>1, <1>2, <3>2, KeepOther
    <3>5. /\ g \in [Proc -> Seq(Proc)] /\ \A q \in Proc : IsList(g[q])
          /\ \A q \in Proc : \A x \in Proc :
               x \in Range(g[q]) <=> IF x = c THEN q = InitProc ELSE x \in Range(children[q])
      <4>1. /\ children \in [Proc -> Seq(Proc)] /\ p \in Proc /\ InitProc \in Proc /\ c \in Proc
            /\ \A q \in Proc : IsList(children[q])
            /\ \A q \in Proc \ {p} : c \notin Range(children[q])
        BY <1>1, <1>2, <1>3, <3>2
      <4> HIDE DEF p
      <4> QED BY ONLY ZenonT(60), <4>1, MoveEntry
    <3> HIDE DEF g, o
    <3>6. ASSUME NEW q \in Proc, NEW x \in Proc
          PROVE  /\ x \in Range(children'[q]) <=> parent'[x] = q /\ Alive(x)
                 /\ x \in Range(zombie_children'[q]) <=>
                        parent'[x] = q /\ state[x] = "ZOMBIE"
      <4>1. CASE x = c
        BY <1>1, <1>4, <1>5, <2>1, <3>1, <3>3, <3>4, <3>5, <4>1
      <4>2. CASE x # c
        BY ZenonT(60), <1>4, <1>5, <3>3, <3>4, <3>5, <4>2
      <4> QED BY <4>1, <4>2
    <3> QED BY <1>2, <1>3, <3>3, <3>4, <3>5, <3>6
  <2>2. CASE state[c] = "ZOMBIE"
    <3>1. ~Alive(c)
      BY <2>2 DEF Alive, LiveState
    <3>2. c \notin Range(children[p])
          /\ \A q \in Proc \ {p} : c \notin Range(zombie_children[q])
      BY SMTT(30), <1>1, <1>4, <3>1
    <3> DEFINE g == Moved(zombie_children, p, InitProc, c)
               o == [children EXCEPT ![p] = list_remove(@, c)]
    <3>3. zombie_children' = g /\ children' = o
      BY <2>2 DEF proc_adopt, Moved
    <3>4. o = children
      BY ZenonT(60), <1>1, <1>2, <3>2, KeepOther
    <3>5. /\ g \in [Proc -> Seq(Proc)] /\ \A q \in Proc : IsList(g[q])
          /\ \A q \in Proc : \A x \in Proc :
               x \in Range(g[q]) <=> IF x = c THEN q = InitProc ELSE x \in Range(zombie_children[q])
      <4>1. /\ zombie_children \in [Proc -> Seq(Proc)] /\ p \in Proc /\ InitProc \in Proc /\ c \in Proc
            /\ \A q \in Proc : IsList(zombie_children[q])
            /\ \A q \in Proc \ {p} : c \notin Range(zombie_children[q])
        BY <1>1, <1>2, <1>3, <3>2
      <4> HIDE DEF p
      <4> QED BY ONLY ZenonT(60), <4>1, MoveEntry
    <3> HIDE DEF g, o
    <3>6. ASSUME NEW q \in Proc, NEW x \in Proc
          PROVE  /\ x \in Range(children'[q]) <=> parent'[x] = q /\ Alive(x)
                 /\ x \in Range(zombie_children'[q]) <=>
                        parent'[x] = q /\ state[x] = "ZOMBIE"
      <4>1. CASE x = c
        BY <1>1, <1>4, <1>5, <2>2, <3>1, <3>3, <3>4, <3>5, <4>1
      <4>2. CASE x # c
        BY ZenonT(60), <1>4, <1>5, <3>3, <3>4, <3>5, <4>2
      <4> QED BY SMTT(30), <4>1, <4>2
    <3> QED BY <1>2, <1>3, <3>3, <3>4, <3>5, <3>6
  <2> QED BY <2>1, <2>2
<1>7. UNCHANGED <<state, ready_queue, curr_proc, wait_queue>>
  BY DEF schedVars
<1>8. TypeOK'
  <2>1. TreeTypeOK'
    BY <1>5, <1>6 DEF KernelInv, TypeOK, TreeTypeOK
  <2>2. TableTypeOK' /\ SchedTypeOK' /\ SemTypeOK'
    BY SMTT(30), <1>7 DEF KernelInv, TypeOK, TableTypeOK, SchedTypeOK, SemTypeOK, tableVars, semVars
  <2> QED BY <2>1, <2>2 DEF KernelInv, TypeOK
<1>9. QueuesMatchStates' /\ IdleRunnable' /\ SemCountsWaiters'
  BY <1>7 DEF KernelInv, QueuesMatchStates, IdleRunnable, SemCountsWaiters, semVars
<1>10. TreeConsistent'
  <2>1. \A q \in Proc : Alive(q)' <=> Alive(q)
    BY <1>7 DEF Alive
  <2>2. \A q \in Proc : InTree(q)' <=> InTree(q)
    BY <1>7 DEF InTree, Alive
  <2>3. Alive(InitProc)
    BY DEF KernelInv, BootOrder
  <2>4. InTree(c) /\ parent[c] # NULL
    BY <1>1, ProcAssumption DEF KernelInv, TreeConsistent
  <2>5. \A q \in Proc : parent'[q] # NULL => InTree(q) /\ state'[parent'[q]] \in LiveState
    <3> SUFFICES ASSUME NEW q \in Proc, parent'[q] # NULL
                 PROVE  InTree(q) /\ state[parent'[q]] \in LiveState
      BY <1>7
    <3>1. CASE q = c
      BY <1>5, <2>3, <2>4, <3>1 DEF Alive
    <3>2. CASE q # c
      BY <1>5, <3>2 DEF KernelInv, TreeConsistent, Alive
    <3> QED BY <3>1, <3>2
  <2>6. \A q \in Proc : InTree(q) /\ parent'[q] = NULL => q \in {Idle, InitProc}
    BY <1>1, <1>5, <2>4, ProcAssumption DEF KernelInv, TreeConsistent
  <2>7. \A q \in Proc : parent'[q] # NULL => InTree(q)' /\ Alive(parent[q])'
    BY <2>2, <2>5 DEF Alive
  <2> QED BY <1>6, <1>7, <2>1, <2>2, <2>6, <2>7 DEF TreeConsistent
<1>11. TableConsistent'
  BY <1>7, TableFrame DEF KernelInv, tableVars
<1>12. WaiterGetsItsZombie'
  <2>1. \A q \in Proc : resume[q] = "wait_child" => state[q] = "WAIT_CHILD"
    BY DEF KernelInv, WaiterGetsItsZombie
  <2> QED BY <1>7, <2>1 DEF WaiterGetsItsZombie
<1>13. BlockedInItsCall'
  BY <1>7 DEF KernelInv, BlockedInItsCall
<1>14. BootOrder'
  BY SMTT(30), <1>1, <1>5, <1>7, ProcAssumption DEF KernelInv, BootOrder, Alive
<1> QED BY <1>8, <1>9, <1>10, <1>11, <1>12, <1>13, <1>14 DEF KernelInv

(* An iteration of either adoption loop of sys_exit. *)
LEMMA ExitAdoptInv ==
    ASSUME KernelInv, NEW p \in Proc, exit_adopt(p)
    PROVE  KernelInv'
<1>1. mode = "run" /\ p = curr_proc /\ resume[curr_proc] = "exit"
  BY DEF exit_adopt, Resumes
<1>2. proc_table[1] = InitProc
  BY <1>1 DEF KernelInv, TableConsistent
<1>3. children[p] \in Seq(Proc) /\ zombie_children[p] \in Seq(Proc)
  BY DEF KernelInv, TypeOK, TreeTypeOK
<1>4. UNCHANGED <<pid, proc_waiting, page_table, tableVars, schedVars, semVars, resume, mode>>
  BY DEF exit_adopt
<1>5. CASE /\ ~list_empty(children[p])
           /\ proc_adopt(proc_table[1], list_first_entry(children[p]), p)
  <2> DEFINE c == list_first_entry(children[p])
  <2>1. c \in Range(children[p]) /\ c \in Proc
    BY <1>3, <1>5, FirstEntry
  <2>2. parent[c] = curr_proc
    BY <1>1, <2>1 DEF KernelInv, TreeConsistent
  <2>3. proc_adopt(InitProc, c, curr_proc)
    BY <1>1, <1>2, <1>5
  <2> HIDE DEF c
  <2> QED BY <1>1, <1>4, <2>1, <2>2, <2>3, AdoptInv
<1>6. CASE /\ ~list_empty(zombie_children[p])
           /\ proc_adopt(proc_table[1], list_first_entry(zombie_children[p]), p)
  <2> DEFINE c == list_first_entry(zombie_children[p])
  <2>1. c \in Range(zombie_children[p]) /\ c \in Proc
    BY <1>3, <1>6, FirstEntry
  <2>2. parent[c] = curr_proc
    BY <1>1, <2>1 DEF KernelInv, TreeConsistent
  <2>3. proc_adopt(InitProc, c, curr_proc)
    BY SMTT(30), <1>1, <1>2, <1>6
  <2> HIDE DEF c
  <2> QED BY SMTT(30), <1>1, <1>4, <2>1, <2>2, <2>3, AdoptInv
<1> QED BY SMTT(30), <1>5, <1>6 DEF exit_adopt

(* What the end of sys_exit does to the scheduler when the parent waits:   *)
(* the parent goes to the front of the ready queue and is taken from there *)
(* at once, so the ready queue is as before.                               *)
LEMMA ExitSwitchesToParent ==
    ASSUME KernelInv, mode = "run", curr_proc # Idle,
           NEW STATE par, par \in Proc, state[par] = "WAIT_CHILD",
           SetSched(sched_update_state(sched_update_state(Sched, par, "READY"),
                                       curr_proc, "ZOMBIE"))
    PROVE  /\ state' = [[[state EXCEPT ![par] = "READY"]
                            EXCEPT ![curr_proc] = "ZOMBIE"] EXCEPT ![par] = "CURR"]
           /\ UNCHANGED <<ready_queue, wait_queue>> /\ curr_proc' = par
           /\ mode' \in {"run", "hung"}
<1> DEFINE p == curr_proc
           rq == list_push_front(ready_queue, par)
           st == [state EXCEPT ![par] = "READY"]
           k == [state |-> st, ready_queue |-> rq, curr_proc |-> p, wait_queue |-> wait_queue]
<1>1. p \in Proc /\ state[p] = "CURR" /\ Sched \in SchedType
  BY RunningFacts
<1>2. sched_update_state(Sched, par, "READY") = k
  <2>1. /\ Sched.state = state /\ Sched.ready_queue = ready_queue
        /\ Sched.curr_proc = curr_proc /\ Sched.wait_queue = wait_queue
    BY DEF Sched
  <2> QED BY <1>1, <2>1, MakeReady
<1>3. /\ state \in [Proc -> ProcState] /\ ready_queue \in Seq(Proc)
      /\ wait_queue \in Seq(Timer) /\ par \notin Range(ready_queue)
  BY DEF KernelInv, TypeOK, SchedTypeOK, QueuesMatchStates
<1>4. rq \in Seq(Proc) /\ Head(rq) = par /\ rq # <<>> /\ list_remove(rq, par) = ready_queue
  <2>1. rq \in Seq(Proc) /\ Head(rq) = par /\ Len(rq) = Len(ready_queue) + 1
    BY <1>3, PushFront
  <2>2. Len(ready_queue) \in Nat
    BY <1>3, SeqLength
  <2>3. list_remove(rq, par) = ready_queue
    BY <1>3, RemovePushed
  <2> QED BY <2>1, <2>2, <2>3
<1> HIDE DEF rq
<1>5. st \in [Proc -> ProcState] /\ st[par] = "READY" /\ st[p] = "CURR"
  BY SMTT(30), <1>1, <1>3 DEF ProcState
<1>6. k \in SchedType
  BY <1>1, <1>3, <1>4, <1>5 DEF SchedType
<1> DEFINE r == [state |-> [[st EXCEPT ![p] = "ZOMBIE"] EXCEPT ![par] = "CURR"],
                 ready_queue |-> ready_queue, curr_proc |-> par, wait_queue |-> wait_queue]
<1>7. sched_update_state(k, p, "ZOMBIE") = r
  <2>1. k.state = st /\ k.ready_queue = rq /\ k.curr_proc = p /\ k.wait_queue = wait_queue
    OBVIOUS
  <2>2. "ZOMBIE" \in Blocked
    BY DEF Blocked
  <2> HIDE DEF k, st, p
  <2> QED BY Zenon, <1>1, <1>4, <1>5, <1>6, <2>1, <2>2, BlockCurrent
<1>8. SetSched(r)
  BY <1>2, <1>7
<1>9. /\ state' = [[st EXCEPT ![p] = "ZOMBIE"] EXCEPT ![par] = "CURR"]
      /\ ready_queue' = ready_queue /\ curr_proc' = par /\ wait_queue' = wait_queue
      /\ mode' = mode \/ mode' = "hung"
  <2> HIDE DEF st, p
  <2> QED BY <1>8, SetSchedEffect
<1> QED BY <1>9

(* The switch at the end of sys_exit, whether the parent waits or not. *)
LEMMA ExitSwitches ==
    ASSUME KernelInv, mode = "run", curr_proc # Idle,
           NEW STATE par, par \in Proc, par # curr_proc,
           LET k == IF state[par] = "WAIT_CHILD"
                    THEN sched_update_state(Sched, par, "READY") ELSE Sched
           IN  SetSched(sched_update_state(k, curr_proc, "ZOMBIE"))
    PROVE  \E n \in Proc :
              /\ n # curr_proc /\ n # NULL
              /\ IF state[par] = "WAIT_CHILD" THEN n = par ELSE state[n] = "READY"
              /\ state' \in [Proc -> ProcState]
              /\ state'[curr_proc] = "ZOMBIE" /\ state'[n] = "CURR"
              /\ \A q \in Proc \ {curr_proc, n} : state'[q] = state[q]
              /\ ready_queue' \in Seq(Proc) /\ IsList(ready_queue')
              /\ Range(ready_queue') = Range(ready_queue) \ {n}
              /\ curr_proc' = n
              /\ wait_queue' = wait_queue
              /\ mode' \in {"run", "hung"}
<1>1. curr_proc \in Proc /\ state \in [Proc -> ProcState]
  BY RunningFacts DEF KernelInv, TypeOK, SchedTypeOK
<1>2. /\ ready_queue \in Seq(Proc) /\ IsList(ready_queue) /\ wait_queue \in Seq(Timer)
      /\ \A q \in Proc : q \in Range(ready_queue) <=> state[q] = "READY"
  BY DEF KernelInv, TypeOK, SchedTypeOK, QueuesMatchStates
<1>3. CASE state[par] = "WAIT_CHILD"
  <2>1. /\ state' = [[[state EXCEPT ![par] = "READY"]
                         EXCEPT ![curr_proc] = "ZOMBIE"] EXCEPT ![par] = "CURR"]
        /\ UNCHANGED <<ready_queue, wait_queue>> /\ curr_proc' = par
        /\ mode' \in {"run", "hung"}
    BY <1>3, ExitSwitchesToParent
  <2>2. /\ state' \in [Proc -> ProcState]
        /\ state'[curr_proc] = "ZOMBIE" /\ state'[par] = "CURR"
        /\ \A q \in Proc \ {curr_proc, par} : state'[q] = state[q]
    BY <1>1, <2>1 DEF ProcState
  <2>3. Range(ready_queue) = Range(ready_queue) \ {par}
    BY <1>2, <1>3
  <2> QED BY <1>2, <1>3, <2>1, <2>2, <2>3, ProcAssumption
<1>4. CASE state[par] # "WAIT_CHILD"
  <2>1. Sched = [Sched EXCEPT !.wait_queue = wait_queue]
    BY DEF Sched
  <2>2. SetSched(sched_update_state([Sched EXCEPT !.wait_queue = wait_queue],
                                    curr_proc, "ZOMBIE"))
    BY <1>4, <2>1
  <2>3. "ZOMBIE" \in Blocked
    BY DEF Blocked
  <2>4. PICK n \in Proc :
           /\ n # curr_proc /\ state[n] = "READY"
           /\ state' = [[state EXCEPT ![curr_proc] = "ZOMBIE"] EXCEPT ![n] = "CURR"]
           /\ ready_queue' \in Seq(Proc) /\ IsList(ready_queue')
           /\ Range(ready_queue') = Range(ready_queue) \ {n}
           /\ curr_proc' = n
           /\ wait_queue' = wait_queue
           /\ mode' \in {"run", "hung"}
    BY <1>2, <2>2, <2>3, CurrentBlocks
  <2>5. /\ state' \in [Proc -> ProcState]
        /\ state'[curr_proc] = "ZOMBIE" /\ state'[n] = "CURR"
        /\ \A q \in Proc \ {curr_proc, n} : state'[q] = state[q]
    BY ZenonT(60), <1>1, <2>4 DEF ProcState
  <2> QED BY <1>4, <2>4, <2>5, ProcAssumption
<1> QED BY <1>3, <1>4

(* The end of sys_exit. *)
LEMMA ExitFinishInv ==
    ASSUME KernelInv, NEW p \in Proc, exit_finish(p)
    PROVE  KernelInv'
<1>1. /\ mode = "run" /\ p = curr_proc /\ resume[p] = "exit" /\ signals = 0
      /\ UNCHANGED <<tableVars, semVars, resume>>
      /\ list_empty(children[p]) /\ list_empty(zombie_children[p])
  BY DEF exit_finish, Resumes
<1>2. p # Idle /\ state[p] = "CURR"
  BY ZenonT(60), <1>1, RunningFacts DEF KernelInv, BootOrder
<1>3. CASE parent[p] = NULL /\ mode' = "hung" /\ UNCHANGED <<treeVars, schedVars>>
  BY <1>1, <1>3, StandstillInv
<1>4. CASE parent[p] # NULL
  <2> DEFINE par == parent[p]
             rm == list_remove(children[par], p)
             ad == list_push_back(zombie_children[par], p)
  <2>1. /\ children' = [children EXCEPT ![par] = rm]
        /\ zombie_children' = [zombie_children EXCEPT ![par] = ad]
        /\ proc_waiting' = IF state[par] = "WAIT_CHILD"
                           THEN [proc_waiting EXCEPT ![par] = p] ELSE proc_waiting
        /\ LET k == IF state[par] = "WAIT_CHILD"
                    THEN sched_update_state(Sched, par, "READY") ELSE Sched
           IN  SetSched(sched_update_state(k, curr_proc, "ZOMBIE"))
        /\ UNCHANGED <<pid, parent, page_table>>
    BY Zenon, <1>1, <1>4 DEF exit_finish
  <2>2. /\ parent \in [Proc -> Proc \cup {NULL}] /\ children \in [Proc -> Seq(Proc)]
        /\ zombie_children \in [Proc -> Seq(Proc)]
        /\ proc_waiting \in [Proc -> Proc \cup {NULL}]
    BY DEF KernelInv, TypeOK, TreeTypeOK
  <2>3. par \in Proc /\ Alive(par)
    BY <1>4, <2>2 DEF KernelInv, TreeConsistent
  <2>4. par # p /\ p \notin Range(zombie_children[par]) /\ p # InitProc
        /\ \A q \in Proc : parent[q] # p
    <3>1. Range(children[p]) = {} /\ Range(zombie_children[p]) = {}
      BY <1>1, EmptyList
    <3>2. \A q \in Proc : parent[q] # p
      BY SMTT(30), <3>1, ProcAssumption DEF KernelInv, TreeConsistent, InTree
    <3>3. p \notin Range(zombie_children[par])
      BY SMTT(30), <1>2, <2>3 DEF KernelInv, TreeConsistent
    <3>4. p # InitProc
      BY <1>1, <1>4 DEF KernelInv, BootOrder
    <3> QED BY <2>3, <3>2, <3>3, <3>4
  <2>5. PICK n \in Proc :
           /\ n # p /\ n # NULL
           /\ IF state[par] = "WAIT_CHILD" THEN n = par ELSE state[n] = "READY"
           /\ state' \in [Proc -> ProcState]
           /\ state'[p] = "ZOMBIE" /\ state'[n] = "CURR"
           /\ \A q \in Proc \ {p, n} : state'[q] = state[q]
           /\ ready_queue' \in Seq(Proc) /\ IsList(ready_queue')
           /\ Range(ready_queue') = Range(ready_queue) \ {n}
           /\ curr_proc' = n
           /\ wait_queue' = wait_queue
           /\ mode' \in {"run", "hung"}
    <3> HIDE DEF par
    <3> QED BY ZenonT(60), <1>1, <1>2, <2>1, <2>3, <2>4, ExitSwitches
  <2>6. state[n] \in {"WAIT_CHILD", "READY"} /\ (state[n] = "WAIT_CHILD" => n = par)
    BY <2>5
  <2>7. /\ children' \in [Proc -> Seq(Proc)] /\ IsList(children'[par])
        /\ Range(children'[par]) = Range(children[par]) \ {p}
        /\ \A q \in Proc \ {par} : children'[q] = children[q]
    <3>1. rm \in Seq(Proc) /\ IsList(rm) /\ Range(rm) = Range(children[par]) \ {p}
      BY <2>2, <2>3, RemoveEntry DEF KernelInv, TreeConsistent
    <3> HIDE DEF rm, par
    <3> QED BY <2>1, <2>2, <2>3, <3>1
  <2>8. /\ zombie_children' \in [Proc -> Seq(Proc)] /\ IsList(zombie_children'[par])
        /\ Range(zombie_children'[par]) = Range(zombie_children[par]) \cup {p}
        /\ \A q \in Proc \ {par} : zombie_children'[q] = zombie_children[q]
    <3>1. /\ ad \in Seq(Proc) /\ IsList(ad)
          /\ Range(ad) = Range(zombie_children[par]) \cup {p}
      BY SMTT(30), <2>2, <2>3, <2>4, PushBack DEF KernelInv, TreeConsistent
    <3> HIDE DEF ad, par
    <3> QED BY SMTT(30), <2>1, <2>2, <2>3, <3>1
  <2>9. /\ proc_waiting' \in [Proc -> Proc \cup {NULL}]
        /\ state[par] = "WAIT_CHILD" => proc_waiting'[par] = p
    BY <2>1, <2>2, <2>3
  <2> HIDE DEF par, rm, ad
  <2>10. TypeOK'
    <3>1. TreeTypeOK'
      BY SMTT(30), <2>1, <2>7, <2>8, <2>9 DEF KernelInv, TypeOK, TreeTypeOK
    <3>2. TableTypeOK' /\ SchedTypeOK' /\ SemTypeOK'
      BY SMTT(30), <1>1, <2>5
      DEF KernelInv, TypeOK, TableTypeOK, SchedTypeOK, SemTypeOK, tableVars, semVars
    <3> QED BY SMTT(30), <1>1, <2>5, <3>1, <3>2 DEF KernelInv, TypeOK
  <2>11. QueuesMatchStates'
    BY SMTT(30), <1>1, <1>2, <2>5, <2>6, ProcAssumption DEF KernelInv, QueuesMatchStates, semVars
  <2>12. IdleRunnable'
    <3>1. state[Idle] \in {"READY", "CURR"}
      BY SMTT(30), <1>1 DEF KernelInv, IdleRunnable
    <3>2. Idle # n => Idle \in Range(ready_queue')
      BY <1>1, <1>2, <2>5, <3>1, ProcAssumption DEF KernelInv, QueuesMatchStates
    <3>3. state'[Idle] \in {"READY", "CURR"}
      BY <1>2, <2>5, <3>1, ProcAssumption
    <3> QED BY <2>5, <3>2, <3>3, NotEmpty DEF IdleRunnable
  <2>13. SemCountsWaiters'
    BY <1>1 DEF KernelInv, SemCountsWaiters, semVars
  <2>14. \A q \in Proc \ {p} : /\ state'[q] \in LiveState <=> state[q] \in LiveState
                               /\ state'[q] # "ZOMBIE" <=> state[q] # "ZOMBIE"
    BY <2>5, <2>6 DEF LiveState
  <2>15. TreeConsistent'
    <3>1. ASSUME NEW q \in Proc
          PROVE  IsList(children'[q]) /\ IsList(zombie_children'[q])
      BY ZenonT(60), <2>7, <2>8 DEF KernelInv, TreeConsistent
    <3>2. ASSUME NEW q \in Proc, NEW c \in Proc
          PROVE  /\ c \in Range(children'[q]) <=> parent'[c] = q /\ Alive(c)'
                 /\ c \in Range(zombie_children'[q]) <=>
                        parent'[c] = q /\ state'[c] = "ZOMBIE"
      <4>1. /\ c \in Range(children[q]) <=> parent[c] = q /\ state[c] \in LiveState
            /\ c \in Range(zombie_children[q]) <=> parent[c] = q /\ state[c] = "ZOMBIE"
        BY DEF KernelInv, TreeConsistent, Alive
      <4>2. CASE c = p
        <5>1. state'[p] \notin LiveState
          BY <2>5 DEF LiveState
        <5>2. parent'[p] = par
          BY <2>1 DEF par
        <5> QED BY ZenonT(60), <1>2, <2>5, <2>7, <2>8, <4>1, <4>2, <5>1, <5>2 DEF par, Alive
      <4>3. CASE c # p
        BY ZenonT(60), <2>1, <2>7, <2>8, <2>14, <4>1, <4>3 DEF Alive
      <4> QED BY SMTT(30), <4>2, <4>3
    <3>3. ASSUME NEW q \in Proc, parent'[q] # NULL
          PROVE  InTree(q)' /\ Alive(parent[q])'
      <4>1. InTree(q) /\ state[parent[q]] \in LiveState /\ parent[q] \in Proc \ {p}
        BY <2>1, <2>2, <2>4, <3>3 DEF KernelInv, TreeConsistent, Alive
      <4>2. Alive(parent[q])'
        BY ZenonT(60), <2>1, <2>14, <4>1 DEF Alive
      <4> QED BY SMTT(30), <2>5, <2>14, <4>1, <4>2 DEF InTree, Alive
    <3>4. ASSUME NEW q \in Proc, InTree(q)', parent'[q] = NULL
          PROVE  q \in {Idle, InitProc}
      <4>1. q # p /\ InTree(q)
        BY <1>4, <2>1, <2>14, <3>4 DEF InTree, Alive
      <4> QED BY ZenonT(60), <2>1, <3>4, <4>1 DEF KernelInv, TreeConsistent
    <3> QED BY <3>1, <3>2, <3>3, <3>4 DEF TreeConsistent
  <2>16. TableConsistent'
    <3>1. \A q \in Proc : InTree(q)' <=> InTree(q)
      BY <1>2, <2>5, <2>14 DEF InTree, Alive, LiveState
    <3>2. proc_table \in [Pid -> Proc \cup {NULL}]
      BY DEF KernelInv, TypeOK, TableTypeOK
    <3>3. \A i \in Pid : proc_table[i] # NULL =>
             InTree(proc_table[i])' /\ pid[proc_table[i]] = i
      <4>1. UNCHANGED proc_table
        BY <1>1 DEF tableVars
      <4> SUFFICES ASSUME NEW i \in Pid, proc_table[i] # NULL
                   PROVE  InTree(proc_table[i])' /\ pid[proc_table[i]] = i
        OBVIOUS
      <4>2. proc_table[i] \in Proc /\ InTree(proc_table[i]) /\ pid[proc_table[i]] = i
        BY <3>2 DEF KernelInv, TableConsistent
      <4>3. state'[proc_table[i]] \in LiveState \/ state'[proc_table[i]] = "ZOMBIE"
        BY <3>1, <4>2 DEF InTree, Alive
      <4> QED BY <4>1, <4>2, <4>3 DEF InTree, Alive
    <3> QED BY ZenonT(60), <1>1, <2>1, <2>5, <3>1, <3>3 DEF KernelInv, TableConsistent, tableVars
  <2>17. WaiterGetsItsZombie'
    <3>1. \A q \in Proc : resume[q] = "wait_child" => state[q] = "WAIT_CHILD" /\ q # p
      BY <1>1 DEF KernelInv, WaiterGetsItsZombie
    <3>2. ASSUME NEW q \in Proc, resume'[q] = "wait_child"
          PROVE  \/ state'[q] = "WAIT_CHILD"
                 \/ q = curr_proc' /\ proc_waiting'[q] \in Range(zombie_children'[q])
      <4>1. resume[q] = "wait_child" /\ state[q] = "WAIT_CHILD" /\ q # p
        BY <1>1, <3>1, <3>2
      <4>2. CASE q # n
        BY SMTT(30), <2>5, <4>1, <4>2
      <4>3. CASE q = n
        BY SMTT(30), <2>5, <2>6, <2>8, <2>9, <4>1, <4>3
      <4> QED BY <4>2, <4>3
    <3> QED BY <3>2 DEF WaiterGetsItsZombie
  <2>18. BlockedInItsCall'
    BY <1>1, <1>2, <2>5, <2>6 DEF KernelInv, BlockedInItsCall
  <2>19. BootOrder'
    BY ZenonT(60), <1>1, <2>1, <2>4, <2>5, <2>14, ProcAssumption DEF KernelInv, BootOrder, Alive
  <2> QED BY <2>10, <2>11, <2>12, <2>13, <2>15, <2>16, <2>17, <2>18, <2>19 DEF KernelInv
<1> QED BY <1>3, <1>4 DEF exit_finish
=============================================================================

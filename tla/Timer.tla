-------------------------------- MODULE Timer --------------------------------
(***************************************************************************)
(* timer.c: one queue of pending timers, kept in the order of their        *)
(* deadlines, and the compare register of the hart (arch/riscv/timer.c),   *)
(* armed with the deadline of the first.  A timer is that of a process     *)
(* (sys_sleep) or the one of the scheduler's time slice.                   *)
(***************************************************************************)
EXTENDS List

CONSTANTS
    Timer,       \* timer_t objects
    SchedTimer,  \* the one of sched.c, whose callback is sched_preempt
    Ns,          \* durations, in nanoseconds, that sys_sleep is called with
    Slice,       \* config.h: SCHED_TIMESLICE, in nanoseconds
    NsPerTick,   \* NS_IN_SEC / TIMER_FREQ
    TIME_MAX,    \* largest time_t
    MaxNow       \* bound: the clock is looked at up to this tick

(* A deadline does not overflow time_t: the clock stays far enough below   *)
(* TIME_MAX for the longest duration a time_t can hold.                    *)
ASSUME TimeAssumption ==
    /\ NsPerTick \in Nat \ {0} /\ TIME_MAX \in Nat /\ MaxNow \in Nat
    /\ Ns \subseteq 0..TIME_MAX
    /\ Slice \in NsPerTick..TIME_MAX
    /\ MaxNow + (TIME_MAX \div NsPerTick) < TIME_MAX

ASSUME TimerAssumption == SchedTimer \in Timer

VARIABLES
    now,        \* time(): the hart's time register, in ticks
    time,       \* timer_t.time
    wait_queue, \* pending timers
    armed       \* the compare register: the interrupt is pending from there on

vars == <<now, time, wait_queue, armed>>

IsPending(t) == t \in Range(wait_queue)

(* Mutant: the duration is not converted to ticks. *)
Deadline_Ns(ns) == (now + ns) % (TIME_MAX + 1)

(* timer_wait's deadline, in the width of time_t. *)
Deadline(ns) == (now + (ns \div NsPerTick)) % (TIME_MAX + 1)

(* What timer_set is given once q is the queue, after a removal. *)
FrontTime(q) == IF list_empty(q) THEN TIME_MAX ELSE time[list_first_entry(q)]

(* Mutant: the timer goes to the back of the queue. *)
Enqueue_Back(q, reg, t, ns) ==
    /\ time' = [time EXCEPT ![t] = Deadline(ns)]
    /\ wait_queue' = list_push_back(q, t)
    /\ armed' = IF list_empty(q) THEN Deadline(ns) ELSE reg

(* Mutant: the timer goes in before one that is due at the same time. *)
Enqueue_Before(q, reg, t, ns) ==
    LET d == Deadline(ns)
    IN  /\ time' = [time EXCEPT ![t] = d]
        /\ \E i \in 1..(Len(q) + 1) :
              /\ \A j \in 1..(i - 1) : ~(d <= time[q[j]])
              /\ i <= Len(q) => d <= time[q[i]]
              /\ wait_queue' = list_insert(q, i, t)
              /\ armed' = IF i = 1 THEN d ELSE reg

(* timer_wait(t, ns) on the queue q, the register holding reg: t goes in   *)
(* before the first timer that is due strictly later.                      *)
Enqueue(q, reg, t, ns) ==
    LET d == Deadline(ns)
    IN  /\ time' = [time EXCEPT ![t] = d]
        /\ \E i \in 1..(Len(q) + 1) :
              /\ \A j \in 1..(i - 1) : ~(d < time[q[j]])
              /\ i <= Len(q) => d < time[q[i]]
              /\ wait_queue' = list_insert(q, i, t)
              /\ armed' = IF i = 1 THEN d ELSE reg

Init ==
    /\ now = 0
    /\ time = [t \in Timer |-> 0]
    /\ wait_queue = <<>>
    /\ armed = TIME_MAX

(* A caller waits on a timer of its own that is not pending. *)
timer_wait(t, ns) ==
    /\ ~IsPending(t)
    /\ Enqueue(wait_queue, armed, t, ns)
    /\ UNCHANGED now

(* Mutant: the register is not armed for the timer that is now first. *)
timer_cancel_KeepsRegister(t) ==
    /\ IsPending(t)
    /\ wait_queue' = list_remove(wait_queue, t)
    /\ UNCHANGED <<now, time, armed>>

(* timer_cancel of a timer that is not pending returns at once. *)
timer_cancel(t) ==
    /\ IsPending(t)
    /\ wait_queue' = list_remove(wait_queue, t)
    /\ armed' = FrontTime(wait_queue')
    /\ UNCHANGED <<now, time>>

(* The timer interrupt: the first timer leaves the queue, the register is  *)
(* armed for the next one, then the callback runs: sched_preempt waits on  *)
(* the timer again, wakeup_proc leaves the queue alone.  Arming succeeds:  *)
(* timer_set panics when the firmware refuses, but the init of             *)
(* arch/riscv/timer.c has made the same call, and panics at boot (Boot).   *)
timer_isr ==
    /\ now >= armed
    /\ LET t == list_first_entry(wait_queue)
           q == list_pop_front(wait_queue)
       IN  \/ /\ t = SchedTimer
              /\ Enqueue(q, FrontTime(q), t, Slice)
           \/ /\ t # SchedTimer
              /\ wait_queue' = q /\ armed' = FrontTime(q) /\ UNCHANGED time
    /\ UNCHANGED now

Tick ==
    /\ now < MaxNow
    /\ now' = now + 1
    /\ UNCHANGED <<time, wait_queue, armed>>

Next ==
    \/ timer_wait(SchedTimer, Slice)
    \/ \E t \in Timer \ {SchedTimer}, ns \in Ns : timer_wait(t, ns)
    \/ \E t \in Timer \ {SchedTimer} : timer_cancel(t)
    \/ timer_isr
    \/ Tick

Spec == Init /\ [][Next]_vars

(* Time passes, and a pending interrupt is taken. *)
FairSpec == Spec /\ WF_vars(Tick) /\ WF_vars(timer_isr)

-----------------------------------------------------------------------------
(* Types of the variables; a deadline is always below TIME_MAX. *)
TypeOK ==
    /\ now \in 0..MaxNow
    /\ time \in [Timer -> 0..(TIME_MAX - 1)]
    /\ wait_queue \in Seq(Timer)
    /\ armed \in 0..TIME_MAX

(* The pending timers are in the order of their deadlines, none of them    *)
(* twice, whatever the order they were waited on or cancelled in.          *)
QueueSorted ==
    /\ IsList(wait_queue)
    /\ \A i, j \in 1..Len(wait_queue) :
          i < j => time[wait_queue[i]] <= time[wait_queue[j]]

(* timer_set is called on some of the paths only (an insertion at the      *)
(* front, every removal): the register always holds the deadline of the    *)
(* first pending timer, and TIME_MAX when there is none, so timer_isr,     *)
(* which does not test for it, never finds an empty queue.                 *)
ArmedForFirst ==
    /\ armed = FrontTime(wait_queue)
    /\ now >= armed => ~list_empty(wait_queue)

(* A timer that leaves the queue other than by timer_cancel has reached    *)
(* its deadline, and none that is still pending is due before it.          *)
NeverEarly ==
    [][\A t \in Timer :
        IsPending(t) /\ (~IsPending(t)' \/ time'[t] # time[t]) =>
            \/ timer_cancel(t)
            \/ /\ time[t] <= now
               /\ \A u \in Timer : IsPending(u) => time[t] <= time[u]]_vars

(* A deadline that is reached is answered: the timer fires, or is          *)
(* cancelled, even when other callers keep waiting for durations of zero.  *)
DueTimerFires ==
    \A t \in Timer, d \in 0..MaxNow :
        IsPending(t) /\ time[t] = d ~> ~(IsPending(t) /\ time[t] = d)

-----------------------------------------------------------------------------
(* The refinement: pending timers with their deadlines are the alarms.     *)
OFF == -1
Promise ==
    INSTANCE Alarms WITH
        Instant <- 0..(TIME_MAX - 1),
        due <- [t \in Timer |-> IF IsPending(t) THEN time[t] ELSE OFF]

(* The queue and the register implement the alarms, safety and liveness.   *)
ImplementsAlarms == Promise!FairSpec
=============================================================================

---------------------------- MODULE TimerProofs -----------------------------
(***************************************************************************)
(* Proofs about the timer queue, for any set of timers, any tick length    *)
(* and any width of time_t.                                                *)
(***************************************************************************)
EXTENDS Timer, ListProofs

-----------------------------------------------------------------------------
(* Deadlines.                                                              *)

(* Division by the tick length is monotonic. *)
LEMMA DivMonotone ==
    ASSUME NEW a \in Nat, NEW b \in Nat, NEW n \in Nat \ {0}, a <= b
    PROVE  /\ a \div n \in Nat /\ b \div n \in Nat
           /\ a \div n <= b \div n
<1> DEFINE x == a \div n
           y == b \div n
<1>1. x \in Int /\ y \in Int /\ n * x <= a /\ a < n * x + n /\ n * y <= b /\ b < n * y + n
  OBVIOUS
<1> HIDE DEF x, y
<1>2. x \in Nat /\ y \in Nat
  <2>1. ASSUME NEW z \in Int, z <= -1 PROVE n * z + n <= 0
    BY <2>1
  <2> QED BY <1>1, <2>1
<1>3. x <= y
  <2>1. SUFFICES ASSUME y + 1 <= x PROVE FALSE
    BY <1>1
  <2>2. n * (y + 1) <= n * x
    BY <1>1, <2>1
  <2> QED BY <1>1, <2>2
<1> QED BY <1>2, <1>3 DEF x, y

(* The clock stays below TIME_MAX. *)
LEMMA ClockBelowMax == MaxNow \in Nat /\ TIME_MAX \in Nat /\ MaxNow < TIME_MAX
<1>1. TIME_MAX \div NsPerTick \in Nat
  BY TimeAssumption, DivMonotone
<1> QED BY <1>1, TimeAssumption

(* The deadline of timer_wait does not wrap: it is not before now, and it  *)
(* is below TIME_MAX, which stands for "no deadline".                      *)
LEMMA DeadlineInRange ==
    ASSUME now \in 0..MaxNow, NEW ns \in 0..TIME_MAX
    PROVE  /\ Deadline(ns) = now + (ns \div NsPerTick)
           /\ Deadline(ns) \in 0..(TIME_MAX - 1) /\ Deadline(ns) >= now
<1>1. ns \div NsPerTick \in Nat /\ TIME_MAX \div NsPerTick \in Nat
      /\ ns \div NsPerTick <= TIME_MAX \div NsPerTick
  BY DivMonotone, TimeAssumption
<1> DEFINE x == ns \div NsPerTick
           y == TIME_MAX \div NsPerTick
<1>2. x \in Nat /\ y \in Nat /\ x <= y /\ MaxNow + y < TIME_MAX
      /\ MaxNow \in Nat /\ TIME_MAX \in Nat /\ Deadline(ns) = (now + x) % (TIME_MAX + 1)
  BY <1>1, TimeAssumption DEF Deadline
<1> HIDE DEF x, y
<1>3. now + x \in Nat /\ now + x < TIME_MAX
  BY <1>2
<1>4. \A m \in Nat : \A k \in Nat : k < m => k % m = k
  OBVIOUS
<1>5. (now + x) % (TIME_MAX + 1) = now + x
  BY <1>2, <1>3, <1>4
<1> QED BY <1>2, <1>3, <1>5 DEF x

(* The slice is at least a tick, so its next end is later than now. *)
LEMMA SliceAdvances ==
    ASSUME now \in 0..MaxNow
    PROVE  Deadline(Slice) > now
<1>1. Slice \in Nat /\ NsPerTick \in Nat \ {0} /\ NsPerTick <= Slice /\ Slice \in 0..TIME_MAX
  BY TimeAssumption
<1>2. NsPerTick \div NsPerTick <= Slice \div NsPerTick /\ Slice \div NsPerTick \in Nat
      /\ NsPerTick \div NsPerTick \in Nat
  BY <1>1, DivMonotone
<1>3. NsPerTick \div NsPerTick = 1
  BY <1>1
<1> QED BY <1>1, <1>2, <1>3, DeadlineInRange

-----------------------------------------------------------------------------
(* Sorted queues.                                                          *)

(* The entries of q are in the order of f. *)
SortedBy(q, f) == \A i, j \in 1..Len(q) : i < j => f[q[i]] <= f[q[j]]

(* Two entries of a sorted queue. *)
LEMMA SortedAt ==
    ASSUME NEW q, NEW f, SortedBy(q, f),
           NEW i \in 1..Len(q), NEW j \in 1..Len(q), i < j
    PROVE  f[q[i]] <= f[q[j]]
BY DEF SortedBy

(* The i-th place of q is where timer_wait's loop stops for deadline d;    *)
(* with x in that place q becomes r, and with x due at d f becomes g.      *)
FitsAt(q, f, x, d, i, r, g) ==
    /\ q \in Seq(Timer) /\ f \in [Timer -> Nat] /\ SortedBy(q, f)
    /\ x \in Timer /\ x \notin Range(q) /\ d \in Nat
    /\ i \in 1..(Len(q) + 1)
    /\ \A j \in 1..(i - 1) : ~(d < f[q[j]])
    /\ i <= Len(q) => d < f[q[i]]
    /\ r = list_insert(q, i, x) /\ g = [f EXCEPT ![x] = d]

(* That place keeps the queue sorted. *)
LEMMA InsertSorted ==
    ASSUME NEW q, NEW f, NEW x, NEW d, NEW i, NEW r, NEW g,
           FitsAt(q, f, x, d, i, r, g)
    PROVE  /\ SortedBy(r, g)
           /\ Head(r) = IF i = 1 THEN x ELSE Head(q)
           /\ \A j \in 1..Len(q) : g[q[j]] = f[q[j]]
<1> USE DEF FitsAt
<1>1. Len(q) \in Nat /\ DOMAIN q = 1..Len(q) /\ \A j \in 1..Len(q) : q[j] \in Timer
  BY SeqLength
<1>2. \A j \in 1..Len(q) : q[j] # x
  BY <1>1 DEF Range
<1>3. g[x] = d /\ \A j \in 1..Len(q) : g[q[j]] = f[q[j]] /\ f[q[j]] \in Nat
  BY <1>1, <1>2
<1>4. r \in Seq(Timer) /\ Len(r) = Len(q) + 1
  BY InsertEntry
<1>5. \A j \in 1..(Len(q) + 1) :
         r[j] = IF j < i THEN q[j] ELSE IF j = i THEN x ELSE q[j - 1]
  BY DEF list_insert
<1>6. Head(r) = IF i = 1 THEN x ELSE Head(q)
  <2>1. Head(r) = r[1] /\ (i # 1 => Head(q) = q[1])
    BY <1>1, <1>4
  <2> QED BY <1>1, <1>5, <2>1
<1>7. \A j \in 1..Len(q) : j < i => f[q[j]] <= d
  BY <1>1, <1>3
<1>8. \A j \in 1..Len(q) : i <= j => d <= f[q[j]]
  <2> SUFFICES ASSUME NEW j \in 1..Len(q), i <= j PROVE d <= f[q[j]]
    OBVIOUS
  <2>1. i \in 1..Len(q) /\ d < f[q[i]]
    BY <1>1
  <2>2. CASE i = j
    BY <1>3, <2>1, <2>2
  <2>3. CASE i < j
    <3>1. f[q[i]] <= f[q[j]]
      BY <2>1, <2>3 DEF SortedBy
    <3> QED BY <1>3, <2>1, <3>1
  <2> QED BY <1>1, <2>2, <2>3
<1>9. SortedBy(r, g)
  <2>0. SortedBy(q, f)
    OBVIOUS
  <2> SUFFICES ASSUME NEW a \in 1..(Len(q) + 1), NEW b \in 1..(Len(q) + 1), a < b
               PROVE  g[r[a]] <= g[r[b]]
    BY Zenon, <1>4 DEF SortedBy
  <2>1. CASE a < i /\ b < i
    <3>1. r[a] = q[a] /\ r[b] = q[b] /\ a \in 1..Len(q) /\ b \in 1..Len(q)
      BY <1>1, <1>5, <2>1
    <3>2. f[q[a]] <= f[q[b]]
      BY <3>1 DEF SortedBy
    <3> QED BY <1>3, <3>1, <3>2
  <2>2. CASE a < i /\ b = i
    <3>1. r[a] = q[a] /\ r[b] = x /\ a \in 1..Len(q)
      BY <1>1, <1>5, <2>2
    <3> QED BY <1>3, <1>7, <2>2, <3>1
  <2>3. CASE a < i /\ b > i
    <3>1. r[a] = q[a] /\ r[b] = q[b - 1] /\ a \in 1..Len(q) /\ (b - 1) \in 1..Len(q)
          /\ i <= b - 1
      BY <1>1, <1>5, <2>3
    <3>2. a < b - 1
      BY <1>1, <2>3
    <3>3. f[q[a]] <= f[q[b - 1]]
      BY ONLY Zenon, <2>0, <3>1, <3>2, SortedAt
    <3> QED BY Zenon, <1>3, <3>1, <3>3
  <2>4. CASE a = i
    <3>1. r[a] = x /\ r[b] = q[b - 1] /\ (b - 1) \in 1..Len(q) /\ i <= b - 1
      BY <1>1, <1>5, <2>4
    <3> QED BY <1>3, <1>8, <3>1
  <2>5. CASE a > i
    <3>1. r[a] = q[a - 1] /\ r[b] = q[b - 1]
          /\ (a - 1) \in 1..Len(q) /\ (b - 1) \in 1..Len(q) /\ a - 1 < b - 1
      BY <1>1, <1>5, <2>5
    <3>2. f[q[a - 1]] <= f[q[b - 1]]
      BY ONLY Zenon, <2>0, <3>1, SortedAt
    <3> QED BY Zenon, <1>3, <3>1, <3>2
  <2>6. \/ a < i /\ b < i
        \/ a < i /\ b = i
        \/ a < i /\ b > i
        \/ a = i
        \/ a > i
    BY <1>1
  <2> QED BY <2>1, <2>2, <2>3, <2>4, <2>5, <2>6
<1> QED BY <1>3, <1>6, <1>9

(* Removing an entry keeps the order. *)
LEMMA RemoveSorted ==
    ASSUME NEW q \in Seq(Timer), NEW f \in [Timer -> Nat], SortedBy(q, f), NEW x
    PROVE  SortedBy(list_remove(q, x), f)
<1>1. CASE x \notin Range(q)
  BY <1>1 DEF list_remove
<1>2. CASE x \in Range(q)
  <2> DEFINE r == list_remove(q, x)
             p == Position(q, x)
             up(j) == IF j < p THEN j ELSE j + 1
  <2>1. Len(q) \in Nat /\ r \in Seq(Timer) /\ Len(r) = Len(q) - 1
    BY <1>2, RemoveEntry, SeqLength
  <2>2. p \in 1..Len(q)
    <3>1. \E i \in 1..Len(q) : q[i] = x
      BY <1>2, SeqLength DEF Range
    <3> QED BY <3>1 DEF Position
  <2>3. \A j \in 1..(Len(q) - 1) : r[j] = IF j < p THEN q[j] ELSE q[j + 1]
    BY <1>2 DEF list_remove
  <2> HIDE DEF r, p
  <2>4. ASSUME NEW j \in 1..(Len(q) - 1)
        PROVE  r[j] = q[up(j)] /\ up(j) \in 1..Len(q)
    <3>1. CASE j < p
      BY <2>1, <2>3, <3>1
    <3>2. CASE ~(j < p)
      BY <2>1, <2>3, <3>2
    <3> QED BY <3>1, <3>2
  <2>5. ASSUME NEW a \in 1..(Len(q) - 1), NEW b \in 1..(Len(q) - 1), a < b
        PROVE  up(a) < up(b)
    <3>1. a \in Int /\ b \in Int /\ p \in Int
      BY <2>1, <2>2
    <3> QED BY <2>5, <3>1
  <2> HIDE DEF up
  <2>6. SortedBy(r, f)
    BY ZenonT(60), <2>1, <2>4, <2>5 DEF SortedBy
  <2> QED BY <2>6 DEF r
<1> QED BY <1>1, <1>2

(* So does taking the first, which is the least. *)
LEMMA PopSorted ==
    ASSUME NEW q \in Seq(Timer), NEW f \in [Timer -> Nat], SortedBy(q, f), q # <<>>
    PROVE  /\ SortedBy(list_pop_front(q), f)
           /\ \A x \in Range(q) : f[Head(q)] <= f[x]
<1>1. /\ Len(q) \in Nat /\ Len(q) > 0 /\ DOMAIN q = 1..Len(q) /\ Head(q) = q[1]
      /\ \A j \in 1..Len(q) : q[j] \in Timer
  BY SeqLength
<1>2. Len(Tail(q)) = Len(q) - 1 /\ \A j \in 1..(Len(q) - 1) : Tail(q)[j] = q[j + 1]
  BY <1>1
<1>3. SortedBy(Tail(q), f)
  <2> SUFFICES ASSUME NEW a \in 1..(Len(q) - 1), NEW b \in 1..(Len(q) - 1), a < b
               PROVE  f[Tail(q)[a]] <= f[Tail(q)[b]]
    BY <1>2 DEF SortedBy
  <2>1. Tail(q)[a] = q[a + 1] /\ Tail(q)[b] = q[b + 1]
        /\ a + 1 \in 1..Len(q) /\ b + 1 \in 1..Len(q) /\ a + 1 < b + 1
    BY <1>1, <1>2
  <2> QED BY <2>1 DEF SortedBy
<1>4. \A j \in 1..Len(q) : f[q[1]] <= f[q[j]]
  BY <1>1 DEF SortedBy
<1> QED BY <1>1, <1>3, <1>4 DEF list_pop_front, Range

-----------------------------------------------------------------------------
(* The inductive invariant: the queue is sorted and the register is that   *)
(* of its first entry.                                                     *)
TimerInv == TypeOK /\ QueueSorted /\ ArmedForFirst

(* What the register has to hold follows from its value and the type. *)
LEMMA ArmedFacts ==
    ASSUME TypeOK, armed = FrontTime(wait_queue)
    PROVE  ArmedForFirst
<1>1. list_empty(wait_queue) => armed = TIME_MAX
  BY DEF FrontTime
<1>2. now < TIME_MAX /\ now \in Nat /\ TIME_MAX \in Nat
  BY ClockBelowMax DEF TypeOK
<1> QED BY <1>1, <1>2 DEF ArmedForFirst

(* The time of the first of a list of timers, or TIME_MAX. *)
LEMMA FrontTimeType ==
    ASSUME time \in [Timer -> 0..(TIME_MAX - 1)], NEW q \in Seq(Timer)
    PROVE  FrontTime(q) \in 0..TIME_MAX
<1>1. TIME_MAX \in Nat
  BY TimeAssumption
<1>2. ~list_empty(q) => list_first_entry(q) \in Timer
  BY FirstEntry
<1> QED BY <1>1, <1>2 DEF FrontTime

(* timer_wait on a sorted queue whose first deadline the register holds. *)
LEMMA EnqueueKeeps ==
    ASSUME now \in 0..MaxNow, time \in [Timer -> 0..(TIME_MAX - 1)],
           NEW STATE q, q \in Seq(Timer), IsList(q), SortedBy(q, time),
           NEW t \in Timer, t \notin Range(q), NEW ns \in 0..TIME_MAX,
           Enqueue(q, FrontTime(q), t, ns), UNCHANGED now
    PROVE  /\ TimerInv'
           /\ Range(wait_queue') = Range(q) \cup {t}
           /\ time' = [time EXCEPT ![t] = Deadline(ns)]
<1> DEFINE d == Deadline(ns)
           g == [time EXCEPT ![t] = d]
<1>1. d \in 0..(TIME_MAX - 1) /\ d \in Nat /\ TIME_MAX \in Nat
  BY DeadlineInRange, TimeAssumption
<1>2. time \in [Timer -> Nat] /\ time' = g /\ g \in [Timer -> 0..(TIME_MAX - 1)] /\ g[t] = d
  BY <1>1 DEF Enqueue
<1> HIDE DEF d
<1>3. PICK i \in 1..(Len(q) + 1) :
         /\ \A j \in 1..(i - 1) : ~(d < time[q[j]])
         /\ i <= Len(q) => d < time[q[i]]
         /\ wait_queue' = list_insert(q, i, t)
         /\ armed' = IF i = 1 THEN d ELSE FrontTime(q)
  BY DEF Enqueue, d
<1> DEFINE r == list_insert(q, i, t)
<1>4. r \in Seq(Timer) /\ IsList(r) /\ Range(r) = Range(q) \cup {t} /\ Len(r) = Len(q) + 1
  BY InsertEntry
<1>5. /\ SortedBy(r, g) /\ Head(r) = IF i = 1 THEN t ELSE Head(q)
      /\ \A j \in 1..Len(q) : g[q[j]] = time[q[j]]
  <2>1. /\ q \in Seq(Timer) /\ time \in [Timer -> Nat] /\ SortedBy(q, time)
        /\ t \in Timer /\ t \notin Range(q) /\ d \in Nat /\ i \in 1..(Len(q) + 1)
    BY <1>1, <1>2
  <2>2. FitsAt(q, time, t, d, i, r, g)
    BY <2>1, <1>3 DEF FitsAt, r, g
  <2> HIDE DEF r, g
  <2> QED BY ONLY <2>2, InsertSorted
<1> HIDE DEF r, g
<1>6. wait_queue' = r
  BY <1>3 DEF r
<1>7. QueueSorted'
  BY <1>2, <1>4, <1>5, <1>6 DEF QueueSorted, SortedBy
<1>8. Len(q) \in Nat /\ r # <<>>
  BY <1>4
<1>9. armed' = g[Head(r)]
  <2>1. CASE i = 1
    BY <1>2, <1>3, <1>5, <2>1
  <2>2. CASE i # 1
    <3>1. Len(q) > 0 /\ Head(q) = q[1]
      BY <1>8, <2>2
    <3>2. FrontTime(q) = time[q[1]]
      BY <3>1 DEF FrontTime, list_empty, list_first_entry
    <3> QED BY SMTT(30), <1>3, <1>5, <1>8, <2>2, <3>1, <3>2
  <2> QED BY <2>1, <2>2
<1>10. Head(r) \in Timer
  BY <1>4, <1>8
<1>11. TypeOK'
  <2>1. armed' \in 0..(TIME_MAX - 1)
    BY <1>2, <1>9, <1>10
  <2> QED BY <1>1, <1>2, <1>4, <1>6, <2>1 DEF TypeOK
<1>12. FrontTime(wait_queue)' = g[Head(r)]
  BY <1>2, <1>6, <1>8 DEF FrontTime, list_empty, list_first_entry
<1>13. ArmedForFirst'
  <2>1. now' < TIME_MAX /\ now' \in Nat
    BY ClockBelowMax
  <2> QED BY <1>6, <1>8, <1>9, <1>12, <2>1 DEF ArmedForFirst, list_empty
<1> QED BY <1>2, <1>4, <1>6, <1>7, <1>11, <1>13 DEF TimerInv, g, d

(* A removal that leaves the queue q and arms the register for it. *)
LEMMA RemovalKeeps ==
    ASSUME TypeOK, NEW STATE q, q \in Seq(Timer), IsList(q), SortedBy(q, time),
           wait_queue' = q, armed' = FrontTime(q), UNCHANGED <<now, time>>
    PROVE  TimerInv'
<1>1. FrontTime(q) \in 0..TIME_MAX
  BY FrontTimeType DEF TypeOK
<1>2. TypeOK'
  BY <1>1 DEF TypeOK
<1>3. QueueSorted'
  BY DEF QueueSorted, SortedBy
<1>4. FrontTime(wait_queue)' = FrontTime(q)
  BY DEF FrontTime
<1>5. list_empty(q) => armed' = TIME_MAX
  BY DEF FrontTime
<1>6. now < TIME_MAX /\ now \in Nat /\ TIME_MAX \in Nat
  BY ClockBelowMax DEF TypeOK
<1>7. ArmedForFirst'
  BY <1>4, <1>5, <1>6 DEF ArmedForFirst
<1> QED BY <1>2, <1>3, <1>7 DEF TimerInv

(* What the invariant says of the queue. *)
LEMMA QueueFacts ==
    ASSUME TimerInv
    PROVE  /\ now \in 0..MaxNow /\ time \in [Timer -> 0..(TIME_MAX - 1)]
           /\ time \in [Timer -> Nat] /\ wait_queue \in Seq(Timer) /\ IsList(wait_queue)
           /\ SortedBy(wait_queue, time) /\ armed = FrontTime(wait_queue)
<1>1. TIME_MAX \in Nat
  BY TimeAssumption
<1> QED BY <1>1 DEF TimerInv, TypeOK, QueueSorted, ArmedForFirst, SortedBy

(* When the interrupt is pending the first timer is due, and no other is   *)
(* due before it; without it the queue is again sorted.                    *)
LEMMA IsrFacts ==
    ASSUME TimerInv, now >= armed
    PROVE  LET t == list_first_entry(wait_queue)
               q == list_pop_front(wait_queue)
           IN  /\ t \in Timer /\ IsPending(t) /\ time[t] <= now
               /\ \A u \in Range(wait_queue) : time[t] <= time[u]
               /\ q \in Seq(Timer) /\ IsList(q) /\ SortedBy(q, time)
               /\ t \notin Range(q) /\ Range(wait_queue) = Range(q) \cup {t}
<1>1. wait_queue # <<>> /\ armed = time[Head(wait_queue)]
  BY DEF TimerInv, ArmedForFirst, FrontTime, list_empty, list_first_entry
<1>2. /\ wait_queue \in Seq(Timer) /\ IsList(wait_queue)
      /\ SortedBy(wait_queue, time) /\ time \in [Timer -> Nat]
  BY QueueFacts
<1>3. LET r == list_pop_front(wait_queue)
      IN  /\ Head(wait_queue) \in Timer /\ r \in Seq(Timer)
          /\ Head(wait_queue) \in Range(wait_queue)
          /\ Range(wait_queue) = Range(r) \cup {Head(wait_queue)}
          /\ IsList(wait_queue) <=> IsList(r) /\ Head(wait_queue) \notin Range(r)
  BY <1>1, <1>2, PopFront
<1>4. /\ SortedBy(list_pop_front(wait_queue), time)
      /\ \A x \in Range(wait_queue) : time[Head(wait_queue)] <= time[x]
  BY <1>1, <1>2, PopSorted
<1> QED BY <1>1, <1>2, <1>3, <1>4 DEF list_first_entry, IsPending

(* timer_cancel takes the timer out and leaves the others in order. *)
LEMMA CancelFacts ==
    ASSUME TimerInv, NEW t \in Timer, timer_cancel(t)
    PROVE  TimerInv' /\ Range(wait_queue') = Range(wait_queue) \ {t}
<1> DEFINE q == list_remove(wait_queue, t)
<1>1. /\ wait_queue \in Seq(Timer) /\ IsList(wait_queue) /\ TypeOK
      /\ SortedBy(wait_queue, time) /\ time \in [Timer -> Nat]
  BY QueueFacts DEF TimerInv
<1>2. t \in Range(wait_queue) /\ wait_queue' = q /\ UNCHANGED <<now, time>>
  BY DEF timer_cancel, IsPending
<1>3. q \in Seq(Timer) /\ IsList(q) /\ Range(q) = Range(wait_queue) \ {t}
  BY <1>1, <1>2, RemoveEntry
<1>4. SortedBy(q, time)
  BY <1>1, <1>2, RemoveSorted
<1>5. armed' = FrontTime(q)
  BY <1>2 DEF timer_cancel, FrontTime
<1> HIDE DEF q
<1> QED BY <1>1, <1>2, <1>3, <1>4, <1>5, RemovalKeeps

(* timer_wait adds the timer, due at its deadline. *)
LEMMA WaitFacts ==
    ASSUME TimerInv, NEW t \in Timer, NEW ns \in 0..TIME_MAX, timer_wait(t, ns)
    PROVE  /\ TimerInv' /\ Range(wait_queue') = Range(wait_queue) \cup {t}
           /\ time' = [time EXCEPT ![t] = Deadline(ns)]
<1>1. /\ now \in 0..MaxNow /\ time \in [Timer -> 0..(TIME_MAX - 1)]
      /\ wait_queue \in Seq(Timer) /\ IsList(wait_queue)
      /\ SortedBy(wait_queue, time) /\ armed = FrontTime(wait_queue)
  BY QueueFacts
<1>2. t \notin Range(wait_queue) /\ Enqueue(wait_queue, FrontTime(wait_queue), t, ns)
      /\ UNCHANGED now
  BY <1>1 DEF timer_wait, IsPending
<1> QED BY <1>1, <1>2, EnqueueKeeps

(* timer_isr takes the first timer out, or makes it pending again for the  *)
(* end of the next slice.                                                  *)
LEMMA IsrKeeps ==
    ASSUME TimerInv, timer_isr
    PROVE  LET t == list_first_entry(wait_queue)
           IN  /\ TimerInv'
               /\ \/ /\ t = SchedTimer /\ Range(wait_queue') = Range(wait_queue)
                     /\ time' = [time EXCEPT ![t] = Deadline(Slice)]
                  \/ /\ Range(wait_queue') = Range(wait_queue) \ {t}
                     /\ UNCHANGED time
<1> DEFINE t == list_first_entry(wait_queue)
           q == list_pop_front(wait_queue)
<1>1. /\ t \in Timer /\ q \in Seq(Timer) /\ IsList(q) /\ SortedBy(q, time)
      /\ t \notin Range(q) /\ Range(wait_queue) = Range(q) \cup {t}
  BY IsrFacts DEF timer_isr
<1>2. TypeOK /\ now \in 0..MaxNow /\ time \in [Timer -> 0..(TIME_MAX - 1)]
  BY QueueFacts DEF TimerInv
<1>3. \/ t = SchedTimer /\ Enqueue(q, FrontTime(q), t, Slice)
      \/ wait_queue' = q /\ armed' = FrontTime(q) /\ UNCHANGED time
  BY DEF timer_isr
<1>4. UNCHANGED now /\ Slice \in 0..TIME_MAX /\ SchedTimer \in Timer
  BY TimeAssumption, TimerAssumption DEF timer_isr
<1> HIDE DEF q, t
<1>5. CASE t = SchedTimer /\ Enqueue(q, FrontTime(q), t, Slice)
  <2>1. SchedTimer \notin Range(q) /\ Enqueue(q, FrontTime(q), SchedTimer, Slice)
    BY <1>1, <1>5
  <2>2. /\ TimerInv' /\ Range(wait_queue') = Range(q) \cup {SchedTimer}
        /\ time' = [time EXCEPT ![SchedTimer] = Deadline(Slice)]
    BY <1>1, <1>2, <1>4, <2>1, EnqueueKeeps
  <2> QED BY <1>1, <1>5, <2>2 DEF t
<1>6. CASE wait_queue' = q /\ armed' = FrontTime(q) /\ UNCHANGED time
  <2>1. TimerInv'
    BY <1>1, <1>2, <1>4, <1>6, RemovalKeeps
  <2>2. Range(wait_queue') = Range(wait_queue) \ {t} /\ UNCHANGED time
    BY <1>1, <1>6
  <2> QED BY <2>1, <2>2 DEF t
<1> QED BY <1>3, <1>5, <1>6

(* The clock moves under a register that is below TIME_MAX. *)
LEMMA TickKeeps ==
    ASSUME TimerInv, Tick
    PROVE  TimerInv'
<1>1. /\ now' \in 0..MaxNow /\ now' \in Nat /\ now' < TIME_MAX
  BY TimeAssumption, ClockBelowMax DEF Tick, TimerInv, TypeOK
<1>2. TypeOK' /\ QueueSorted'
  BY <1>1 DEF Tick, TimerInv, TypeOK, QueueSorted
<1>3. FrontTime(wait_queue)' = FrontTime(wait_queue) /\ armed' = armed
      /\ wait_queue' = wait_queue
  BY DEF Tick, FrontTime
<1>4. list_empty(wait_queue) => armed = TIME_MAX
  BY DEF TimerInv, ArmedForFirst, FrontTime
<1>5. TIME_MAX \in Nat
  BY TimeAssumption
<1>6. ArmedForFirst'
  BY <1>1, <1>3, <1>4, <1>5 DEF TimerInv, ArmedForFirst
<1> QED BY <1>2, <1>6 DEF TimerInv

(* Every step of the timers keeps the invariant. *)
LEMMA TimerNextInv == TimerInv /\ [Next]_vars => TimerInv'
<1> SUFFICES ASSUME TimerInv, [Next]_vars PROVE TimerInv'
  OBVIOUS
<1>1. SchedTimer \in Timer /\ Slice \in 0..TIME_MAX /\ Ns \subseteq 0..TIME_MAX
  BY TimeAssumption, TimerAssumption
<1>2. CASE timer_wait(SchedTimer, Slice)
  BY <1>1, <1>2, WaitFacts
<1>3. CASE \E t \in Timer \ {SchedTimer}, ns \in Ns : timer_wait(t, ns)
  BY <1>1, <1>3, WaitFacts
<1>4. CASE \E t \in Timer \ {SchedTimer} : timer_cancel(t)
  BY <1>4, CancelFacts
<1>5. CASE timer_isr
  BY <1>5, IsrKeeps
<1>6. CASE Tick
  BY <1>6, TickKeeps
<1>7. CASE UNCHANGED vars
  BY <1>7 DEF vars, TimerInv, TypeOK, QueueSorted, ArmedForFirst, FrontTime
<1> QED BY <1>2, <1>3, <1>4, <1>5, <1>6, <1>7 DEF Next

(* Nothing is pending when the program starts. *)
LEMMA TimerInitInv == Init => TimerInv
<1> SUFFICES ASSUME Init PROVE TimerInv
  OBVIOUS
<1>1. TIME_MAX \in Nat /\ MaxNow \in Nat /\ 0 < TIME_MAX
  BY TimeAssumption, ClockBelowMax
<1>2. <<>> \in Seq(Timer) /\ Len(<<>>) = 0 /\ IsList(<<>>) /\ list_empty(<<>>)
  <2>1. IsList(<<>>)
    BY DEF IsList, IsInjective
  <2> QED BY <2>1 DEF list_empty
<1>3. TypeOK
  BY <1>1, <1>2 DEF Init, TypeOK
<1>4. QueueSorted
  BY <1>2 DEF Init, QueueSorted
<1>5. ArmedForFirst
  BY <1>1, <1>2 DEF Init, ArmedForFirst, FrontTime
<1> QED BY <1>3, <1>4, <1>5 DEF TimerInv

(* The inductive invariant of the timer queue always holds. *)
THEOREM TimerInvariant == Spec => []TimerInv
BY TimerInitInv, TimerNextInv, PTL DEF Spec

(* The variables of timer.c keep their types; no deadline wraps around. *)
THEOREM TimerTypeCorrect == Spec => []TypeOK
<1>1. TimerInv => TypeOK
  BY DEF TimerInv
<1> QED BY <1>1, TimerInvariant, PTL

(* The queue is sorted by deadline whatever the calls. *)
THEOREM QueueAlwaysSorted == Spec => []QueueSorted
<1>1. TimerInv => QueueSorted
  BY DEF TimerInv
<1> QED BY <1>1, TimerInvariant, PTL

(* The compare register is that of the first timer, so timer_isr finds one *)
(* in the queue.                                                           *)
THEOREM AlwaysArmedForFirst == Spec => []ArmedForFirst
<1>1. TimerInv => ArmedForFirst
  BY DEF TimerInv
<1> QED BY <1>1, TimerInvariant, PTL

-----------------------------------------------------------------------------
(* When a timer leaves the queue.                                          *)

(* Only timer_cancel and timer_isr make a pending timer leave, and the     *)
(* latter only when it is due.                                             *)
LEMMA LeavesWhenDue ==
    ASSUME TimerInv, [Next]_vars, NEW t \in Timer,
           IsPending(t), ~IsPending(t)' \/ time'[t] # time[t]
    PROVE  \/ timer_cancel(t)
           \/ /\ time[t] <= now
              /\ \A u \in Timer : IsPending(u) => time[t] <= time[u]
<1>1. SchedTimer \in Timer /\ Slice \in 0..TIME_MAX /\ Ns \subseteq 0..TIME_MAX
  BY TimeAssumption, TimerAssumption
<1>2. time \in [Timer -> Nat]
  BY QueueFacts
<1>3. ASSUME NEW s \in Timer, NEW ns \in 0..TIME_MAX, timer_wait(s, ns) PROVE FALSE
  <2>1. Range(wait_queue') = Range(wait_queue) \cup {s}
        /\ time' = [time EXCEPT ![s] = Deadline(ns)]
    BY <1>3, WaitFacts
  <2>2. s # t
    BY <1>3 DEF timer_wait
  <2> QED BY <1>2, <2>1, <2>2 DEF IsPending
<1>4. ASSUME NEW s \in Timer, timer_cancel(s) PROVE s = t
  <2>1. Range(wait_queue') = Range(wait_queue) \ {s} /\ time' = time
    BY <1>4, CancelFacts DEF timer_cancel
  <2> QED BY <2>1 DEF IsPending
<1>5. CASE timer_isr
  <2> DEFINE s == list_first_entry(wait_queue)
  <2>1. /\ s \in Timer /\ time[s] <= now
        /\ \A u \in Range(wait_queue) : time[s] <= time[u]
    BY <1>5, IsrFacts DEF timer_isr
  <2>2. \/ /\ Range(wait_queue') = Range(wait_queue)
           /\ time' = [time EXCEPT ![s] = Deadline(Slice)]
        \/ Range(wait_queue') = Range(wait_queue) \ {s} /\ time' = time
    BY <1>5, IsrKeeps
  <2> HIDE DEF s
  <2>3. t = s
    BY <1>2, <2>1, <2>2 DEF IsPending
  <2> QED BY <2>1, <2>3 DEF IsPending
<1>6. CASE Tick \/ UNCHANGED vars
  BY <1>6 DEF Tick, vars, IsPending
<1> QED BY <1>1, <1>3, <1>4, <1>5, <1>6 DEF Next

(* A timer that is not cancelled leaves the queue at its deadline or       *)
(* later, and never before one that is due earlier.                        *)
THEOREM TimersNeverEarly == Spec => NeverEarly
<1>1. TimerInv /\ [Next]_vars =>
        [\A t \in Timer :
            IsPending(t) /\ (~IsPending(t)' \/ time'[t] # time[t]) =>
                \/ timer_cancel(t)
                \/ /\ time[t] <= now
                   /\ \A u \in Timer : IsPending(u) => time[t] <= time[u]]_vars
  BY LeavesWhenDue
<1> QED BY <1>1, TimerInvariant, PTL DEF Spec, NeverEarly

-----------------------------------------------------------------------------
(* The queue implements the alarms.                                        *)

(* The alarms a state of the queue stands for. *)
Due == [t \in Timer |-> IF IsPending(t) THEN time[t] ELSE OFF]

(* An alarm is set exactly when its timer is pending. *)
LEMMA PendingAlarms ==
    ASSUME TimerInv
    PROVE  \A t \in Timer : t \in Promise!Pending <=> IsPending(t)
<1>1. time \in [Timer -> Nat]
  BY QueueFacts
<1> QED BY <1>1 DEF Promise!Pending, OFF

(* Every step of the queue is a step of the alarms or changes none. *)
LEMMA StepRefines ==
    ASSUME TimerInv, [Next]_vars
    PROVE  [Promise!Next]_(Promise!vars)
<1>1. SchedTimer \in Timer /\ Slice \in 0..TIME_MAX /\ Ns \subseteq 0..TIME_MAX
  BY SMTT(30), TimeAssumption, TimerAssumption
<1>2. /\ time \in [Timer -> Nat] /\ time \in [Timer -> 0..(TIME_MAX - 1)]
      /\ now \in 0..MaxNow /\ now \in Nat
  BY QueueFacts, TimeAssumption
<1>3. ASSUME NEW t \in Timer, NEW ns \in 0..TIME_MAX, timer_wait(t, ns)
      PROVE  Promise!Next
  <2>1. PICK d \in 0..(TIME_MAX - 1) : d = Deadline(ns)
    BY <1>2, DeadlineInRange
  <2>2. Range(wait_queue') = Range(wait_queue) \cup {t} /\ time' = [time EXCEPT ![t] = d]
    BY <1>3, <2>1, WaitFacts
  <2>3. d >= now
    BY <1>2, <2>1, DeadlineInRange, DivMonotone, TimeAssumption
  <2>4. t \notin Range(wait_queue) /\ UNCHANGED now
    BY <1>3 DEF timer_wait, IsPending
  <2>5. Due' = [Due EXCEPT ![t] = d]
    BY Zenon, <1>2, <2>2 DEF Due, IsPending
  <2>6. t \notin Promise!Pending
    BY <2>4, PendingAlarms DEF IsPending
  <2>7. Promise!Set(t, d)
    BY <2>3, <2>4, <2>5, <2>6 DEF Promise!Set, Due
  <2> QED BY <2>7 DEF Promise!Next
<1>4. ASSUME NEW t \in Timer, timer_cancel(t) PROVE Promise!Next
  <2>1. Range(wait_queue') = Range(wait_queue) \ {t} /\ time' = time /\ now' = now
    BY <1>4, CancelFacts DEF timer_cancel
  <2>2. t \in Promise!Pending
    BY <1>4, PendingAlarms DEF timer_cancel
  <2>3. Due' = [Due EXCEPT ![t] = OFF]
    BY Zenon, <2>1 DEF Due, IsPending
  <2>4. Promise!Cancel(t)
    BY <2>1, <2>2, <2>3 DEF Promise!Cancel, Due
  <2> QED BY <2>4 DEF Promise!Next
<1>5. CASE timer_isr
  <2>1. PICK t \in Timer : t = list_first_entry(wait_queue)
    BY <1>5, IsrFacts DEF timer_isr
  <2>2. /\ IsPending(t) /\ time[t] <= now
        /\ \A u \in Range(wait_queue) : time[t] <= time[u]
    BY <1>5, <2>1, IsrFacts DEF timer_isr
  <2>3. \/ /\ Range(wait_queue') = Range(wait_queue)
           /\ time' = [time EXCEPT ![t] = Deadline(Slice)]
        \/ Range(wait_queue') = Range(wait_queue) \ {t} /\ time' = time
    BY <1>5, <2>1, IsrKeeps
  <2>4. now' = now /\ Deadline(Slice) > now /\ Deadline(Slice) \in 0..(TIME_MAX - 1)
    BY <1>1, <1>2, <1>5, SliceAdvances, DeadlineInRange DEF timer_isr
  <2>5. Promise!Ripe(t)
    BY <2>2, PendingAlarms DEF Promise!Ripe, Promise!Pending, IsPending
  <2>6. \/ Due' = [Due EXCEPT ![t] = Deadline(Slice)]
        \/ Due' = [Due EXCEPT ![t] = OFF]
    BY Zenon, <1>2, <2>2, <2>3 DEF Due, IsPending
  <2>7. PICK d \in 0..(TIME_MAX - 1) \cup {OFF} :
           (d # OFF => d > now) /\ Due' = [Due EXCEPT ![t] = d]
    BY Zenon, <2>4, <2>6
  <2>8. Promise!GoOff(t)
    BY Zenon, <2>4, <2>5, <2>7 DEF Promise!GoOff, Due
  <2> QED BY <2>8 DEF Promise!Next
<1>6. CASE Tick
  <2>1. now' = now + 1 /\ UNCHANGED Due
    BY <1>6 DEF Tick, Due, IsPending
  <2> QED BY <2>1 DEF Promise!Next, Promise!Tick, Due
<1>7. CASE UNCHANGED vars
  <2>1. UNCHANGED <<now, Due>>
    BY <1>7 DEF vars, Due, IsPending
  <2> QED BY <2>1 DEF Promise!vars, Due
<1> QED BY <1>1, <1>3, <1>4, <1>5, <1>6, <1>7 DEF Next

(* timer.c implements the alarms: the one queue and the one register of    *)
(* the hart do what a clock with an alarm per timer would do.              *)
THEOREM TimersAreAlarms == Spec => Promise!Spec
<1>1. Init => Promise!Init
  <2>1. Init => now = 0 /\ list_empty(wait_queue)
    BY DEF Init, list_empty
  <2>2. list_empty(wait_queue) => \A t \in Timer : ~IsPending(t)
    BY EmptyList DEF IsPending
  <2> QED BY <2>1, <2>2 DEF Promise!Init
<1>2. TimerInv /\ [Next]_vars => [Promise!Next]_(Promise!vars)
  BY StepRefines
<1> QED BY <1>1, <1>2, TimerInvariant, PTL DEF Spec, Promise!Spec
=============================================================================

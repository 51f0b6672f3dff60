----------------------------- MODULE TtyProofs -----------------------------
(***************************************************************************)
(* For every number of readers and every size of the ring: the terminal    *)
(* keeps its types, its permits match its bytes, its echo the unfinished   *)
(* line, and it implements Lines.tla.  The semaphore keeps the sum of the  *)
(* permits left and given (SemWait, SemSignal); the inductive invariant    *)
(* adds to what the runs check only that the ring holds no byte that was   *)
(* not received.                                                           *)
(***************************************************************************)
EXTENDS TtyRingProofs, FiniteSetTheorems

(* What the semaphore and the readers' places agree on. *)
SemOK ==
    /\ sem_val \in Int
    /\ sem_queue \in Seq(Reader) /\ IsList(sem_queue)
    /\ stage \in [Reader -> {"user", "blocked", "granted"}]
    /\ Range(sem_queue) = {r \in Reader : stage[r] = "blocked"}
    /\ curr \in Granted \cup {NONE}
    /\ Len(sem_queue) = Max0(-sem_val)

(* The readers are finitely many, and so are those that hold a permit. *)
LEMMA Finite ==
    ASSUME NEW S \in SUBSET Reader
    PROVE  IsFiniteSet(S) /\ Cardinality(S) \in Nat
                          /\ Cardinality(S) <= Cardinality(Reader)
<1>1. IsFiniteSet(Reader)
  BY TtyAssumption
<1>2. IsFiniteSet(S) /\ Cardinality(S) <= Cardinality(Reader)
  BY <1>1, FS_Subset
<1> QED BY <1>2, FS_CardinalityType

(* The first n entries of a list are n. *)
LEMMA FirstEntries ==
    ASSUME NEW S, NEW q \in Seq(S), IsList(q), NEW n \in 0..Len(q)
    PROVE  LET W == {q[i] : i \in 1..n}
           IN  IsFiniteSet(W) /\ Cardinality(W) = n
<1> DEFINE W == {q[i] : i \in 1..n}
           f == [i \in 1..n |-> q[i]]
<1>1. n \in Nat /\ \A i \in 1..n : i \in DOMAIN q
  BY SeqLength
<1>2. \A i, j \in 1..n : q[i] = q[j] => i = j
  BY <1>1 DEF IsList, IsInjective
<1>3. f \in [1..n -> W]
  OBVIOUS
<1>4. \A i, j \in 1..n : f[i] = f[j] => i = j
  BY <1>2
<1>5. \A w \in W : \E i \in 1..n : f[i] = w
  OBVIOUS
<1> HIDE DEF f, W
<1>6. f \in Bijection(1..n, W)
  BY <1>3, <1>4, <1>5 DEF Bijection, Injection, Surjection, IsInjective
<1>7. ExistsBijection(1..n, W)
  BY <1>6 DEF ExistsBijection
<1>8. IsFiniteSet(1..n) /\ Cardinality(1..n) = n
  BY <1>1, FS_Interval
<1>9. IsFiniteSet(W) /\ Cardinality(W) = n
  BY <1>7, <1>8, FS_Bijection
<1> QED BY <1>9 DEF W

(* A list without its first n entries. *)
LEMMA OtherEntries ==
    ASSUME NEW S, NEW q \in Seq(S), IsList(q), NEW n \in 0..Len(q)
    PROVE  LET p == SubSeq(q, n + 1, Len(q))
           IN  /\ p \in Seq(S) /\ IsList(p) /\ Len(p) = Len(q) - n
               /\ Range(p) = Range(q) \ {q[i] : i \in 1..n}
<1> DEFINE m == Len(q) - n
           p == Back(q, m)
<1>1. Len(q) \in Nat /\ DOMAIN q = 1..Len(q) /\ m \in 0..Len(q) /\ Len(q) - m = n
  BY SeqLength
<1>2. p = SubSeq(q, n + 1, Len(q))
  BY <1>1 DEF Back
<1>3. p \in Seq(S) /\ Len(p) = m /\ \A i \in 1..m : p[i] = q[n + i]
  BY <1>1, SplitType, ZenonT(30)
<1> HIDE DEF p, m
<1>4. DOMAIN p = 1..m
  BY <1>3, SeqLength
<1>5. m \in Nat /\ \A i \in 1..m : n + i \in 1..Len(q)
  BY <1>1 DEF m
<1>6. \A i, j \in 1..Len(q) : q[i] = q[j] => i = j
  BY <1>1 DEF IsList, IsInjective
<1>7. IsList(p)
  <2>1. ASSUME NEW i \in 1..m, NEW j \in 1..m, p[i] = p[j] PROVE i = j
    <3>1. q[n + i] = q[n + j]
      BY <2>1, <1>3
    <3>2. n + i = n + j
      BY <3>1, <1>5, <1>6
    <3> QED BY <3>2
  <2> QED BY <2>1, <1>4 DEF IsList, IsInjective
<1>8. ASSUME NEW y \in Range(p)
      PROVE  y \in Range(q) /\ y \notin {q[i] : i \in 1..n}
  <2>1. PICK j \in 1..m : y = p[j]
    BY <1>4 DEF Range
  <2>2. y = q[n + j] /\ n + j \in 1..Len(q)
    BY <2>1, <1>3, <1>5, Zenon
  <2>3. y \in Range(q)
    BY <2>2, <1>1 DEF Range
  <2>4. ASSUME NEW i \in 1..n, y = q[i] PROVE FALSE
    <3>1. i \in 1..Len(q) /\ i # n + j
      BY <1>1
    <3> QED BY <3>1, <2>2, <2>4, <1>6, Zenon
  <2> QED BY <2>3, <2>4
<1>9. ASSUME NEW y \in Range(q), y \notin {q[i] : i \in 1..n}
      PROVE  y \in Range(p)
  <2>1. PICK j \in 1..Len(q) : y = q[j]
    BY <1>1 DEF Range
  <2>2. j \notin 1..n
    BY <2>1, <1>9
  <2>3. j - n \in 1..m /\ n + (j - n) = j
    BY <2>2, <1>1 DEF m
  <2>4. y = p[j - n]
    BY <2>1, <2>3, <1>3
  <2> QED BY <2>3, <2>4, <1>4 DEF Range
<1>10. Range(p) = Range(q) \ {q[i] : i \in 1..n}
  BY <1>8, <1>9
<1> QED BY <1>2, <1>3, <1>7, <1>10 DEF m

(* Permits left, and permits given for bytes not yet taken. *)
Permits == Max0(sem_val) + Cardinality(Granted)

(* The processes inside a read. *)
Reading == {r \in Reader : stage[r] # "user"}

(* sem_wait takes a permit, or the place at the end of the queue.          *)
LEMMA SemWait ==
    ASSUME SemOK, NEW r \in Reader, stage[r] # "blocked", sem_wait(r)
    PROVE  /\ SemOK' /\ Reading' = Reading \cup {r}
           /\ Permits' = Max0(sem_val) + Cardinality(Granted \ {r}) 
<1> USE DEF SemOK, sem_wait
<1>1. /\ sem_val \in Int /\ Len(sem_queue) = Max0(-sem_val)
      /\ sem_queue \in Seq(Reader) /\ IsList(sem_queue)
      /\ Range(sem_queue) = {s \in Reader : stage[s] = "blocked"}
  OBVIOUS
<1>2. Granted \in SUBSET Reader /\ Granted \ {r} \in SUBSET Reader
  BY DEF Granted
<1>3. /\ IsFiniteSet(Granted \ {r}) /\ Cardinality(Granted \ {r}) \in Nat
      /\ IsFiniteSet(Granted) /\ Cardinality(Granted) \in Nat
  BY <1>2, Finite
<1>4. CASE sem_val - 1 < 0
  <2>1. /\ sem_val' = sem_val - 1 /\ sem_queue' = list_push_back(sem_queue, r)
        /\ stage' = [stage EXCEPT ![r] = "blocked"] /\ curr' = NONE
    BY <1>4
  <2>2. r \notin Range(sem_queue)
    BY <1>1
  <2>3. /\ sem_queue' \in Seq(Reader) /\ Len(sem_queue') = Len(sem_queue) + 1
        /\ Range(sem_queue') = Range(sem_queue) \cup {r} /\ IsList(sem_queue')
    BY <2>1, <2>2, <1>1, PushBack, Zenon
  <2>4. /\ stage' \in [Reader -> {"user", "blocked", "granted"}]
        /\ \A s \in Reader : stage'[s] = IF s = r THEN "blocked" ELSE stage[s]
    BY <2>1
  <2>5. Range(sem_queue') = {s \in Reader : stage'[s] = "blocked"}
    BY <2>3, <2>4, <1>1
  <2>6. Granted' = Granted \ {r} /\ Reading' = Reading \cup {r}
    BY <2>4 DEF Granted, Reading
  <2>7. sem_val' \in Int /\ Len(sem_queue') = Max0(-sem_val')
    BY <2>1, <2>3, <1>1, <1>4 DEF Max0
  <2>8. Max0(sem_val') = Max0(sem_val)
    BY <2>1, <1>1, <1>4 DEF Max0
  <2>9. SemOK'
    BY <2>1, <2>3, <2>4, <2>5, <2>7
  <2> QED BY <2>6, <2>8, <2>9 DEF Permits
<1>5. CASE ~(sem_val - 1 < 0)
  <2>1. /\ sem_val' = sem_val - 1 /\ sem_queue' = sem_queue
        /\ stage' = [stage EXCEPT ![r] = "granted"] /\ curr' = r
    BY <1>5
  <2>2. /\ stage' \in [Reader -> {"user", "blocked", "granted"}]
        /\ \A s \in Reader : stage'[s] = IF s = r THEN "granted" ELSE stage[s]
    BY <2>1
  <2>3. Range(sem_queue') = {s \in Reader : stage'[s] = "blocked"}
    BY <2>1, <2>2, <1>1
  <2>4. Granted' = (Granted \ {r}) \cup {r} /\ Reading' = Reading \cup {r}
    BY <2>2 DEF Granted, Reading
  <2>5. Cardinality(Granted') = Cardinality(Granted \ {r}) + 1
    BY <2>4, <1>3, FS_AddElement, Zenon
  <2>6. sem_val' \in Int /\ Len(sem_queue') = Max0(-sem_val')
    BY <2>1, <1>1, <1>5 DEF Max0
  <2>7. Max0(sem_val') = Max0(sem_val) - 1 /\ Max0(sem_val) \in Int
    BY <2>1, <1>1, <1>5 DEF Max0
  <2>8. curr' \in Granted' \cup {NONE}
    BY <2>1, <2>4
  <2>9. SemOK'
    BY <2>1, <2>2, <2>3, <2>6, <2>8, <1>1
  <2>10. Permits' = Max0(sem_val) + Cardinality(Granted \ {r})
    BY <2>5, <2>7, <1>3 DEF Permits
  <2> QED BY <2>4, <2>9, <2>10
<1> QED BY <1>4, <1>5

(* The smaller of two numbers. *)
LEMMA MinOfTwo ==
    ASSUME NEW a \in Int, NEW b \in Int
    PROVE  Min({a, b}) = IF a <= b THEN a ELSE b
BY DEF Min

(* n signals make n permits, given to the first waiters as far as there    *)
(* are any: sem_signal wakes one whenever the value was below zero.        *)
LEMMA SemSignal ==
    ASSUME SemOK, NEW n \in Nat, sem_signaln(n)
    PROVE  SemOK' /\ Reading' = Reading /\ Permits' = Permits + n
<1> DEFINE w == Min({n, IF sem_val < 0 THEN -sem_val ELSE 0})
           W == {sem_queue[i] : i \in 1..w}
<1>1. /\ sem_val \in Int /\ Len(sem_queue) = Max0(-sem_val)
      /\ sem_queue \in Seq(Reader) /\ IsList(sem_queue)
      /\ Range(sem_queue) = {s \in Reader : stage[s] = "blocked"}
      /\ stage \in [Reader -> {"user", "blocked", "granted"}]
      /\ curr \in Granted \cup {NONE}
  BY DEF SemOK
<1>2. /\ sem_val' = sem_val + n /\ curr' = curr
      /\ sem_queue' = SubSeq(sem_queue, w + 1, Len(sem_queue))
      /\ stage' = [r \in Reader |-> IF \E i \in 1..w : sem_queue[i] = r
                                    THEN "granted" ELSE stage[r]]
  BY DEF sem_signaln
<1>3. w = IF n <= Max0(-sem_val) THEN n ELSE Max0(-sem_val)
  <2>1. Max0(-sem_val) = IF sem_val < 0 THEN -sem_val ELSE 0
    BY <1>1 DEF Max0
  <2>2. Max0(-sem_val) \in Int
    BY <2>1, <1>1
  <2> QED BY <2>1, <2>2, MinOfTwo
<1> HIDE DEF w
<1>4. w \in 0..Len(sem_queue)
  BY <1>1, <1>3 DEF Max0
<1>5. IsFiniteSet(W) /\ Cardinality(W) = w
  BY <1>1, <1>4, FirstEntries, ZenonT(30)
<1>6. /\ sem_queue' \in Seq(Reader) /\ IsList(sem_queue')
      /\ Len(sem_queue') = Len(sem_queue) - w
      /\ Range(sem_queue') = Range(sem_queue) \ W
  BY <1>1, <1>2, <1>4, OtherEntries, Zenon
<1>7. W \subseteq Range(sem_queue)
  <2>1. DOMAIN sem_queue = 1..Len(sem_queue) /\ Len(sem_queue) \in Nat
    BY <1>1, SeqLength
  <2>2. \A i \in 1..w : i \in DOMAIN sem_queue
    BY <2>1, <1>4
  <2> QED BY <2>2 DEF Range
<1>8. \A r \in Reader : stage'[r] = IF r \in W THEN "granted" ELSE stage[r]
  BY <1>2
<1>9. stage' \in [Reader -> {"user", "blocked", "granted"}]
  BY <1>1, <1>2
<1> HIDE DEF W
<1>10. W \subseteq {s \in Reader : stage[s] = "blocked"}
  BY <1>1, <1>7
<1>11. /\ Range(sem_queue') = {s \in Reader : stage'[s] = "blocked"}
       /\ Reading' = Reading
       /\ Granted' = Granted \cup W /\ Granted \cap W = {}
  <2>1. Granted' = Granted \cup W /\ Granted \cap W = {}
    BY <1>8, <1>10 DEF Granted
  <2>2. Reading' = Reading
    BY <1>8, <1>10 DEF Reading
  <2>3. Range(sem_queue') = {s \in Reader : stage'[s] = "blocked"}
    BY <1>1, <1>6, <1>8
  <2> QED BY <2>1, <2>2, <2>3
<1>12. IsFiniteSet(Granted) /\ Cardinality(Granted) \in Nat
  BY Finite DEF Granted
<1>13. Cardinality(Granted') = Cardinality(Granted) + w
  <2>1. Cardinality(Granted \cup W)
            = Cardinality(Granted) + Cardinality(W) - Cardinality(Granted \cap W)
    BY <1>5, <1>12, FS_Union
  <2>2. Cardinality(Granted \cap W) = 0
    BY <1>11, FS_EmptySet
  <2>3. w \in Int
    BY <1>4
  <2> QED BY <2>1, <2>2, <2>3, <1>5, <1>11, <1>12
<1>14. /\ sem_val' \in Int /\ Len(sem_queue') = Max0(-sem_val')
       /\ Max0(sem_val') = Max0(sem_val) + n - w /\ Max0(sem_val) \in Int
  BY <1>1, <1>2, <1>3, <1>6 DEF Max0
<1>15. Permits' = Permits + n
  <2>1. w \in Int
    BY <1>4
  <2> QED BY <2>1, <1>12, <1>13, <1>14 DEF Permits
<1>16. curr' \in Granted' \cup {NONE}
  BY <1>1, <1>2, <1>11
<1>17. SemOK'
  BY <1>6, <1>9, <1>11, <1>14, <1>16 DEF SemOK
<1> QED BY <1>11, <1>15, <1>17

-----------------------------------------------------------------------------
Cell == Byte \cup {LF, Garbage}

(* The ring holds bytes that were received, no leftover of kmalloc, and    *)
(* its last ones are those of the screen.                                  *)
RingOK ==
    /\ rx_buf \in [Index -> Cell] /\ rx_head \in Index /\ rx_tail \in Index
    /\ Held \in Seq(Data) /\ Len(Held) = Used
    /\ cursor_pos \in 0..Used
    /\ screen \in Seq(Byte) /\ screen = Back(Held, cursor_pos)

ReadOK ==
    /\ size \in [Reader -> 0..MaxRead]
    /\ buf \in [Reader -> Seq(Data)]

(* The inductive invariant. *)
TtyInv == RingOK /\ SemOK /\ ReadOK /\ Used - cursor_pos = Permits

(* The ring of the state, in the terms of TtyRingProofs, before and after  *)
(* a step.                                                                 *)
LEMMA HeldIs ==
    /\ Held = Ring(rx_buf, rx_head, rx_tail) /\ Used = Dist(rx_head, rx_tail)
    /\ Held' = Ring(rx_buf', rx_head', rx_tail') /\ Used' = Dist(rx_head', rx_tail')
BY DEF Held, Used, Ring, Dist, Place, N

(* The two parts of what the ring holds. *)
LEMMA PartsAre ==
    /\ Len(Held) = Used => /\ Entered = Front(Held, cursor_pos)
                           /\ Unfinished = Back(Held, cursor_pos)
    /\ Len(Held') = Used' => /\ Entered' = Front(Held', cursor_pos')
                             /\ Unfinished' = Back(Held', cursor_pos')
BY Zenon DEF Entered, Unfinished, Front, Back

(* The number of bytes held is within the ring. *)
LEMMA UsedIs ==
    ASSUME RingOK
    PROVE  Used \in 0..(N - 1) /\ N \in Nat /\ cursor_pos \in Nat
<1>1. Used \in 0..(N - 1)
  BY HeldIs, DistIs DEF RingOK
<1> QED BY <1>1, SizeType DEF RingOK

(* The invariant implies what the runs check. *)
LEMMA InvImplies ==
    ASSUME TtyInv
    PROVE  TypeOK /\ PermitsMatchBytes /\ EchoMatchesLine
<1>1. Used \in 0..(N - 1) /\ N \in Nat /\ cursor_pos \in 0..Used
  BY UsedIs DEF TtyInv, RingOK
<1>2. Cardinality(Granted) \in Nat
  BY Finite DEF Granted
<1>3. sem_val \in Int /\ Len(sem_queue) = Max0(-sem_val)
  BY DEF TtyInv, SemOK
<1>4. Used - cursor_pos = Max0(sem_val) + Cardinality(Granted)
  BY DEF TtyInv, Permits
<1>5. sem_val <= N - 1
  BY <1>1, <1>2, <1>3, <1>4 DEF Max0
<1>6. Len(sem_queue) <= Cardinality(Reader)
  <2> DEFINE n == Len(sem_queue)
             W == {sem_queue[i] : i \in 1..n}
  <2>1. sem_queue \in Seq(Reader) /\ IsList(sem_queue)
    BY DEF TtyInv, SemOK
  <2>2. n \in 0..n /\ \A i \in 1..n : sem_queue[i] \in Reader
    BY <2>1, SeqLength
  <2>3. Cardinality(W) = n
    BY <2>1, <2>2, FirstEntries, Zenon
  <2>4. W \in SUBSET Reader
    BY <2>2
  <2> HIDE DEF W, n
  <2>5. Cardinality(W) <= Cardinality(Reader)
    BY <2>4, Finite
  <2> QED BY <2>3, <2>5 DEF n
<1>7. Cardinality(Reader) \in Nat
  BY Finite
<1>8. sem_val \in -Cardinality(Reader)..(N - 1)
  BY <1>3, <1>5, <1>6, <1>7, <1>1 DEF Max0
<1>9. TypeOK
  <2>1. cursor_pos \in 0..(N - 1)
    BY <1>1
  <2> QED BY <2>1, <1>8 DEF TtyInv, RingOK, SemOK, ReadOK, TypeOK, Cell, Data, N
<1>10. PermitsMatchBytes
  BY <1>1, <1>3, <1>4 DEF PermitsMatchBytes
<1>11. EchoMatchesLine
  BY PartsAre DEF TtyInv, RingOK, EchoMatchesLine
<1> QED BY <1>9, <1>10, <1>11

(* It holds at first. *)
LEMMA InitInv == Init => TtyInv /\ Promise!Init
<1> SUFFICES ASSUME Init PROVE TtyInv /\ Promise!Init
  OBVIOUS
<1>1. 0 \in Index /\ rx_head = 0 /\ rx_tail = 0 /\ cursor_pos = 0 /\ screen = <<>>
  BY SizeType DEF Init, Index, N
<1>2. rx_buf \in [Index -> Cell]
  BY DEF Init, Cell
<1>3. Dist(0, 0) = 0
  BY <1>1, DistIs, SizeType
<1>4. Held \in Seq(Data) /\ Len(Held) = 0 /\ Used = 0 /\ Held = <<>>
  <2>1. Ring(rx_buf, 0, 0) \in Seq(Cell) /\ Len(Ring(rx_buf, 0, 0)) = 0
    BY <1>1, <1>2, <1>3, RingType
  <2>2. Held = Ring(rx_buf, 0, 0) /\ Used = 0
    BY <1>1, <1>3, HeldIs
  <2> QED BY <2>1, <2>2
<1>5. Front(Held, 0) = <<>> /\ Back(Held, 0) = <<>>
  <2>1. 0 \in 0..Len(Held)
    BY <1>4
  <2> QED BY <2>1, <1>4, SplitWhole, Zenon
<1>6. RingOK
  BY <1>1, <1>2, <1>4, <1>5 DEF RingOK
<1>7. Granted = {} /\ Reading = {}
  BY DEF Init, Granted, Reading
<1>8. Range(<<>>) = {} /\ IsList(<<>>) /\ <<>> \in Seq(Reader)
  BY DEF Range, IsList, IsInjective
<1>9. SemOK
  BY <1>7, <1>8 DEF Init, SemOK, Max0
<1>10. ReadOK
  BY TtyAssumption DEF Init, ReadOK
<1>11. Permits = 0
  BY <1>7, FS_EmptySet DEF Init, Permits, Max0
<1>12. Promise!Init
  <2>1. Unfinished = <<>> /\ Entered = <<>>
    BY <1>1, <1>4, <1>5, PartsAre
  <2> QED BY <2>1, <1>7 DEF Promise!Init, Reading, Init
<1> QED BY <1>1, <1>4, <1>6, <1>9, <1>10, <1>11, <1>12 DEF TtyInv

-----------------------------------------------------------------------------
(* The byte at the head is taken: tty.c's read, past sem_wait.             *)
LEMMA TakeByte ==
    ASSUME RingOK, cursor_pos < Used, rx_head' = Succ(rx_head),
           UNCHANGED <<rx_buf, rx_tail, cursor_pos, screen>>
    PROVE  /\ RingOK' /\ Used' = Used - 1
           /\ Entered # <<>> /\ Head(Entered) = rx_buf[rx_head]
           /\ rx_buf[rx_head] \in Data
           /\ Entered' = Tail(Entered) /\ Unfinished' = Unfinished
<1>1. /\ rx_buf \in [Index -> Cell] /\ rx_head \in Index /\ rx_tail \in Index
      /\ Held \in Seq(Data) /\ Len(Held) = Used /\ cursor_pos \in 0..Len(Held)
      /\ screen \in Seq(Byte) /\ screen = Back(Held, cursor_pos)
  BY DEF RingOK
<1>2. Used \in 0..(N - 1) /\ N \in Nat /\ cursor_pos \in Nat
  BY UsedIs
<1>3. rx_head # rx_tail
  <2>1. rx_head = rx_tail => Dist(rx_head, rx_tail) = 0
    BY <1>1, DistIs DEF Index, N
  <2> QED BY <2>1, <1>2, HeldIs
<1>4. /\ Dist(Succ(rx_head), rx_tail) = Dist(rx_head, rx_tail) - 1
      /\ Ring(rx_buf, Succ(rx_head), rx_tail) = Tail(Ring(rx_buf, rx_head, rx_tail))
      /\ Ring(rx_buf, rx_head, rx_tail) # <<>>
      /\ Ring(rx_buf, rx_head, rx_tail)[1] = rx_buf[rx_head]
  BY <1>1, <1>3, RingShrinks, Zenon
<1>5. /\ Used' = Used - 1 /\ Held' = Tail(Held)
      /\ Held # <<>> /\ Held[1] = rx_buf[rx_head]
  BY <1>4, HeldIs
<1>6. Tail(Held) \in Seq(Data) /\ Len(Tail(Held)) = Used - 1 /\ Held[1] \in Data
  BY <1>1, <1>5, SeqHeadTail
<1>7. /\ Front(Held, cursor_pos) # <<>> /\ Head(Front(Held, cursor_pos)) = Held[1]
      /\ Front(Tail(Held), cursor_pos) = Tail(Front(Held, cursor_pos))
      /\ Back(Tail(Held), cursor_pos) = Back(Held, cursor_pos)
  BY <1>1, SplitTake
<1>8. Entered = Front(Held, cursor_pos) /\ Unfinished = Back(Held, cursor_pos)
  BY <1>1, PartsAre
<1>9. Entered' = Front(Held', cursor_pos) /\ Unfinished' = Back(Held', cursor_pos)
  BY <1>5, <1>6, PartsAre
<1>10. cursor_pos' \in 0..Used'
  BY <1>2, <1>5
<1>11. rx_head' \in Index
  BY <1>1, NeighboursAre
<1>12. RingOK'
  BY <1>1, <1>5, <1>6, <1>7, <1>10, <1>11 DEF RingOK
<1> QED BY <1>5, <1>6, <1>7, <1>8, <1>9, <1>12

(* A byte is stored at the tail. *)
LEMMA StoreByte ==
    ASSUME RingOK, NEW b \in Data, Succ(rx_tail) # rx_head,
           rx_buf' = Put(rx_buf, rx_tail, b), rx_tail' = Succ(rx_tail),
           rx_head' = rx_head
    PROVE  /\ rx_buf' \in [Index -> Cell] /\ rx_tail' \in Index
           /\ Held' = Append(Held, b) /\ Held' \in Seq(Data)
           /\ Len(Held') = Used' /\ Used' = Used + 1 /\ Used' \in 0..(N - 1)
<1>1. /\ rx_buf \in [Index -> Cell] /\ rx_head \in Index /\ rx_tail \in Index
      /\ Held \in Seq(Data) /\ Len(Held) = Used
  BY DEF RingOK
<1>2. b \in Cell
  BY DEF Cell, Data
<1>3. /\ Dist(rx_head, Succ(rx_tail)) = Dist(rx_head, rx_tail) + 1
      /\ Ring(Put(rx_buf, rx_tail, b), rx_head, Succ(rx_tail))
            = Append(Ring(rx_buf, rx_head, rx_tail), b)
  BY <1>1, <1>2, RingGrows, ZenonT(30)
<1>4. Used' = Used + 1 /\ Held' = Append(Held, b)
  BY <1>3, HeldIs
<1>5. Append(Held, b) \in Seq(Data) /\ Len(Append(Held, b)) = Used + 1
  BY <1>1, Appended
<1>6. rx_buf' \in [Index -> Cell]
  BY <1>1, <1>2 DEF Put
<1>7. rx_tail' \in Index
  BY <1>1, NeighboursAre
<1>8. Used' \in 0..(N - 1)
  BY <1>1, <1>7, HeldIs, DistIs
<1> QED BY <1>4, <1>5, <1>6, <1>7, <1>8

(* A read begins: Begin of Lines. *)
LEMMA ReadStep ==
    ASSUME TtyInv, NEW r \in Reader, NEW n \in 1..MaxRead, read(r, n)
    PROVE  TtyInv' /\ Promise!Begin(r)
<1>1. RingOK /\ SemOK /\ ReadOK /\ Used - cursor_pos = Permits
  BY DEF TtyInv
<1>2. /\ stage[r] = "user" /\ sem_wait(r)
      /\ size' = [size EXCEPT ![r] = n] /\ buf' = [buf EXCEPT ![r] = <<>>]
      /\ UNCHANGED <<rx_buf, rx_head, rx_tail, cursor_pos, screen>>
  BY DEF read, ringVars
<1>3. /\ SemOK' /\ Reading' = Reading \cup {r}
      /\ Permits' = Max0(sem_val) + Cardinality(Granted \ {r})
  BY <1>1, <1>2, SemWait, Zenon
<1>4. Granted \ {r} = Granted
  BY <1>2 DEF Granted
<1>5. Held' = Held /\ Used' = Used /\ Entered' = Entered /\ Unfinished' = Unfinished
  BY <1>2 DEF Held, Used, Entered, Unfinished
<1>6. RingOK'
  BY <1>1, <1>2, <1>5 DEF RingOK
<1>7. ReadOK'
  <2>1. size' \in [Reader -> 0..MaxRead]
    BY <1>1, <1>2, TtyAssumption DEF ReadOK
  <2>2. buf' \in [Reader -> Seq(Data)]
    BY <1>1, <1>2 DEF ReadOK
  <2> QED BY <2>1, <2>2 DEF ReadOK
<1>8. Used' - cursor_pos' = Permits'
  BY <1>1, <1>2, <1>3, <1>4, <1>5, Zenon DEF Permits
<1>9. Promise!Begin(r)
  BY <1>2, <1>3, <1>5 DEF Promise!Begin, Reading
<1> QED BY <1>3, <1>6, <1>7, <1>8, <1>9 DEF TtyInv

(* A reader takes a byte: Deliver of Lines. *)
LEMMA ReadByteStep ==
    ASSUME TtyInv, NEW r \in Reader, read_byte(r)
    PROVE  TtyInv' /\ Promise!Deliver(r)
<1> DEFINE byte == rx_buf[rx_head]
<1>1. RingOK /\ SemOK /\ ReadOK /\ Used - cursor_pos = Permits
  BY DEF TtyInv
<1>2. /\ stage[r] = "granted" /\ rx_head' = Succ(rx_head)
      /\ UNCHANGED <<rx_buf, rx_tail, cursor_pos, screen>> /\ UNCHANGED size
      /\ buf' = [buf EXCEPT ![r] = Append(@, byte)]
  BY DEF read_byte, Succ, N
<1>3. \/ /\ stage' = [stage EXCEPT ![r] = "user"] /\ curr' = NONE
         /\ UNCHANGED <<sem_val, sem_queue>>
      \/ byte # LF /\ sem_wait(r)
  BY DEF read_byte
<1>4. /\ IsFiniteSet(Granted) /\ Cardinality(Granted) \in Nat
      /\ Cardinality(Granted \ {r}) = Cardinality(Granted) - 1
      /\ Cardinality(Granted \ {r}) \in Nat
  <2>1. r \in Granted /\ Granted \in SUBSET Reader /\ Granted \ {r} \in SUBSET Reader
    BY <1>2 DEF Granted
  <2>2. IsFiniteSet(Granted) /\ Cardinality(Granted) \in Nat
        /\ Cardinality(Granted \ {r}) \in Nat
    BY <2>1, Finite
  <2> QED BY <2>1, <2>2, FS_RemoveElement, Zenon
<1>5. Max0(sem_val) \in Nat /\ sem_val \in Int
  BY <1>1 DEF SemOK, Max0
<1>6. cursor_pos < Used /\ Used \in Int /\ cursor_pos \in Int
  <2>1. Used \in Int /\ cursor_pos \in Int
    BY <1>1, UsedIs
  <2> QED BY <2>1, <1>1, <1>4, <1>5 DEF Permits
<1>7. /\ RingOK' /\ Used' = Used - 1
      /\ Entered # <<>> /\ Head(Entered) = byte /\ byte \in Data
      /\ Entered' = Tail(Entered) /\ Unfinished' = Unfinished
  BY <1>1, <1>2, <1>6, TakeByte
<1>8. /\ SemOK' /\ Permits' = Permits - 1
      /\ \/ Reading' = Reading \ {r}
         \/ byte # LF /\ Reading' = Reading
  <2>1. CASE /\ stage' = [stage EXCEPT ![r] = "user"] /\ curr' = NONE
             /\ UNCHANGED <<sem_val, sem_queue>>
    <3>1. /\ stage' \in [Reader -> {"user", "blocked", "granted"}]
          /\ \A s \in Reader : stage'[s] = IF s = r THEN "user" ELSE stage[s]
      BY <2>1, <1>1 DEF SemOK
    <3>2. Granted' = Granted \ {r} /\ Reading' = Reading \ {r}
      BY <3>1 DEF Granted, Reading
    <3>3. Range(sem_queue') = {s \in Reader : stage'[s] = "blocked"}
      BY <2>1, <3>1, <1>1, <1>2 DEF SemOK
    <3>4. SemOK'
      BY <2>1, <3>1, <3>3, <1>1 DEF SemOK
    <3>5. Permits' = Permits - 1
      BY <2>1, <3>2, <1>4, <1>5 DEF Permits
    <3> QED BY <3>2, <3>4, <3>5
  <2>2. CASE byte # LF /\ sem_wait(r)
    <3>1. /\ SemOK' /\ Reading' = Reading \cup {r}
          /\ Permits' = Max0(sem_val) + Cardinality(Granted \ {r})
      BY <2>2, <1>1, <1>2, SemWait, Zenon
    <3>2. Reading' = Reading
      BY <3>1, <1>2 DEF Reading
    <3>3. Permits' = Permits - 1
      BY <3>1, <1>4, <1>5 DEF Permits
    <3> QED BY <2>2, <3>1, <3>2, <3>3
  <2> QED BY <2>1, <2>2, <1>3
<1>9. ReadOK'
  <2>1. buf[r] \in Seq(Data) /\ Append(buf[r], byte) \in Seq(Data)
    BY <1>1, <1>7, Appended DEF ReadOK
  <2> QED BY <2>1, <1>1, <1>2 DEF ReadOK
<1>10. Used' - cursor_pos' = Permits'
  BY <1>1, <1>2, <1>6, <1>7, <1>8
<1>11. Promise!Deliver(r)
  <2>1. r \in Reading
    BY <1>2 DEF Reading
  <2>2. buf' = [buf EXCEPT ![r] = Append(@, Head(Entered))]
    BY <1>2, <1>7, Zenon
  <2> QED BY <2>1, <2>2, <1>7, <1>8 DEF Promise!Deliver, Reading
<1> QED BY <1>7, <1>8, <1>9, <1>10, <1>11 DEF TtyInv

(* A byte is taken back: Erase of Lines. *)
LEMMA EraseStep ==
    ASSUME TtyInv, erase, UNCHANGED readVars
    PROVE  TtyInv' /\ Promise!Erase
<1>1. RingOK /\ SemOK /\ ReadOK /\ Used - cursor_pos = Permits
  BY DEF TtyInv
<1>2. /\ cursor_pos > 0 /\ rx_tail' = Pred(rx_tail) /\ cursor_pos' = cursor_pos - 1
      /\ screen' = SubSeq(screen, 1, Len(screen) - 1)
      /\ UNCHANGED <<rx_buf, rx_head>>
      /\ UNCHANGED <<sem_val, sem_queue, stage, curr>> /\ UNCHANGED <<size, buf>>
  BY DEF erase, Pred, N, semVars, readVars
<1>3. /\ rx_buf \in [Index -> Cell] /\ rx_head \in Index /\ rx_tail \in Index
      /\ Held \in Seq(Data) /\ Len(Held) = Used /\ cursor_pos \in 0..Used
      /\ screen \in Seq(Byte) /\ screen = Back(Held, cursor_pos)
  BY <1>1 DEF RingOK
<1>4. Used \in 0..(N - 1) /\ N \in Nat /\ cursor_pos \in 1..Used
  BY <1>1, <1>2, <1>3, UsedIs
<1>5. rx_head # rx_tail
  <2>1. rx_head = rx_tail => Dist(rx_head, rx_tail) = 0
    BY <1>3, DistIs DEF Index, N
  <2> QED BY <2>1, <1>4, HeldIs
<1>6. Used' = Used - 1 /\ Held' = SubSeq(Held, 1, Len(Held) - 1)
  <2>1. /\ Dist(rx_head, Pred(rx_tail)) = Dist(rx_head, rx_tail) - 1
        /\ Ring(rx_buf, rx_head, Pred(rx_tail))
              = SubSeq(Ring(rx_buf, rx_head, rx_tail), 1, Dist(rx_head, rx_tail) - 1)
    BY <1>3, <1>5, RingErases, Zenon
  <2> QED BY <2>1, <1>2, <1>3, HeldIs
<1>7. Held' \in Seq(Data) /\ Len(Held') = Used'
  <2>1. 1 \in 0..Len(Held)
    BY <1>3, <1>4
  <2>2. Front(Held, 1) \in Seq(Data) /\ Len(Front(Held, 1)) = Len(Held) - 1
    BY <2>1, <1>3, SplitType, ZenonT(30)
  <2> QED BY <2>2, <1>3, <1>6 DEF Front
<1>8. /\ Front(Held', cursor_pos') = Front(Held, cursor_pos)
      /\ Back(Held', cursor_pos')
            = SubSeq(Back(Held, cursor_pos), 1, Len(Back(Held, cursor_pos)) - 1)
  <2>1. cursor_pos \in 1..Len(Held)
    BY <1>3, <1>4
  <2> QED BY <2>1, <1>2, <1>3, <1>6, SplitErase
<1>9. /\ Entered = Front(Held, cursor_pos) /\ Unfinished = Back(Held, cursor_pos)
      /\ Entered' = Front(Held', cursor_pos') /\ Unfinished' = Back(Held', cursor_pos')
  BY <1>3, <1>7, PartsAre
<1>10. /\ Len(screen) = cursor_pos /\ screen # <<>> /\ screen' \in Seq(Byte)
  <2>1. Len(screen) = cursor_pos
    BY <1>3, <1>4, SplitType
  <2>2. 1 \in 0..Len(screen)
    BY <2>1, <1>4
  <2>3. Front(screen, 1) \in Seq(Byte)
    BY <2>2, <1>3, SplitType
  <2>4. screen # <<>>
    BY <2>1, <1>2
  <2> QED BY <2>1, <2>3, <2>4, <1>2 DEF Front
<1>11. rx_tail' \in Index
  BY <1>2, <1>3, NeighboursAre
<1>12. cursor_pos' \in 0..Used'
  BY <1>2, <1>4, <1>6
<1>13. RingOK'
  BY <1>2, <1>3, <1>7, <1>8, <1>10, <1>11, <1>12 DEF RingOK
<1>14. Granted' = Granted /\ Reading' = Reading /\ Permits' = Permits
  BY <1>2 DEF Granted, Reading, Permits
<1>15. SemOK' /\ ReadOK'
  BY <1>1, <1>2, <1>14 DEF SemOK, ReadOK
<1>16. Used' - cursor_pos' = Permits'
  BY <1>1, <1>2, <1>4, <1>6, <1>14
<1>17. Promise!Erase
  BY <1>2, <1>3, <1>8, <1>9, <1>10, <1>14 DEF Promise!Erase, Reading
<1> QED BY <1>13, <1>15, <1>16, <1>17 DEF TtyInv

(* A byte is accepted: Type of Lines, or Enter for the end of a line. *)
LEMMA AcceptStep ==
    ASSUME TtyInv, NEW b \in Data, accept(b), UNCHANGED readVars
    PROVE  /\ TtyInv'
           /\ b = LF => Promise!Enter
           /\ b # LF => Promise!Type(b)
<1>1. RingOK /\ SemOK /\ ReadOK /\ Used - cursor_pos = Permits
  BY DEF TtyInv
<1>2. /\ Succ(rx_tail) # rx_head /\ rx_buf' = Put(rx_buf, rx_tail, b)
      /\ rx_tail' = Succ(rx_tail) /\ rx_head' = rx_head
      /\ screen' = IF b = LF THEN <<>> ELSE Append(screen, b)
      /\ UNCHANGED <<size, buf>>
  BY DEF accept, Succ, Put, N, readVars, ldisc_write
<1>3. /\ Held \in Seq(Data) /\ Len(Held) = Used /\ cursor_pos \in 0..Len(Held)
      /\ screen \in Seq(Byte) /\ screen = Back(Held, cursor_pos)
      /\ rx_head' \in Index
  BY <1>1, <1>2 DEF RingOK
<1>4. /\ rx_buf' \in [Index -> Cell] /\ rx_tail' \in Index
      /\ Held' = Append(Held, b) /\ Held' \in Seq(Data)
      /\ Len(Held') = Used' /\ Used' = Used + 1 /\ Used' \in 0..(N - 1)
  BY <1>1, <1>2, StoreByte
<1>5. Used \in Nat /\ cursor_pos \in Nat /\ cursor_pos <= Used /\ N \in Nat
  BY <1>1, <1>3, UsedIs
<1>6. /\ Front(Held', cursor_pos + 1) = Front(Held, cursor_pos)
      /\ Back(Held', cursor_pos + 1) = Append(Back(Held, cursor_pos), b)
  BY <1>3, <1>4, SplitAppend
<1>7. /\ Entered = Front(Held, cursor_pos) /\ Unfinished = Back(Held, cursor_pos)
      /\ Entered' = Front(Held', cursor_pos') /\ Unfinished' = Back(Held', cursor_pos')
  BY <1>3, <1>4, PartsAre
<1>8. Promise!Room
  <2>1. Len(Unfinished) = cursor_pos /\ Len(Entered) = Used - cursor_pos
    BY <1>3, <1>7, SplitType, ZenonT(30)
  <2> QED BY <2>1, <1>4, <1>5 DEF Promise!Room, N
<1>9. ReadOK'
  BY <1>1, <1>2 DEF ReadOK
<1>10. CASE b = LF
  <2>1. sem_signaln(cursor_pos + 1) /\ cursor_pos' = 0 /\ cursor_pos + 1 \in Nat
    BY <1>5, <1>10 DEF accept
  <2>2. SemOK' /\ Reading' = Reading /\ Permits' = Permits + (cursor_pos + 1)
    BY <2>1, <1>1, SemSignal
  <2>3. cursor_pos + 1 \in 0..Len(Held')
    BY <1>4, <1>5
  <2>4. /\ Front(Held', 0) = Held' /\ Back(Held', 0) = <<>>
        /\ Held' = Front(Held', cursor_pos + 1) \o Back(Held', cursor_pos + 1)
    BY <2>3, <1>4, SplitWhole, Zenon
  <2>5. screen' = <<>> /\ screen' \in Seq(Byte) /\ cursor_pos' \in 0..Used'
    BY <2>1, <1>2, <1>4, <1>5, <1>10
  <2>6. RingOK'
    BY <2>1, <2>4, <2>5, <1>3, <1>4 DEF RingOK
  <2>7. Used' - cursor_pos' = Permits'
    BY <2>1, <2>2, <1>1, <1>4, <1>5
  <2>8. Entered' = Entered \o Append(Unfinished, LF) /\ Unfinished' = <<>>
    BY <2>1, <2>4, <1>6, <1>7, <1>10, ZenonT(30)
  <2>9. Promise!Enter
    BY <2>2, <2>8, <1>2, <1>8 DEF Promise!Enter, Reading
  <2> QED BY <2>2, <2>6, <2>7, <2>9, <1>9, <1>10 DEF TtyInv
<1>11. CASE b # LF
  <2>1. /\ cursor_pos' = cursor_pos + 1
        /\ UNCHANGED <<sem_val, sem_queue, stage, curr>>
    BY <1>11 DEF accept, semVars
  <2>2. Granted' = Granted /\ Reading' = Reading /\ Permits' = Permits
    BY <2>1 DEF Granted, Reading, Permits
  <2>3. SemOK'
    BY <2>1, <2>2, <1>1 DEF SemOK
  <2>4. screen' = Append(screen, b) /\ b \in Byte
    BY <1>2, <1>11 DEF Data
  <2>5. screen' \in Seq(Byte)
    BY <2>4, <1>3, Appended
  <2>6. cursor_pos' \in 0..Used'
    BY <2>1, <1>4, <1>5
  <2>7. RingOK'
    BY <2>1, <2>4, <2>5, <2>6, <1>3, <1>4, <1>6 DEF RingOK
  <2>8. Used' - cursor_pos' = Permits'
    BY <2>1, <2>2, <1>1, <1>4, <1>5
  <2>9. Promise!Type(b)
    BY <2>1, <2>2, <1>2, <1>6, <1>7, <1>8 DEF Promise!Type, Reading
  <2> QED BY <2>3, <2>7, <2>8, <2>9, <1>9, <1>11 DEF TtyInv
<1> QED BY <1>10, <1>11

(* Every step keeps the invariant and is a step of Lines, or none. *)
LEMMA StepInv == TtyInv /\ [Next]_vars => TtyInv' /\ [Promise!Next]_(Promise!vars)
<1> SUFFICES ASSUME TtyInv, [Next]_vars
             PROVE  TtyInv' /\ [Promise!Next]_(Promise!vars)
  OBVIOUS
<1>1. ASSUME NEW byte \in Input, ldisc_recv_byte(byte)
      PROVE  TtyInv' /\ Promise!Next
  <2> DEFINE b == IF byte = CR THEN LF ELSE byte
  <2>1. /\ (b = DEL /\ erase) \/ (b # DEL /\ accept(b))
        /\ UNCHANGED readVars
    BY <1>1 DEF ldisc_recv_byte
  <2>2. b # DEL => b \in Data
    BY DEF Input, Data
  <2> HIDE DEF b
  <2>3. CASE b = DEL /\ erase
    BY <2>1, <2>3, EraseStep DEF Promise!Next
  <2>4. CASE b # DEL /\ accept(b)
    <3>1. TtyInv' /\ (b = LF => Promise!Enter) /\ (b # LF => Promise!Type(b))
      BY <2>1, <2>2, <2>4, AcceptStep
    <3>2. b # LF => b \in Byte
      BY <2>2, <2>4 DEF Data
    <3> QED BY <3>1, <3>2 DEF Promise!Next
  <2> QED BY <2>1, <2>3, <2>4
<1>2. ASSUME NEW r \in Reader, NEW n \in 1..MaxRead, read(r, n)
      PROVE  TtyInv' /\ Promise!Next
  BY <1>2, ReadStep DEF Promise!Next
<1>3. ASSUME NEW r \in Reader, read_byte(r)
      PROVE  TtyInv' /\ Promise!Next
  BY <1>3, ReadByteStep DEF Promise!Next
<1>4. CASE UNCHANGED vars
  <2>1. /\ UNCHANGED <<rx_buf, rx_head, rx_tail, cursor_pos, screen>>
        /\ UNCHANGED <<sem_val, sem_queue, stage, curr>> /\ UNCHANGED <<size, buf>>
    BY <1>4 DEF vars, ringVars, semVars, readVars
  <2>2. Held' = Held /\ Used' = Used /\ Entered' = Entered /\ Unfinished' = Unfinished
    BY <2>1 DEF Held, Used, Entered, Unfinished
  <2>3. Granted' = Granted /\ Reading' = Reading /\ Permits' = Permits
    BY <2>1 DEF Granted, Reading, Permits
  <2>4. TtyInv'
    BY <2>1, <2>2, <2>3 DEF TtyInv, RingOK, SemOK, ReadOK
  <2>5. UNCHANGED Promise!vars
    BY <2>1, <2>2, <2>3 DEF Promise!vars, Reading
  <2> QED BY <2>4, <2>5
<1> QED BY <1>1, <1>2, <1>3, <1>4 DEF Next

(* The terminal's variables keep their types (TypeOK).                     *)
THEOREM TtyTypes == Spec => []TypeOK
<1>1. TtyInv => TypeOK
  BY InvImplies
<1> QED BY InitInv, StepInv, <1>1, PTL DEF Spec

(* For any number of readers and any size of the ring, the permits left    *)
(* and given are as many as the bytes of entered lines                     *)
(* (PermitsMatchBytes): tty.c's read never finds the ring empty.           *)
THEOREM TtyPermits == Spec => []PermitsMatchBytes
<1>1. TtyInv => PermitsMatchBytes
  BY InvImplies
<1> QED BY InitInv, StepInv, <1>1, PTL DEF Spec

(* The echo shows the line that a newline would enter (EchoMatchesLine).   *)
THEOREM TtyEcho == Spec => []EchoMatchesLine
<1>1. TtyInv => EchoMatchesLine
  BY InvImplies
<1> QED BY InitInv, StepInv, <1>1, PTL DEF Spec

(* The ring, the line discipline and the semaphore implement Lines         *)
(* (ImplementsLines): every byte entered goes to one reader, in order.     *)
THEOREM TtyImplementsLines == Spec => ImplementsLines
BY InitInv, StepInv, PTL DEF Spec, ImplementsLines, Promise!Spec
=============================================================================

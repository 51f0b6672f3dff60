----------------------------- MODULE TtyRingProofs ---------------------------
(***************************************************************************)
(* The ring of Tty is a sequence at whose ends bytes are added and taken   *)
(* (RingGrows, RingErases, RingShrinks), and what these do to the bytes of *)
(* the entered lines, its front, and of the unfinished one, its back       *)
(* (SplitAppend, SplitWhole, SplitErase, SplitTake), for every size of it. *)
(* The remainders of the indices become differences first, where the       *)
(* provers can reckon with them.                                           *)
(***************************************************************************)
EXTENDS Tty, ListProofs, TLAPS

N == TTY_BUF_SIZE

Data == Byte \cup {LF}

(* Used and Held for a ring b with head h and tail t. *)
Dist(h, t) == (t - h + N) % N

Place(h, i) == (h + i - 1) % N

Ring(b, h, t) == [i \in 1..Dist(h, t) |-> b[Place(h, i)]]

(* The places after and before a place, and a byte stored. *)
Succ(x)      == (x + 1) % N
Pred(x)      == (IF x = 0 THEN N ELSE x) - 1
Put(b, t, x) == [b EXCEPT ![t] = x]

(* The size of a ring is a natural number. *)
LEMMA SizeType == N \in Nat /\ N >= 2
BY TtyAssumption DEF N

(* Less than N is its own remainder. *)
LEMMA ModSmall ==
    ASSUME NEW n \in Nat, n > 0, NEW x \in 0..(n - 1)
    PROVE  x % n = x
BY SMT

(* Between N and 2N the remainder is the difference. *)
LEMMA ModOnce ==
    ASSUME NEW n \in Nat, n > 0, NEW x \in n..(2 * n - 1)
    PROVE  x % n = x - n
BY SMT

(* A sum of an index and at most N, brought back into the ring. *)
LEMMA Wrap ==
    ASSUME NEW x \in 0..(2 * N - 1)
    PROVE  x % N = IF x < N THEN x ELSE x - N
<1>1. CASE x < N
  BY <1>1, SizeType, ModSmall
<1>2. CASE x >= N
  BY <1>2, SizeType, ModOnce
<1> QED BY <1>1, <1>2, SizeType

(* The number of bytes between two places of the ring. *)
LEMMA DistIs ==
    ASSUME NEW h \in Index, NEW t \in Index
    PROVE  /\ Dist(h, t) = IF h <= t THEN t - h ELSE t - h + N
           /\ Dist(h, t) \in 0..(N - 1)
<1>1. t - h + N \in 0..(2 * N - 1)
  BY SizeType DEF Index, N
<1> DEFINE x == t - h + N
<1>2. Dist(h, t) = x % N
  BY DEF Dist
<1> HIDE DEF x
<1>3. x % N = IF x < N THEN x ELSE x - N
  BY <1>1, Wrap DEF x
<1>4. Dist(h, t) = IF x < N THEN x ELSE x - N
  BY <1>2, <1>3
<1> QED BY <1>1, <1>4, SizeType DEF Index, N, x

(* The i-th byte from a place of the ring. *)
LEMMA PlaceIs ==
    ASSUME NEW h \in Index, NEW i \in 1..N
    PROVE  /\ Place(h, i) = IF h + i - 1 < N THEN h + i - 1 ELSE h + i - 1 - N
           /\ Place(h, i) \in Index
<1>1. h + i - 1 \in 0..(2 * N - 1)
  BY SizeType DEF Index, N
<1>2. Place(h, i) = IF h + i - 1 < N THEN h + i - 1 ELSE h + i - 1 - N
  <2> DEFINE x == h + i - 1
  <2>1. Place(h, i) = x % N
    BY DEF Place
  <2> HIDE DEF x
  <2>2. x % N = IF x < N THEN x ELSE x - N
    BY <1>1, Wrap DEF x
  <2>3. Place(h, i) = IF x < N THEN x ELSE x - N
    BY <2>1, <2>2
  <2>4. x = h + i - 1
    BY DEF x
  <2> QED BY <2>3, <2>4, SizeType DEF Index, N
<1> QED BY <1>2, SizeType DEF Index, N

(* The place after a place of the ring, and the place before it. *)
LEMMA NeighboursAre ==
    ASSUME NEW x \in Index
    PROVE  /\ Succ(x) = IF x + 1 < N THEN x + 1 ELSE 0
           /\ Succ(x) \in Index
           /\ Pred(x) = IF x = 0 THEN N - 1 ELSE x - 1
           /\ Pred(x) \in Index
<1>1. x + 1 \in 0..(2 * N - 1)
  BY SizeType DEF Index, N
<1>2. Succ(x) = IF x + 1 < N THEN x + 1 ELSE x + 1 - N
  <2> DEFINE y == x + 1
  <2>1. Succ(x) = y % N
    BY DEF Succ
  <2> HIDE DEF y
  <2>2. y % N = IF y < N THEN y ELSE y - N
    BY <1>1, Wrap DEF y
  <2>3. Succ(x) = IF y < N THEN y ELSE y - N
    BY <2>1, <2>2
  <2>4. y = x + 1
    BY DEF y
  <2> QED BY <2>3, <2>4, SizeType DEF Index, N
<1> QED BY <1>2, SizeType DEF Index, N, Pred

(* What a ring holds is a sequence. *)
LEMMA RingType ==
    ASSUME NEW S, NEW b \in [Index -> S], NEW h \in Index, NEW t \in Index
    PROVE  Ring(b, h, t) \in Seq(S) /\ Len(Ring(b, h, t)) = Dist(h, t)
<1> DEFINE n == Dist(h, t)
           r == Ring(b, h, t)
<1>1. n \in Nat /\ n < N
  BY DistIs, SizeType
<1>2. \A i \in 1..n : Place(h, i) \in Index
  BY <1>1, PlaceIs, SizeType
<1>3. r \in [1..n -> S]
  BY <1>2 DEF Ring
<1> HIDE DEF n
<1> QED BY <1>1, <1>3 DEF n

(* Its elements are those of the ring, from the head on. *)
LEMMA RingAt ==
    ASSUME NEW b, NEW h, NEW t, NEW i \in 1..Dist(h, t)
    PROVE  Ring(b, h, t)[i] = b[Place(h, i)]
BY DEF Ring

(* A byte stored at the tail of a ring that is not full is added at the    *)
(* end.                                                                    *)
LEMMA RingGrows ==
    ASSUME NEW S, NEW b \in [Index -> S], NEW h \in Index, NEW t \in Index,
           NEW x \in S, Succ(t) # h
    PROVE  /\ Dist(h, Succ(t)) = Dist(h, t) + 1
           /\ Ring(Put(b, t, x), h, Succ(t)) = Append(Ring(b, h, t), x)
<1> DEFINE c == Put(b, t, x)
           u == Succ(t)
           r == Ring(b, h, t)
           q == Ring(c, h, u)
           n == Dist(h, t)
<1>1. u \in Index /\ u = IF t + 1 < N THEN t + 1 ELSE 0
  BY NeighboursAre
<1>2. c \in [Index -> S] /\ \A k \in Index : c[k] = IF k = t THEN x ELSE b[k]
  BY DEF Put
<1>3. n = (IF h <= t THEN t - h ELSE t - h + N) /\ n \in 0..(N - 1)
  BY DistIs
<1>4. Dist(h, u) = IF h <= u THEN u - h ELSE u - h + N
  BY <1>1, DistIs
<1>5. Dist(h, u) = n + 1
  BY <1>1, <1>3, <1>4, SizeType DEF Index, N
<1>6. r \in Seq(S) /\ Len(r) = n
  BY RingType
<1>7. q \in Seq(S) /\ Len(q) = n + 1
  <2>1. u \in Index /\ c \in [Index -> S]
    BY <1>1, <1>2
  <2> HIDE DEF c, u
  <2>2. q \in Seq(S) /\ Len(q) = Dist(h, u)
    BY <2>1, RingType
  <2> QED BY <2>2, <1>5
<1>8. ASSUME NEW i \in 1..(n + 1)
      PROVE  q[i] = IF i = n + 1 THEN x ELSE r[i]
  <2>1. i \in 1..N
    BY <1>3, SizeType
  <2>2. /\ Place(h, i) = IF h + i - 1 < N THEN h + i - 1 ELSE h + i - 1 - N
        /\ Place(h, i) \in Index
    BY <2>1, PlaceIs
  <2>3. Place(h, i) = t <=> i = n + 1
    BY <2>1, <2>2, <1>3, SizeType DEF Index, N
  <2>4. q[i] = c[Place(h, i)]
    BY <1>5, RingAt
  <2>5. CASE i = n + 1
    BY <2>2, <2>3, <2>4, <2>5, <1>2
  <2>6. CASE i # n + 1
    <3>1. i \in 1..n
      BY <2>6, <1>3
    <3>2. r[i] = b[Place(h, i)]
      BY <3>1, RingAt
    <3> QED BY <2>2, <2>3, <2>4, <2>6, <3>2, <1>2
  <2> QED BY <2>5, <2>6
<1> HIDE DEF c, u, r, q, n
<1>9. /\ Append(r, x) \in Seq(S) /\ Len(Append(r, x)) = n + 1
      /\ \A i \in 1..(n + 1) : Append(r, x)[i] = IF i = n + 1 THEN x ELSE r[i]
  BY <1>6
<1>10. q = Append(r, x)
  BY <1>7, <1>8, <1>9
<1> QED BY <1>5, <1>10 DEF c, u, r, q, n

(* The tail moved back takes away the last byte.                           *)
LEMMA RingErases ==
    ASSUME NEW S, NEW b \in [Index -> S], NEW h \in Index, NEW t \in Index,
           h # t
    PROVE  /\ Dist(h, Pred(t)) = Dist(h, t) - 1
           /\ Ring(b, h, Pred(t)) = SubSeq(Ring(b, h, t), 1, Dist(h, t) - 1)
<1> DEFINE u == Pred(t)
           r == Ring(b, h, t)
           q == Ring(b, h, u)
           n == Dist(h, t)
<1>1. u \in Index /\ u = IF t = 0 THEN N - 1 ELSE t - 1
  BY NeighboursAre
<1>2. n = (IF h <= t THEN t - h ELSE t - h + N) /\ n \in 0..(N - 1)
  BY DistIs
<1>3. Dist(h, u) = IF h <= u THEN u - h ELSE u - h + N
  BY <1>1, DistIs
<1>4. Dist(h, u) = n - 1 /\ n > 0
  BY <1>1, <1>2, <1>3, SizeType DEF Index, N
<1>5. r \in Seq(S) /\ Len(r) = n
  BY RingType
<1>6. q \in Seq(S) /\ Len(q) = n - 1
  BY <1>1, <1>4, RingType
<1>7. ASSUME NEW i \in 1..(n - 1)
      PROVE  q[i] = r[i]
  <2>1. i \in 1..n
    BY <1>2
  <2>2. r[i] = b[Place(h, i)]
    BY <2>1, RingAt
  <2>3. q[i] = b[Place(h, i)]
    BY <1>4, RingAt
  <2> QED BY <2>2, <2>3
<1> HIDE DEF u, r, q, n
<1>8. /\ SubSeq(r, 1, n - 1) \in Seq(S) /\ Len(SubSeq(r, 1, n - 1)) = n - 1
      /\ \A i \in 1..(n - 1) : SubSeq(r, 1, n - 1)[i] = r[i]
  BY <1>2, <1>4, <1>5
<1>9. q = SubSeq(r, 1, n - 1)
  BY <1>6, <1>7, <1>8
<1> QED BY <1>4, <1>9 DEF u, r, q, n

(* The head moved on takes away the first byte.                            *)
LEMMA RingShrinks ==
    ASSUME NEW S, NEW b \in [Index -> S], NEW h \in Index, NEW t \in Index,
           h # t
    PROVE  /\ Dist(Succ(h), t) = Dist(h, t) - 1
           /\ Ring(b, Succ(h), t) = Tail(Ring(b, h, t))
           /\ Ring(b, h, t) # <<>> /\ Ring(b, h, t)[1] = b[h]
<1> DEFINE u == Succ(h)
           r == Ring(b, h, t)
           q == Ring(b, u, t)
           n == Dist(h, t)
<1>1. u \in Index /\ u = IF h + 1 < N THEN h + 1 ELSE 0
  BY NeighboursAre
<1>2. n = (IF h <= t THEN t - h ELSE t - h + N) /\ n \in 0..(N - 1)
  BY DistIs
<1>3. Dist(u, t) = IF u <= t THEN t - u ELSE t - u + N
  BY <1>1, DistIs
<1>4. Dist(u, t) = n - 1 /\ n > 0
  BY <1>1, <1>2, <1>3, SizeType DEF Index, N
<1>5. r \in Seq(S) /\ Len(r) = n
  BY RingType
<1>6. q \in Seq(S) /\ Len(q) = n - 1
  BY <1>1, <1>4, RingType
<1>7. ASSUME NEW i \in 1..(n - 1)
      PROVE  q[i] = r[i + 1]
  <2>1. i \in 1..N /\ i + 1 \in 1..N /\ i + 1 \in 1..n
    BY <1>2, SizeType
  <2>2. Place(u, i) = IF u + i - 1 < N THEN u + i - 1 ELSE u + i - 1 - N
    BY <2>1, <1>1, PlaceIs
  <2>3. Place(h, i + 1)
            = IF h + (i + 1) - 1 < N THEN h + (i + 1) - 1 ELSE h + (i + 1) - 1 - N
    BY <2>1, PlaceIs
  <2>4. Place(u, i) = Place(h, i + 1)
    BY <2>1, <2>2, <2>3, <1>1, SizeType DEF Index, N
  <2>5. q[i] = b[Place(u, i)]
    BY <1>4, RingAt
  <2>6. r[i + 1] = b[Place(h, i + 1)]
    BY <2>1, RingAt
  <2> QED BY <2>4, <2>5, <2>6
<1>8. r[1] = b[h]
  <2>1. Place(h, 1) = h
    BY PlaceIs, SizeType DEF Index, N
  <2>2. 1 \in 1..n
    BY <1>2, <1>4
  <2>3. r[1] = b[Place(h, 1)]
    BY <2>2, RingAt
  <2> QED BY <2>1, <2>3
<1> HIDE DEF u, r, q, n
<1>9. r # <<>>
  BY <1>4, <1>5
<1>10. /\ Tail(r) \in Seq(S) /\ Len(Tail(r)) = n - 1
       /\ \A i \in 1..(n - 1) : Tail(r)[i] = r[i + 1]
  BY <1>5, <1>9, SeqHeadTail
<1>11. \A i \in 1..(n - 1) : q[i] = Tail(r)[i]
  BY <1>7, <1>10
<1>12. q = Tail(r)
  BY <1>6, <1>10, <1>11
<1> QED BY <1>4, <1>8, <1>9, <1>12 DEF u, r, q, n

-----------------------------------------------------------------------------
(* The first bytes of h without the last c, and these. *)
Front(h, c) == SubSeq(h, 1, Len(h) - c)
Back(h, c)  == SubSeq(h, Len(h) - c + 1, Len(h))

(* Sequences with the same elements are the same. *)
LEMMA SameSeq ==
    ASSUME NEW S, NEW s \in Seq(S), NEW t \in Seq(S),
           Len(s) = Len(t), \A i \in 1..Len(s) : s[i] = t[i]
    PROVE  s = t
OBVIOUS

(* A sequence with an element added. *)
LEMMA Appended ==
    ASSUME NEW S, NEW h \in Seq(S), NEW x \in S
    PROVE  /\ Append(h, x) \in Seq(S) /\ Len(Append(h, x)) = Len(h) + 1
           /\ \A i \in 1..(Len(h) + 1) :
                 Append(h, x)[i] = IF i = Len(h) + 1 THEN x ELSE h[i]
OBVIOUS

(* They are sequences. *)
LEMMA SplitType ==
    ASSUME NEW S, NEW h \in Seq(S), NEW c \in 0..Len(h)
    PROVE  /\ Front(h, c) \in Seq(S) /\ Len(Front(h, c)) = Len(h) - c
           /\ \A i \in 1..(Len(h) - c) : Front(h, c)[i] = h[i]
           /\ Back(h, c) \in Seq(S) /\ Len(Back(h, c)) = c
           /\ \A i \in 1..c : Back(h, c)[i] = h[Len(h) - c + i]
<1> DEFINE n == Len(h)
<1>1. n \in Nat /\ \A i \in 1..n : h[i] \in S
  BY SeqLength
<1>2. /\ SubSeq(h, 1, n - c) \in Seq(S) /\ Len(SubSeq(h, 1, n - c)) = n - c
      /\ \A i \in 1..(n - c) : SubSeq(h, 1, n - c)[i] = h[i]
  BY <1>1
<1>3. /\ SubSeq(h, n - c + 1, n) \in Seq(S) /\ Len(SubSeq(h, n - c + 1, n)) = c
      /\ \A i \in 1..c : SubSeq(h, n - c + 1, n)[i] = h[n - c + i]
  BY <1>1
<1> QED BY <1>2, <1>3 DEF Front, Back

(* A byte added joins the last ones. *)
LEMMA SplitAppend ==
    ASSUME NEW S, NEW h \in Seq(S), NEW c \in 0..Len(h), NEW x \in S
    PROVE  /\ Front(Append(h, x), c + 1) = Front(h, c)
           /\ Back(Append(h, x), c + 1) = Append(Back(h, c), x)
<1> DEFINE n == Len(h)
           k == Append(h, x)
<1>1. n \in Nat
  OBVIOUS
<1>2. /\ k \in Seq(S) /\ Len(k) = n + 1
      /\ \A i \in 1..(n + 1) : k[i] = IF i = n + 1 THEN x ELSE h[i]
  OBVIOUS
<1> HIDE DEF k
<1>3. c + 1 \in 0..Len(k)
  BY <1>1, <1>2
<1>4. /\ Front(h, c) \in Seq(S) /\ Len(Front(h, c)) = n - c
      /\ \A i \in 1..(n - c) : Front(h, c)[i] = h[i]
      /\ Back(h, c) \in Seq(S) /\ Len(Back(h, c)) = c
      /\ \A i \in 1..c : Back(h, c)[i] = h[n - c + i]
  BY SplitType
<1>5. /\ Front(k, c + 1) \in Seq(S) /\ Len(Front(k, c + 1)) = Len(k) - (c + 1)
      /\ \A i \in 1..(Len(k) - (c + 1)) : Front(k, c + 1)[i] = k[i]
      /\ Back(k, c + 1) \in Seq(S) /\ Len(Back(k, c + 1)) = c + 1
      /\ \A i \in 1..(c + 1) : Back(k, c + 1)[i] = k[Len(k) - (c + 1) + i]
  BY <1>2, <1>3, SplitType
<1>6. Front(k, c + 1) = Front(h, c)
  <2>1. Len(Front(k, c + 1)) = n - c
    BY <1>1, <1>2, <1>5
  <2>2. \A i \in 1..(n - c) : Front(k, c + 1)[i] = Front(h, c)[i]
    <3> TAKE i \in 1..(n - c)
    <3>1. i \in 1..(Len(k) - (c + 1)) /\ i \in 1..(n + 1) /\ i # n + 1
      BY <1>1, <1>2
    <3>2. Front(k, c + 1)[i] = h[i]
      BY <3>1, <1>2, <1>5
    <3> QED BY <3>2, <1>4
  <2> QED BY <2>1, <2>2, <1>4, <1>5, SameSeq
<1>7. Back(k, c + 1) = Append(Back(h, c), x)
  <2> DEFINE a == Append(Back(h, c), x)
  <2>1. /\ a \in Seq(S) /\ Len(a) = c + 1
        /\ \A i \in 1..(c + 1) : a[i] = IF i = c + 1 THEN x ELSE Back(h, c)[i]
    <3> DEFINE b == Back(h, c)
    <3>1. b \in Seq(S) /\ Len(b) = c
      BY <1>4
    <3> HIDE DEF b
    <3>2. /\ Append(b, x) \in Seq(S) /\ Len(Append(b, x)) = c + 1
          /\ \A i \in 1..(c + 1) : Append(b, x)[i] = IF i = c + 1 THEN x ELSE b[i]
      BY <3>1, Appended
    <3> QED BY <3>2 DEF b
  <2> HIDE DEF a
  <2>2. \A i \in 1..(c + 1) : Back(k, c + 1)[i] = a[i]
    <3> TAKE i \in 1..(c + 1)
    <3>0. Len(k) - (c + 1) + i = n - c + i /\ n - c + i \in 1..(n + 1)
      BY <1>1, <1>2
    <3>1. Back(k, c + 1)[i] = k[n - c + i] /\ n - c + i \in 1..(n + 1)
      BY <3>0, <1>5
    <3>2. CASE i = c + 1
      BY <3>1, <3>2, <2>1, <1>1, <1>2
    <3>3. CASE i # c + 1
      <4>1. k[n - c + i] = h[n - c + i]
        BY <3>1, <3>3, <1>1, <1>2
      <4> QED BY <3>1, <3>3, <4>1, <2>1, <1>4
    <3> QED BY <3>2, <3>3
  <2> QED BY <2>1, <2>2, <1>5, SameSeq DEF a
<1> QED BY <1>6, <1>7 DEF k

(* The two parts make up the whole. *)
LEMMA SplitWhole ==
    ASSUME NEW S, NEW h \in Seq(S), NEW c \in 0..Len(h)
    PROVE  Front(h, 0) = h /\ Back(h, 0) = <<>> /\ h = Front(h, c) \o Back(h, c)
<1> DEFINE n == Len(h)
<1>1. n \in Nat /\ 0 \in 0..n
  OBVIOUS
<1>2. /\ Front(h, 0) \in Seq(S) /\ Len(Front(h, 0)) = n - 0
      /\ \A i \in 1..(n - 0) : Front(h, 0)[i] = h[i]
      /\ Back(h, 0) \in Seq(S) /\ Len(Back(h, 0)) = 0
  BY <1>1, SplitType
<1>3. Front(h, 0) = h
  BY <1>1, <1>2
<1>4. Back(h, 0) = <<>>
  BY <1>2
<1>5. /\ Front(h, c) \in Seq(S) /\ Len(Front(h, c)) = n - c
      /\ \A i \in 1..(n - c) : Front(h, c)[i] = h[i]
      /\ Back(h, c) \in Seq(S) /\ Len(Back(h, c)) = c
      /\ \A i \in 1..c : Back(h, c)[i] = h[n - c + i]
  BY SplitType
<1>6. h = Front(h, c) \o Back(h, c)
  <2> DEFINE a == Front(h, c) \o Back(h, c)
  <2>1. /\ a \in Seq(S) /\ Len(a) = (n - c) + c
        /\ \A i \in 1..((n - c) + c) :
              a[i] = IF i <= n - c THEN Front(h, c)[i] ELSE Back(h, c)[i - (n - c)]
    <3> DEFINE e == Front(h, c)
               b == Back(h, c)
    <3>1. e \in Seq(S) /\ Len(e) = n - c /\ b \in Seq(S) /\ Len(b) = c
      BY <1>5
    <3> HIDE DEF e, b
    <3>2. /\ e \o b \in Seq(S) /\ Len(e \o b) = (n - c) + c
          /\ \A i \in 1..((n - c) + c) :
                (e \o b)[i] = IF i <= n - c THEN e[i] ELSE b[i - (n - c)]
      BY <3>1
    <3> QED BY <3>2 DEF e, b
  <2> HIDE DEF a
  <2>2. Len(a) = n
    BY <1>1, <2>1
  <2>3. \A i \in 1..n : a[i] = h[i]
    <3> TAKE i \in 1..n
    <3>1. CASE i <= n - c
      BY <3>1, <1>1, <1>5, <2>1
    <3>2. CASE i > n - c
      <4>1. i - (n - c) \in 1..c /\ n - c + (i - (n - c)) = i
        BY <3>2, <1>1
      <4>2. Back(h, c)[i - (n - c)] = h[i]
        BY <4>1, <1>5
      <4> QED BY <3>2, <4>2, <1>1, <2>1
    <3> QED BY <3>1, <3>2, <1>1
  <2> QED BY <2>1, <2>2, <2>3, SameSeq DEF a
<1> QED BY <1>3, <1>4, <1>6

(* The last byte taken away is one of the last ones. *)
LEMMA SplitErase ==
    ASSUME NEW S, NEW h \in Seq(S), NEW c \in 1..Len(h)
    PROVE  LET k == SubSeq(h, 1, Len(h) - 1)
               b == Back(h, c)
           IN  /\ Front(k, c - 1) = Front(h, c)
               /\ Back(k, c - 1) = SubSeq(b, 1, Len(b) - 1)
<1> DEFINE n == Len(h)
           k == SubSeq(h, 1, n - 1)
           b == Back(h, c)
           d == SubSeq(b, 1, c - 1)
<1>1. n \in Nat /\ n > 0 /\ c \in 0..n
  BY SeqLength
<1>2. /\ k \in Seq(S) /\ Len(k) = n - 1 /\ \A i \in 1..(n - 1) : k[i] = h[i]
  <2>1. 1 \in 0..n
    BY <1>1
  <2>2. /\ Front(h, 1) \in Seq(S) /\ Len(Front(h, 1)) = n - 1
        /\ \A i \in 1..(n - 1) : Front(h, 1)[i] = h[i]
    BY <2>1, SplitType
  <2> QED BY <2>2 DEF Front
<1>3. /\ Front(h, c) \in Seq(S) /\ Len(Front(h, c)) = n - c
      /\ \A i \in 1..(n - c) : Front(h, c)[i] = h[i]
      /\ b \in Seq(S) /\ Len(b) = c
      /\ \A i \in 1..c : b[i] = h[n - c + i]
  BY <1>1, SplitType
<1> HIDE DEF k, b
<1>4. /\ d \in Seq(S) /\ Len(d) = c - 1 /\ \A i \in 1..(c - 1) : d[i] = b[i]
  BY <1>3, SplitType DEF Front
<1> HIDE DEF d
<1>5. c - 1 \in 0..Len(k)
  BY <1>1, <1>2
<1>6. /\ Front(k, c - 1) \in Seq(S) /\ Len(Front(k, c - 1)) = Len(k) - (c - 1)
      /\ \A i \in 1..(Len(k) - (c - 1)) : Front(k, c - 1)[i] = k[i]
      /\ Back(k, c - 1) \in Seq(S) /\ Len(Back(k, c - 1)) = c - 1
      /\ \A i \in 1..(c - 1) : Back(k, c - 1)[i] = k[Len(k) - (c - 1) + i]
  BY <1>2, <1>5, SplitType
<1>7. Front(k, c - 1) = Front(h, c)
  <2>0. Len(k) - (c - 1) = n - c
    BY <1>1, <1>2
  <2>1. Len(Front(k, c - 1)) = n - c
    BY <2>0, <1>6
  <2>2. \A i \in 1..(n - c) : Front(k, c - 1)[i] = Front(h, c)[i]
    BY <1>1, <1>2, <1>3, <1>6
  <2>3. Front(h, c) \in Seq(S) /\ Len(Front(h, c)) = n - c
    BY <1>3
  <2>4. Front(k, c - 1) \in Seq(S)
    BY <1>6
  <2> QED BY <2>1, <2>2, <2>3, <2>4, SameSeq
<1>8. Back(k, c - 1) = d
  <2>1. \A i \in 1..(c - 1) : Back(k, c - 1)[i] = d[i]
    <3> TAKE i \in 1..(c - 1)
    <3>1. Back(k, c - 1)[i] = k[n - c + i] /\ n - c + i \in 1..(n - 1)
      BY <1>1, <1>2, <1>6
    <3>2. d[i] = h[n - c + i]
      BY <1>1, <1>3, <1>4
    <3> QED BY <3>1, <3>2, <1>2
  <2> QED BY <2>1, <1>4, <1>6
<1> QED BY <1>3, <1>7, <1>8 DEF k, b, d

(* The first byte taken away is one of the first ones. *)
LEMMA SplitTake ==
    ASSUME NEW S, NEW h \in Seq(S), NEW c \in 0..Len(h), c < Len(h)
    PROVE  LET f == Front(h, c)
           IN  /\ f # <<>> /\ Head(f) = h[1]
               /\ Front(Tail(h), c) = Tail(f)
               /\ Back(Tail(h), c) = Back(h, c)
<1> DEFINE n == Len(h)
           k == Tail(h)
           f == Front(h, c)
<1>1. n \in Nat /\ n > 0 /\ h # <<>>
  BY SeqLength
<1>2. /\ k \in Seq(S) /\ Len(k) = n - 1 /\ \A i \in 1..(n - 1) : k[i] = h[i + 1]
  BY <1>1, SeqHeadTail
<1>3. /\ f \in Seq(S) /\ Len(f) = n - c
      /\ \A i \in 1..(n - c) : f[i] = h[i]
      /\ Back(h, c) \in Seq(S) /\ Len(Back(h, c)) = c
      /\ \A i \in 1..c : Back(h, c)[i] = h[n - c + i]
  BY SplitType
<1> HIDE DEF k, f
<1>4. c \in 0..Len(k)
  BY <1>1, <1>2
<1>5. /\ Front(k, c) \in Seq(S) /\ Len(Front(k, c)) = Len(k) - c
      /\ \A i \in 1..(Len(k) - c) : Front(k, c)[i] = k[i]
      /\ Back(k, c) \in Seq(S) /\ Len(Back(k, c)) = c
      /\ \A i \in 1..c : Back(k, c)[i] = k[Len(k) - c + i]
  BY <1>2, <1>4, SplitType
<1>6. f # <<>>
  BY <1>1, <1>3
<1>7. /\ Head(f) = f[1] /\ Tail(f) \in Seq(S) /\ Len(Tail(f)) = n - c - 1
      /\ \A i \in 1..(n - c - 1) : Tail(f)[i] = f[i + 1]
  BY <1>3, <1>6, SeqHeadTail
<1>8. Head(f) = h[1]
  BY <1>1, <1>3, <1>7
<1>9. Front(k, c) = Tail(f)
  <2>1. Len(Front(k, c)) = n - c - 1
    BY <1>1, <1>2, <1>5
  <2>2. \A i \in 1..(n - c - 1) : Front(k, c)[i] = Tail(f)[i]
    <3> TAKE i \in 1..(n - c - 1)
    <3>0. i \in 1..(Len(k) - c) /\ i \in 1..(n - 1)
      BY <1>1, <1>2
    <3>1. Front(k, c)[i] = h[i + 1]
      BY <3>0, <1>2, <1>5
    <3>2. i + 1 \in 1..(n - c)
      BY <1>1
    <3> QED BY <3>1, <3>2, <1>3, <1>7
  <2> QED BY <2>1, <2>2, <1>5, <1>7, SameSeq
<1>10. Back(k, c) = Back(h, c)
  <2>1. \A i \in 1..c : Back(k, c)[i] = Back(h, c)[i]
    <3> TAKE i \in 1..c
    <3>0. Len(k) - c + i = n - 1 - c + i /\ n - 1 - c + i \in 1..(n - 1)
      BY <1>1, <1>2
    <3>1. Back(k, c)[i] = k[n - 1 - c + i] /\ n - 1 - c + i \in 1..(n - 1)
      BY <3>0, <1>5
    <3>2. k[n - 1 - c + i] = h[n - 1 - c + i + 1]
      BY <3>1, <1>2
    <3>3. n - 1 - c + i + 1 = n - c + i
      BY <1>1
    <3> QED BY <3>1, <3>2, <3>3, <1>3
  <2> QED BY <2>1, <1>3, <1>5
<1> QED BY <1>6, <1>8, <1>9, <1>10 DEF k, f
=============================================================================

----------------------------- MODULE ListProofs -----------------------------
(***************************************************************************)
(* What the list operations do to the entries of a list, for lists of any  *)
(* length.  Every operation puts one entry in at some place, or takes one  *)
(* out, so all the facts follow from those about `Inserted'.               *)
(***************************************************************************)
EXTENDS List, TLAPS

(* The length of a sequence, and its elements. *)
LEMMA SeqLength ==
    ASSUME NEW S, NEW q \in Seq(S)
    PROVE  /\ Len(q) \in Nat /\ DOMAIN q = 1..Len(q)
           /\ q \in [1..Len(q) -> S]
           /\ q # <<>> => Len(q) > 0
OBVIOUS

(* The first element of a sequence, and the rest. *)
LEMMA SeqHeadTail ==
    ASSUME NEW S, NEW q \in Seq(S), q # <<>>
    PROVE  /\ Head(q) \in S /\ Head(q) = q[1]
           /\ Tail(q) \in Seq(S) /\ Len(Tail(q)) = Len(q) - 1
           /\ \A j \in 1..Len(Tail(q)) : Tail(q)[j] = q[j + 1]
BY SeqLength

(* r is q with x put in at place i. *)
Inserted(q, r, i, x) ==
    /\ Len(q) \in Nat /\ DOMAIN q = 1..Len(q)
    /\ DOMAIN r = 1..(Len(q) + 1)
    /\ i \in 1..(Len(q) + 1)
    /\ \A j \in 1..(Len(q) + 1) :
          r[j] = IF j < i THEN q[j] ELSE IF j = i THEN x ELSE q[j - 1]

(* Putting x in at any place adds x, and only x, to the entries. *)
LEMMA InsertedEntries ==
    ASSUME NEW q, NEW r, NEW i, NEW x, Inserted(q, r, i, x)
    PROVE  Range(r) = Range(q) \cup {x}
<1> DEFINE n == Len(q)
<1>0. n \in Nat /\ i \in 1..(n + 1) /\ DOMAIN q = 1..n /\ DOMAIN r = 1..(n + 1)
  BY DEF Inserted
<1>1. \A j \in 1..(n + 1) : r[j] = IF j < i THEN q[j] ELSE IF j = i THEN x ELSE q[j - 1]
  BY DEF Inserted
<1> HIDE DEF n
<1>2. ASSUME NEW y \in Range(r) PROVE y \in Range(q) \cup {x}
  <2>1. PICK j \in 1..(n + 1) : y = r[j]
    BY <1>0 DEF Range
  <2>2. CASE j < i
    <3>1. j \in 1..n /\ y = q[j]
      BY <1>0, <1>1, <2>1, <2>2
    <3> QED BY <1>0, <3>1 DEF Range
  <2>3. CASE j = i
    BY <1>1, <2>1, <2>3
  <2>4. CASE j > i
    <3>1. j - 1 \in 1..n /\ y = q[j - 1]
      BY <1>0, <1>1, <2>1, <2>4
    <3> QED BY <1>0, <3>1 DEF Range
  <2> QED BY <1>0, <2>1, <2>2, <2>3, <2>4
<1>3. ASSUME NEW y \in Range(q) PROVE y \in Range(r)
  <2>1. PICK j \in 1..n : y = q[j]
    BY <1>0 DEF Range
  <2>2. CASE j < i
    <3>1. j \in 1..(n + 1) /\ y = r[j]
      BY <1>0, <1>1, <2>1, <2>2
    <3> QED BY <1>0, <3>1 DEF Range
  <2>3. CASE j >= i
    <3>1. j + 1 \in 1..(n + 1) /\ ~(j + 1 < i) /\ j + 1 # i /\ (j + 1) - 1 = j
      BY <1>0, <2>1, <2>3
    <3>2. y = r[j + 1]
      BY <1>1, <2>1, <3>1
    <3> QED BY <1>0, <3>1, <3>2 DEF Range
  <2> QED BY <1>0, <2>1, <2>2, <2>3
<1>4. x \in Range(r)
  <2>1. i \in 1..(n + 1) /\ r[i] = x
    BY <1>0, <1>1
  <2> QED BY <1>0, <2>1 DEF Range
<1> QED BY <1>2, <1>3, <1>4

(* The entries stay distinct exactly when x was not one of them. *)
LEMMA InsertedDistinct ==
    ASSUME NEW q, NEW r, NEW i, NEW x, Inserted(q, r, i, x)
    PROVE  IsList(r) <=> IsList(q) /\ x \notin Range(q)
<1> DEFINE n == Len(q)
           up(j) == IF j < i THEN j ELSE j + 1
<1>0. n \in Nat /\ i \in 1..(n + 1) /\ DOMAIN q = 1..n /\ DOMAIN r = 1..(n + 1)
  BY DEF Inserted
<1>1. \A j \in 1..(n + 1) : r[j] = IF j < i THEN q[j] ELSE IF j = i THEN x ELSE q[j - 1]
  BY DEF Inserted
<1> HIDE DEF n
<1>2. \A j \in 1..n : up(j) \in 1..(n + 1) /\ up(j) # i /\ r[up(j)] = q[j]
  <2> TAKE j \in 1..n
  <2>1. CASE j < i
    BY <1>0, <1>1, <2>1
  <2>2. CASE j >= i
    <3>1. j + 1 \in 1..(n + 1) /\ ~(j + 1 < i) /\ j + 1 # i /\ (j + 1) - 1 = j
      BY <1>0, <2>2
    <3> QED BY <1>0, <1>1, <2>2, <3>1
  <2> QED BY <1>0, <2>1, <2>2
<1>3. \A j, k \in 1..n : up(j) = up(k) => j = k
  BY <1>0
<1>4. \A j \in 1..(n + 1) : j # i => \E k \in 1..n : up(k) = j
  <2> TAKE j \in 1..(n + 1)
  <2> HAVE j # i
  <2>1. CASE j < i
    <3>1. j \in 1..n /\ up(j) = j
      BY <1>0, <2>1
    <3> QED BY <3>1
  <2>2. CASE j > i
    <3>1. j - 1 \in 1..n /\ up(j - 1) = j
      BY <1>0, <2>2
    <3> QED BY <3>1
  <2> QED BY <1>0, <2>1, <2>2
<1>5. r[i] = x
  BY <1>0, <1>1
<1> HIDE DEF up
<1>6. ASSUME IsList(r) PROVE IsList(q) /\ x \notin Range(q)
  <2>1. ASSUME NEW j \in 1..n, NEW k \in 1..n, q[j] = q[k] PROVE j = k
    <3>1. up(j) = up(k)
      BY <1>0, <1>2, <1>6, <2>1 DEF IsList, IsInjective
    <3> QED BY <1>3, <3>1
  <2>2. ASSUME NEW j \in 1..n, q[j] = x PROVE FALSE
    BY <1>0, <1>2, <1>5, <1>6, <2>2 DEF IsList, IsInjective
  <2> QED BY <1>0, <2>1, <2>2 DEF IsList, IsInjective, Range
<1>7. ASSUME IsList(q), x \notin Range(q) PROVE IsList(r)
  <2>1. ASSUME NEW j \in 1..(n + 1), NEW k \in 1..(n + 1), r[j] = r[k] PROVE j = k
    <3>1. CASE j = i /\ k = i
      BY <3>1
    <3>2. CASE j = i /\ k # i
      <4>1. PICK k1 \in 1..n : up(k1) = k
        BY <1>4, <3>2
      <4> QED BY <1>0, <1>2, <1>5, <1>7, <2>1, <3>2, <4>1 DEF Range
    <3>3. CASE j # i /\ k = i
      <4>1. PICK j1 \in 1..n : up(j1) = j
        BY <1>4, <3>3
      <4> QED BY <1>0, <1>2, <1>5, <1>7, <2>1, <3>3, <4>1 DEF Range
    <3>4. CASE j # i /\ k # i
      <4>1. PICK j1 \in 1..n : up(j1) = j
        BY <1>4, <3>4
      <4>2. PICK k1 \in 1..n : up(k1) = k
        BY <1>4, <3>4
      <4>3. q[j1] = q[k1]
        BY <1>2, <2>1, <4>1, <4>2
      <4> QED BY <1>0, <1>7, <4>1, <4>2, <4>3 DEF IsList, IsInjective
    <3> QED BY <3>1, <3>2, <3>3, <3>4
  <2> QED BY <1>0, <2>1 DEF IsList, IsInjective
<1> QED BY <1>6, <1>7

(* list_push_front *)
LEMMA PushFront ==
    ASSUME NEW S, NEW q \in Seq(S), NEW x \in S
    PROVE  LET r == list_push_front(q, x)
           IN  /\ r \in Seq(S) /\ Len(r) = Len(q) + 1 /\ Head(r) = x
               /\ Range(r) = Range(q) \cup {x}
               /\ IsList(r) <=> IsList(q) /\ x \notin Range(q)
<1> DEFINE r == <<x>> \o q
<1>1. /\ r \in Seq(S) /\ Len(r) = Len(q) + 1 /\ Head(r) = x
      /\ \A j \in 1..(Len(q) + 1) : r[j] = IF j = 1 THEN x ELSE q[j - 1]
  OBVIOUS
<1>2. Inserted(q, r, 1, x)
  <2>1. Len(q) \in Nat /\ DOMAIN q = 1..Len(q) /\ DOMAIN r = 1..(Len(q) + 1)
    BY <1>1, SeqLength
  <2> HIDE DEF r
  <2> QED BY <1>1, <2>1 DEF Inserted
<1> HIDE DEF r
<1>3. list_push_front(q, x) = r
  BY DEF list_push_front, r
<1> QED BY <1>1, <1>2, <1>3, InsertedEntries, InsertedDistinct

(* list_push_back *)
LEMMA PushBack ==
    ASSUME NEW S, NEW q \in Seq(S), NEW x \in S
    PROVE  LET r == list_push_back(q, x)
           IN  /\ r \in Seq(S) /\ Len(r) = Len(q) + 1
               /\ Range(r) = Range(q) \cup {x}
               /\ IsList(r) <=> IsList(q) /\ x \notin Range(q)
<1> DEFINE r == Append(q, x)
<1>1. /\ r \in Seq(S) /\ Len(r) = Len(q) + 1
      /\ \A j \in 1..(Len(q) + 1) : r[j] = IF j = Len(q) + 1 THEN x ELSE q[j]
  OBVIOUS
<1>2. Inserted(q, r, Len(q) + 1, x)
  <2>1. Len(q) \in Nat /\ DOMAIN q = 1..Len(q) /\ DOMAIN r = 1..(Len(q) + 1)
    BY <1>1, SeqLength
  <2> HIDE DEF r
  <2> QED BY <1>1, <2>1 DEF Inserted
<1> HIDE DEF r
<1>3. list_push_back(q, x) = r
  BY DEF list_push_back, r
<1> QED BY <1>1, <1>2, <1>3, InsertedEntries, InsertedDistinct

(* list_insert *)
LEMMA InsertEntry ==
    ASSUME NEW S, NEW q \in Seq(S), NEW x \in S, NEW i \in 1..(Len(q) + 1)
    PROVE  LET r == list_insert(q, i, x)
           IN  /\ r \in Seq(S) /\ Len(r) = Len(q) + 1
               /\ Range(r) = Range(q) \cup {x}
               /\ IsList(r) <=> IsList(q) /\ x \notin Range(q)
<1> DEFINE r == list_insert(q, i, x)
<1>0. Len(q) \in Nat /\ DOMAIN q = 1..Len(q) /\ \A j \in 1..Len(q) : q[j] \in S
  BY SeqLength
<1>1. /\ DOMAIN r = 1..(Len(q) + 1)
      /\ \A j \in 1..(Len(q) + 1) :
            r[j] = IF j < i THEN q[j] ELSE IF j = i THEN x ELSE q[j - 1]
  BY DEF list_insert
<1>2. r \in [1..(Len(q) + 1) -> S]
  <2>1. \A j \in 1..(Len(q) + 1) :
           (IF j < i THEN q[j] ELSE IF j = i THEN x ELSE q[j - 1]) \in S
    BY <1>0
  <2> QED BY <2>1 DEF list_insert
<1>3. r \in Seq(S) /\ Len(r) = Len(q) + 1
  <2> HIDE DEF r
  <2>1. Len(q) + 1 \in Nat
    BY <1>0
  <2> QED BY <1>2, <2>1
<1>4. Inserted(q, r, i, x)
  <2> HIDE DEF r
  <2> QED BY <1>0, <1>1 DEF Inserted
<1> HIDE DEF r
<1> QED BY <1>3, <1>4, InsertedEntries, InsertedDistinct DEF r

(* list_pop_front of a list that is not empty. *)
LEMMA PopFront ==
    ASSUME NEW S, NEW q \in Seq(S), q # <<>>
    PROVE  LET r == list_pop_front(q)
           IN  /\ Head(q) \in S /\ r \in Seq(S) /\ Len(r) = Len(q) - 1
               /\ Head(q) \in Range(q)
               /\ Range(q) = Range(r) \cup {Head(q)}
               /\ IsList(q) <=> IsList(r) /\ Head(q) \notin Range(r)
<1> DEFINE r == Tail(q)
<1>0. Len(q) \in Nat /\ Len(q) > 0 /\ DOMAIN q = 1..Len(q)
  BY SeqLength
<1>1. /\ r \in Seq(S) /\ Len(r) = Len(q) - 1 /\ Head(q) \in S /\ Head(q) = q[1]
      /\ \A j \in 1..Len(r) : r[j] = q[j + 1]
  BY SeqHeadTail, <1>0
<1>2. Inserted(r, q, 1, Head(q))
  <2>1. Len(r) \in Nat /\ DOMAIN r = 1..Len(r)
    BY <1>1, SeqLength
  <2>2. DOMAIN q = 1..(Len(r) + 1)
    BY <1>0, <1>1
  <2> HIDE DEF r
  <2>3. ASSUME NEW j \in 1..(Len(r) + 1), j # 1 PROVE q[j] = r[j - 1]
    <3>1. j - 1 \in 1..Len(r) /\ (j - 1) + 1 = j
      BY <2>1, <2>3
    <3> QED BY <1>1, <3>1
  <2> QED BY <1>1, <2>1, <2>2, <2>3 DEF Inserted
<1> HIDE DEF r
<1>3. list_pop_front(q) = r
  BY DEF list_pop_front, r
<1> QED BY <1>1, <1>2, <1>3, InsertedEntries, InsertedDistinct

(* list_remove of an entry; of anything else it changes nothing. *)
LEMMA RemoveEntry ==
    ASSUME NEW S, NEW q \in Seq(S), NEW x
    PROVE  /\ list_remove(q, x) \in Seq(S)
           /\ x \in Range(q) => Len(list_remove(q, x)) = Len(q) - 1
           /\ x \notin Range(q) => list_remove(q, x) = q
           /\ IsList(q) => /\ IsList(list_remove(q, x))
                           /\ Range(list_remove(q, x)) = Range(q) \ {x}
<1>1. CASE x \notin Range(q)
  <2>1. list_remove(q, x) = q /\ Range(q) = Range(q) \ {x}
    BY <1>1 DEF list_remove
  <2> QED BY <1>1, <2>1
<1>2. CASE x \in Range(q)
  <2> DEFINE r == list_remove(q, x)
             p == Position(q, x)
             n == Len(q) - 1
  <2>0. Len(q) \in Nat /\ DOMAIN q = 1..Len(q) /\ \A j \in 1..Len(q) : q[j] \in S
    BY SeqLength
  <2>1. p \in 1..Len(q) /\ q[p] = x
    <3>1. \E j \in 1..Len(q) : q[j] = x
      BY <1>2, <2>0 DEF Range
    <3> QED BY <3>1 DEF Position
  <2>2. n \in Nat /\ Len(q) = n + 1
    BY <2>0, <2>1
  <2>3. r = [j \in 1..n |-> IF j < p THEN q[j] ELSE q[j + 1]]
    BY <1>2 DEF list_remove
  <2> HIDE DEF r, p, n
  <2>4. r \in [1..n -> S]
    BY <2>0, <2>2, <2>3
  <2>5. r \in Seq(S) /\ Len(r) = n
    BY <2>2, <2>4
  <2>6. Inserted(r, q, p, x)
    <3>1. ASSUME NEW j \in 1..(n + 1)
          PROVE  q[j] = IF j < p THEN r[j] ELSE IF j = p THEN x ELSE r[j - 1]
      <4>1. CASE j < p
        BY <2>1, <2>2, <2>3, <4>1
      <4>2. CASE j = p
        BY <2>1, <4>2
      <4>3. CASE j > p
        <5>1. j - 1 \in 1..n /\ ~(j - 1 < p) /\ (j - 1) + 1 = j
          BY <2>1, <2>2, <4>3
        <5> QED BY <2>1, <2>3, <4>3, <5>1
      <4> QED BY <2>1, <4>1, <4>2, <4>3
    <3> QED BY <2>0, <2>1, <2>2, <2>4, <2>5, <3>1 DEF Inserted
  <2>7. Range(q) = Range(r) \cup {x} /\ (IsList(q) <=> IsList(r) /\ x \notin Range(r))
    BY <2>6, InsertedEntries, InsertedDistinct
  <2>8. IsList(q) => IsList(r) /\ Range(r) = Range(q) \ {x}
    BY <2>7
  <2>9. Len(r) = Len(q) - 1
    BY <2>0, <2>2, <2>5
  <2> QED BY <1>2, <2>5, <2>8, <2>9 DEF r
<1> QED BY <1>1, <1>2

(* What was pushed to the front can be taken out again: nothing is left of *)
(* the two operations.                                                     *)
LEMMA RemovePushed ==
    ASSUME NEW S, NEW q \in Seq(S), NEW x \in S, x \notin Range(q)
    PROVE  list_remove(list_push_front(q, x), x) = q
<1> DEFINE r == list_push_front(q, x)
<1>1. r \in Seq(S) /\ Len(r) = Len(q) + 1 /\ x \in Range(r)
  BY PushFront
<1>2. \A j \in 1..(Len(q) + 1) : r[j] = IF j = 1 THEN x ELSE q[j - 1]
  BY DEF list_push_front
<1>3. Len(q) \in Nat /\ DOMAIN q = 1..Len(q) /\ DOMAIN r = 1..Len(r)
  BY <1>1, SeqLength
<1> HIDE DEF r
<1>4. Position(r, x) = 1
  <2>1. ASSUME NEW j \in 1..Len(r), r[j] = x PROVE j = 1
    <3>1. SUFFICES ASSUME j # 1 PROVE FALSE
      OBVIOUS
    <3>2. j - 1 \in 1..Len(q) /\ q[j - 1] = x
      BY <1>1, <1>2, <1>3, <2>1, <3>1
    <3> QED BY <1>3, <3>2 DEF Range
  <2>2. 1 \in 1..Len(r) /\ r[1] = x
    BY <1>1, <1>2, <1>3
  <2> QED BY <2>1, <2>2 DEF Position
<1>5. list_remove(r, x) = [j \in 1..Len(q) |-> q[j]]
  <2>1. list_remove(r, x) = [j \in 1..(Len(r) - 1) |-> IF j < 1 THEN r[j] ELSE r[j + 1]]
    BY <1>1, <1>4 DEF list_remove
  <2>2. Len(r) - 1 = Len(q)
    BY <1>1, <1>3
  <2>3. \A j \in 1..Len(q) : (IF j < 1 THEN r[j] ELSE r[j + 1]) = q[j]
    <3> TAKE j \in 1..Len(q)
    <3>1. j + 1 \in 1..(Len(q) + 1) /\ j + 1 # 1 /\ (j + 1) - 1 = j /\ ~(j < 1)
      BY <1>3
    <3> QED BY <1>2, <3>1
  <2> QED BY <2>1, <2>2, <2>3
<1>6. q = [j \in 1..Len(q) |-> q[j]]
  BY <1>3
<1> QED BY <1>5, <1>6 DEF r

(* A list with an entry is not empty. *)
LEMMA NotEmpty ==
    ASSUME NEW q, NEW x, x \in Range(q)
    PROVE  ~list_empty(q)
BY DEF Range, list_empty

(* An entry of a list of S is in S. *)
LEMMA EntryType ==
    ASSUME NEW S, NEW q \in Seq(S), NEW x \in Range(q)
    PROVE  x \in S
<1>1. DOMAIN q = 1..Len(q) /\ \A j \in 1..Len(q) : q[j] \in S
  BY SeqLength
<1> QED BY <1>1 DEF Range

(* The first entry of a list that is not empty is one of its entries. *)
LEMMA FirstEntry ==
    ASSUME NEW S, NEW q \in Seq(S), ~list_empty(q)
    PROVE  list_first_entry(q) \in Range(q) /\ list_first_entry(q) \in S
<1>1. q # <<>>
  BY DEF list_empty
<1> QED BY <1>1, PopFront DEF list_first_entry

(* An empty list has no entry. *)
LEMMA EmptyList ==
    ASSUME NEW q, list_empty(q)
    PROVE  Range(q) = {}
<1>1. DOMAIN q = {}
  BY DEF list_empty
<1> QED BY <1>1 DEF Range
=============================================================================

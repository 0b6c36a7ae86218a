------------------------- MODULE ProcessQueueProofs -------------------------
(****************************************************************************)
(* What the queue operators return, for every queue: the elements of the    *)
(* result, that an element is never doubled, and their order.               *)
(****************************************************************************)
EXTENDS ProcessQueues, FiniteSetTheorems, SequenceTheorems, TLAPS

(* A proper subset of a finite set is smaller.                              *)
LEMMA ProperSubset ==
  ASSUME NEW S, IsFiniteSet(S), NEW T, T \subseteq S, T # S
  PROVE  /\ IsFiniteSet(T)
         /\ Cardinality(T) \in Nat /\ Cardinality(S) \in Nat
         /\ Cardinality(T) < Cardinality(S)
<1>1. /\ IsFiniteSet(T) /\ Cardinality(T) <= Cardinality(S)
      /\ Cardinality(S) # Cardinality(T)
  BY FS_Subset
<1>2. Cardinality(T) \in Nat /\ Cardinality(S) \in Nat
  BY <1>1, FS_CardinalityType
<1> QED
  BY <1>1, <1>2

(* Among the finitely many elements of S, the number of predecessors under  *)
(* a strict total order numbers them: Arrange lists each exactly once, in   *)
(* that order.                                                              *)
LEMMA ArrangeLists ==
  ASSUME NEW S, IsFiniteSet(S), NEW R,
         \A x \in S : <<x, x>> \notin R,
         \A x, y, z \in S : <<x, y>> \in R /\ <<y, z>> \in R => <<x, z>> \in R,
         \A x, y \in S : x # y => <<x, y>> \in R \/ <<y, x>> \in R
  PROVE  /\ Arrange(S, R) \in [1..Cardinality(S) -> S]
         /\ IsInjective(Arrange(S, R))
         /\ Range(Arrange(S, R)) = S
         /\ \A m, n \in 1..Cardinality(S) :
              m < n => <<Arrange(S, R)[m], Arrange(S, R)[n]>> \in R
<1> DEFINE Preds(x) == {y \in S : <<y, x>> \in R}
           rank == [x \in S |-> Cardinality(Preds(x)) + 1]
           N == Cardinality(S)
           A == Arrange(S, R)
<1>1. N \in Nat
  BY FS_CardinalityType
<1>2. ASSUME NEW x \in S
      PROVE  /\ IsFiniteSet(Preds(x)) /\ Cardinality(Preds(x)) \in Nat
             /\ Cardinality(Preds(x)) < N
  <2>1. Preds(x) \subseteq S /\ Preds(x) # S
    OBVIOUS
  <2> HIDE DEF Preds
  <2> QED
    BY <2>1, ProperSubset
<1>3. ASSUME NEW x \in S, NEW y \in S, <<x, y>> \in R
      PROVE  Cardinality(Preds(x)) < Cardinality(Preds(y))
  <2>1. Preds(x) \subseteq Preds(y) /\ x \in Preds(y) /\ x \notin Preds(x)
    BY <1>3
  <2>2. Preds(x) # Preds(y)
    BY <2>1
  <2>3. IsFiniteSet(Preds(y))
    BY <1>2
  <2> HIDE DEF Preds
  <2> QED
    BY <2>1, <2>2, <2>3, ProperSubset
<1>4. rank \in Injection(S, 1..N)
  <2>1. rank \in [S -> 1..N]
    BY <1>1, <1>2
  <2>2. ASSUME NEW x \in S, NEW y \in S, x # y
        PROVE  rank[x] # rank[y]
    <3>1. <<x, y>> \in R \/ <<y, x>> \in R
      BY <2>2
    <3>2. \/ Cardinality(Preds(x)) < Cardinality(Preds(y))
          \/ Cardinality(Preds(y)) < Cardinality(Preds(x))
      BY <1>3, <3>1
    <3>3. Cardinality(Preds(x)) \in Nat /\ Cardinality(Preds(y)) \in Nat
      BY <1>2
    <3> HIDE DEF Preds
    <3> QED
      BY <3>2, <3>3
  <2> QED
    BY <2>1, <2>2 DEF Injection, IsInjective
<1>5. rank \in Surjection(S, 1..N)
  <2>1. IsFiniteSet(1..N) /\ Cardinality(1..N) = N
    BY <1>1, FS_Interval
  <2> QED
    BY <1>4, <2>1, FS_Injection
<1>6. ASSUME NEW n \in 1..N
      PROVE  A[n] \in S /\ rank[A[n]] = n
  <2>1. PICK x \in S : rank[x] = n
    BY <1>5 DEF Surjection
  <2>2. Cardinality(Preds(x)) = n - 1
    <3>1. Cardinality(Preds(x)) \in Nat /\ Cardinality(Preds(x)) + 1 = n
      BY <1>2, <2>1
    <3> HIDE DEF Preds
    <3> QED
      BY <1>1, <3>1
  <2>3. A[n] = CHOOSE y \in S : Cardinality(Preds(y)) = n - 1
    BY DEF Arrange
  <2>4. A[n] \in S /\ Cardinality(Preds(A[n])) = n - 1
    BY <2>2, <2>3
  <2> QED
    BY <2>4
<1>7. A \in [1..N -> S]
  BY <1>6 DEF Arrange
<1>8. IsInjective(A)
  BY <1>6, <1>7 DEF IsInjective
<1>9. S \subseteq Range(A)
  <2> SUFFICES ASSUME NEW x \in S PROVE \E n \in 1..N : A[n] = x
    BY <1>7 DEF Range
  <2>1. rank[x] \in 1..N
    BY <1>4 DEF Injection
  <2>2. A[rank[x]] \in S /\ rank[A[rank[x]]] = rank[x]
    BY <1>6, <2>1
  <2> QED
    BY <1>4, <2>1, <2>2 DEF Injection, IsInjective
<1>10. ASSUME NEW m \in 1..N, NEW n \in 1..N, m < n
       PROVE  <<A[m], A[n]>> \in R
  <2>1. A[m] \in S /\ A[n] \in S /\ rank[A[m]] = m /\ rank[A[n]] = n
    BY <1>6
  <2>2. ~(<<A[n], A[m]>> \in R)
    <3> SUFFICES ASSUME <<A[n], A[m]>> \in R PROVE FALSE
      OBVIOUS
    <3> DEFINE x == Cardinality(Preds(A[n]))
               y == Cardinality(Preds(A[m]))
    <3>1. x < y /\ x \in Nat /\ y \in Nat
      BY <1>2, <1>3, <2>1, ZenonT(30)
    <3>2. x + 1 = n /\ y + 1 = m
      BY <2>1
    <3> HIDE DEF x, y
    <3> QED
      BY <1>1, <1>10, <3>1, <3>2
  <2>3. A[m] # A[n]
    <3> HIDE DEF A, rank, Preds
    <3> QED
      BY <1>1, <1>10, <2>1
  <2> QED
    BY <2>1, <2>2, <2>3
<1> QED
  BY <1>7, <1>8, <1>9, <1>10 DEF Range

(* A sequence is a function on its positions, and conversely.               *)
LEMMA SequenceShape ==
  ASSUME NEW P
  PROVE  /\ \A q \in Seq(P) :
              /\ Len(q) \in Nat /\ DOMAIN q = 1..Len(q)
              /\ q \in [1..Len(q) -> P]
              /\ Range(q) = {q[i] : i \in 1..Len(q)}
              /\ IsInjective(q)
                   <=> \A i, j \in 1..Len(q) : q[i] = q[j] => i = j
         /\ \A n \in Nat : \A q \in [1..n -> P] : q \in Seq(P) /\ Len(q) = n
<1>1. ASSUME NEW q \in Seq(P)
      PROVE  Len(q) \in Nat /\ DOMAIN q = 1..Len(q) /\ q \in [1..Len(q) -> P]
  BY LenProperties
<1>2. ASSUME NEW n \in Nat, NEW q \in [1..n -> P]
      PROVE  q \in Seq(P) /\ Len(q) = n
  BY IsASeq, LenProperties
<1> QED
  BY <1>1, <1>2 DEF Range, IsInjective

(* The positions of a sequence of length n are n.                           *)
LEMMA Positions ==
  ASSUME NEW n \in Nat
  PROVE  IsFiniteSet(1..n) /\ Cardinality(1..n) = n
<1>1. IsFiniteSet(1..n) /\ Cardinality(1..n) = IF 1 > n THEN 0 ELSE n - 1 + 1
  BY FS_Interval
<1> QED
  BY <1>1

(* A nonempty set of positions has a first one.                             *)
LEMMA FirstPosition ==
  ASSUME NEW T, T \subseteq Nat, T # {}
  PROVE  Min(T) \in T /\ \A y \in T : Min(T) <= y
<1>1. PICK x \in T : \A y \in T : ~(<<y, x>> \in OpToRel(<, Nat))
  BY NatLessThanWellFounded, WFMin
<1>2. ASSUME NEW y \in T PROVE x <= y
  <2>1. x \in Nat /\ y \in Nat
    OBVIOUS
  <2>2. ~(y < x)
    <3>1. <<y, x>> \in Nat \X Nat /\ <<y, x>>[1] = y /\ <<y, x>>[2] = x
      BY <2>1
    <3> QED
      BY <1>1, <3>1 DEF OpToRel
  <2> QED
    BY <2>1, <2>2
<1> QED
  BY <1>2 DEF Min

(* InsertAt, position by position.                                          *)
LEMMA InsertAtPlaces ==
  ASSUME NEW P, NEW q \in Seq(P), NEW p \in P, NEW k \in 1..Len(q)
  PROVE  /\ InsertAt(q, k, p) \in Seq(P)
         /\ Len(InsertAt(q, k, p)) = Len(q) + 1
         /\ \A i \in 1..(Len(q) + 1) :
              InsertAt(q, k, p)[i] =
                IF i < k THEN q[i] ELSE IF i = k THEN p ELSE q[i - 1]
<1> DEFINE a == SubSeq(q, 1, k - 1)
           b == SubSeq(q, k, Len(q))
           c == a \o <<p>>
           r == c \o b
<1>0. Len(q) \in Nat /\ k \in Nat /\ 1 <= k /\ k <= Len(q)
  BY SequenceShape
<1>1. /\ a \in Seq(P) /\ Len(a) = k - 1
      /\ \A i \in 1..(k - 1) : a[i] = q[i]
  BY <1>0, SubSeqProperties
<1>2. /\ b \in Seq(P) /\ Len(b) = Len(q) - k + 1
      /\ \A i \in 1..(Len(q) - k + 1) : b[i] = q[k + i - 1]
  BY <1>0, SubSeqProperties
<1>3. InsertAt(q, k, p) = r
  BY DEF InsertAt
<1> HIDE DEF a, b
<1>4. <<p>> \in Seq(P) /\ Len(<<p>>) = 1 /\ <<p>>[1] = p
  OBVIOUS
<1>5. /\ c \in Seq(P) /\ Len(c) = k
      /\ \A i \in 1..(k - 1) : c[i] = q[i]
      /\ c[k] = p
  BY <1>0, <1>1, <1>4
<1> HIDE DEF c
<1>6. /\ r \in Seq(P) /\ Len(r) = Len(q) + 1
      /\ \A i \in 1..k : r[i] = c[i]
      /\ \A i \in 1..(Len(q) - k + 1) : r[k + i] = b[i]
  <2>1. /\ r \in Seq(P) /\ Len(r) = Len(c) + Len(b)
        /\ \A i \in 1..(Len(c) + Len(b)) :
             r[i] = IF i <= Len(c) THEN c[i] ELSE b[i - Len(c)]
    BY <1>2, <1>5, ConcatProperties
  <2> HIDE DEF r
  <2>2. Len(r) = Len(q) + 1 /\ Len(c) + Len(b) = Len(q) + 1
    BY <1>0, <1>2, <1>5, <2>1
  <2>3. ASSUME NEW i \in 1..(Len(q) - k + 1) PROVE r[k + i] = b[i]
    <3>1. k + i \in 1..(Len(q) + 1) /\ ~(k + i <= k) /\ (k + i) - k = i
      BY <1>0
    <3> QED
      BY <1>5, <2>1, <2>2, <3>1
  <2>4. ASSUME NEW i \in 1..k PROVE r[i] = c[i]
    <3>1. i \in 1..(Len(q) + 1) /\ i <= k
      BY <1>0
    <3> QED
      BY <1>5, <2>1, <2>2, <3>1
  <2> QED
    BY <2>1, <2>2, <2>3, <2>4
<1> HIDE DEF r
<1>7. ASSUME NEW i \in 1..(Len(q) + 1), i > k
      PROVE  r[i] = q[i - 1]
  <2>1. i - k \in 1..(Len(q) - k + 1) /\ k + (i - k) = i /\ k + (i - k) - 1 = i - 1
    BY <1>0, <1>7
  <2>2. r[k + (i - k)] = b[i - k] /\ b[i - k] = q[k + (i - k) - 1]
    BY <1>2, <1>6, <2>1
  <2> QED
    BY <2>1, <2>2
<1>8. ASSUME NEW i \in 1..(Len(q) + 1)
      PROVE  r[i] = IF i < k THEN q[i] ELSE IF i = k THEN p ELSE q[i - 1]
  <2>0. i \in Int /\ 1 <= i
    BY <1>0
  <2>1. CASE i < k
    <3>1. i \in 1..(k - 1) /\ i \in 1..k
      BY <1>0, <2>0, <2>1
    <3> QED
      BY <1>5, <1>6, <2>1, <3>1
  <2>2. CASE i = k
    <3>1. i \in 1..k /\ ~(i < k)
      BY <1>0, <2>2
    <3> QED
      BY <1>5, <1>6, <2>2, <3>1
  <2>3. CASE i > k
    <3>1. ~(i < k) /\ i # k
      BY <1>0, <2>0, <2>3
    <3> QED
      BY <1>7, <2>3, <3>1
  <2> QED
    BY <1>0, <2>0, <2>1, <2>2, <2>3
<1> QED
  BY <1>3, <1>6, <1>8

(* Where insertProcQ puts its PCB: the first place whose holder has a lower *)
(* priority, or the last.                                                   *)
LEMMA InsertProcQPlaces ==
  ASSUME NEW P, NEW q \in Seq(P), NEW p \in P, NEW prio
  PROVE  \E k \in 1..(Len(q) + 1) :
           /\ InsertProcQ(q, p, prio) \in Seq(P)
           /\ Len(InsertProcQ(q, p, prio)) = Len(q) + 1
           /\ \A i \in 1..(Len(q) + 1) :
                InsertProcQ(q, p, prio)[i] =
                  IF i < k THEN q[i] ELSE IF i = k THEN p ELSE q[i - 1]
           /\ \A i \in 1..Len(q) : i < k => ~(prio[p] > prio[q[i]])
           /\ k \in 1..Len(q) => prio[p] > prio[q[k]]
<1> DEFINE lower == {i \in DOMAIN q : prio[p] > prio[q[i]]}
           r == InsertProcQ(q, p, prio)
           n == Len(q)
<1>0. n \in Nat /\ DOMAIN q = 1..n
  BY SequenceShape
<1>1. CASE lower = {}
  <2>1. r = Append(q, p)
    BY <1>1 DEF InsertProcQ
  <2>2. /\ r \in Seq(P) /\ Len(r) = n + 1
        /\ \A i \in 1..n : r[i] = q[i]
        /\ r[n + 1] = p
    BY <2>1, AppendProperties
  <2>3. \A i \in 1..n : ~(prio[p] > prio[q[i]])
    BY <1>0, <1>1
  <2> HIDE DEF r, lower
  <2>4. \A i \in 1..(n + 1) :
          r[i] = IF i < n + 1 THEN q[i] ELSE IF i = n + 1 THEN p ELSE q[i - 1]
    BY <1>0, <2>2
  <2>5. n + 1 \in 1..(n + 1) /\ n + 1 \notin 1..n
    BY <1>0
  <2> HIDE DEF n
  <2>6. \E k \in 1..(n + 1) :
          /\ r \in Seq(P) /\ Len(r) = n + 1
          /\ \A i \in 1..(n + 1) :
               r[i] = IF i < k THEN q[i] ELSE IF i = k THEN p ELSE q[i - 1]
          /\ \A i \in 1..n : i < k => ~(prio[p] > prio[q[i]])
          /\ k \in 1..n => prio[p] > prio[q[k]]
    BY <2>2, <2>3, <2>4, <2>5
  <2> QED
    BY <2>6 DEF n, r
<1>2. CASE lower # {}
  <2> DEFINE k == Min(lower)
  <2>1. lower \subseteq 1..n /\ \A i \in 1..n : i \in lower <=> prio[p] > prio[q[i]]
    BY <1>0
  <2>2. k \in lower /\ \A i \in lower : k <= i
    <3>1. lower \subseteq Nat
      BY <1>0, <2>1
    <3> HIDE DEF lower
    <3> QED
      BY <1>2, <3>1, FirstPosition
  <2>3. r = InsertAt(q, k, p)
    BY <1>2 DEF InsertProcQ
  <2> HIDE DEF lower, r, k
  <2>4. k \in 1..n /\ k \in 1..(n + 1) /\ prio[p] > prio[q[k]]
    BY <1>0, <2>1, <2>2
  <2>5. /\ r \in Seq(P) /\ Len(r) = n + 1
        /\ \A i \in 1..(n + 1) :
             r[i] = IF i < k THEN q[i] ELSE IF i = k THEN p ELSE q[i - 1]
    <3>1. /\ InsertAt(q, k, p) \in Seq(P)
          /\ Len(InsertAt(q, k, p)) = Len(q) + 1
          /\ \A i \in 1..(Len(q) + 1) :
               InsertAt(q, k, p)[i] =
                 IF i < k THEN q[i] ELSE IF i = k THEN p ELSE q[i - 1]
      BY <2>4, InsertAtPlaces
    <3> QED
      BY <2>3, <3>1
  <2>6. \A i \in 1..n : i < k => ~(prio[p] > prio[q[i]])
    <3> SUFFICES ASSUME NEW i \in 1..n, i < k, i \in lower PROVE FALSE
      BY <2>1
    <3>1. k <= i /\ k \in Int /\ i \in Int
      BY <1>0, <2>2, <2>4
    <3> QED
      BY <3>1
  <2> HIDE DEF n
  <2>7. \E j \in 1..(n + 1) :
          /\ r \in Seq(P) /\ Len(r) = n + 1
          /\ \A i \in 1..(n + 1) :
               r[i] = IF i < j THEN q[i] ELSE IF i = j THEN p ELSE q[i - 1]
          /\ \A i \in 1..n : i < j => ~(prio[p] > prio[q[i]])
          /\ j \in 1..n => prio[p] > prio[q[j]]
    BY <2>4, <2>5, <2>6
  <2> QED
    BY <2>7 DEF n, r
<1> QED
  BY <1>1, <1>2

(* insertProcQ adds its PCB and keeps the others, each once.                *)
LEMMA InsertProcQLists ==
  ASSUME NEW P, NEW q \in Seq(P), NEW p \in P, NEW prio
  PROVE  /\ InsertProcQ(q, p, prio) \in Seq(P)
         /\ InsertProcQ(q, p, prio) # <<>>
         /\ Range(InsertProcQ(q, p, prio)) = Range(q) \cup {p}
         /\ IsInjective(q) /\ p \notin Range(q)
              => IsInjective(InsertProcQ(q, p, prio))
<1> DEFINE r == InsertProcQ(q, p, prio)
           n == Len(q)
<1>0. n \in Nat /\ DOMAIN q = 1..n
  BY SequenceShape
<1>1. \E k \in 1..(n + 1) :
        /\ r \in Seq(P) /\ Len(r) = n + 1
        /\ \A i \in 1..(n + 1) :
             r[i] = IF i < k THEN q[i] ELSE IF i = k THEN p ELSE q[i - 1]
  BY InsertProcQPlaces
<1>2. PICK k \in 1..(n + 1) :
        /\ r \in Seq(P) /\ Len(r) = n + 1
        /\ \A i \in 1..(n + 1) :
             r[i] = IF i < k THEN q[i] ELSE IF i = k THEN p ELSE q[i - 1]
  BY <1>1
<1> HIDE DEF r
<1>3. r # <<>>
  BY <1>0, <1>2
<1>4. /\ Range(r) = {r[i] : i \in 1..(n + 1)}
      /\ Range(q) = {q[i] : i \in 1..n}
  BY <1>2, SequenceShape
<1> HIDE DEF n
<1>5. Range(r) \subseteq Range(q) \cup {p}
  <2> SUFFICES ASSUME NEW i \in 1..(n + 1), r[i] # p
               PROVE  \E j \in 1..n : r[i] = q[j]
    BY <1>4
  <2>1. CASE i < k
    BY <1>0, <1>2, <2>1
  <2>2. CASE i > k
    <3>1. i - 1 \in 1..n /\ r[i] = q[i - 1]
      BY <1>0, <1>2, <2>2
    <3> QED
      BY <3>1
  <2> QED
    BY <1>0, <1>2, <2>1, <2>2
<1>6. Range(q) \subseteq Range(r)
  <2> SUFFICES ASSUME NEW i \in 1..n
               PROVE  \E j \in 1..(n + 1) : r[j] = q[i]
    BY <1>4
  <2>1. CASE i < k
    BY <1>0, <1>2, <2>1
  <2>2. CASE i >= k
    <3>1. i + 1 \in 1..(n + 1) /\ r[i + 1] = q[(i + 1) - 1] /\ (i + 1) - 1 = i
      BY <1>0, <1>2, <2>2
    <3> QED
      BY <3>1
  <2> QED
    BY <1>0, <1>2, <2>1, <2>2
<1>7. p \in Range(r)
  BY <1>0, <1>2, <1>4
<1>8. ASSUME IsInjective(q), p \notin Range(q) PROVE IsInjective(r)
  <2>1. \A i \in 1..n : q[i] # p
    BY <1>4, <1>8
  <2>2. \A i, j \in 1..n : q[i] = q[j] => i = j
    BY <1>0, <1>8 DEF IsInjective
  <2>3. ASSUME NEW i \in 1..(n + 1), NEW j \in 1..(n + 1), r[i] = r[j]
        PROVE  i = j
    <3>1. \A m \in 1..(n + 1) :
            \/ m < k /\ m \in 1..n /\ r[m] = q[m]
            \/ m = k /\ r[m] = p
            \/ m > k /\ m - 1 \in 1..n /\ r[m] = q[m - 1]
      BY <1>0, <1>2
    <3> QED
      BY <1>0, <2>1, <2>2, <2>3, <3>1
  <2> QED
    BY <1>2, <2>3, SequenceShape
<1> QED
  BY <1>2, <1>3, <1>5, <1>6, <1>7, <1>8 DEF r

(* Positions listed once each list the elements there, once each if they    *)
(* differ.                                                                  *)
LEMMA ListedLists ==
  ASSUME NEW P, NEW q \in Seq(P), NEW a \in Seq(1..Len(q)), IsInjective(a)
  PROVE  /\ Listed(q, a) \in Seq(P)
         /\ Range(Listed(q, a)) = {q[i] : i \in Range(a)}
         /\ (\A i, j \in Range(a) : q[i] = q[j] => i = j)
              => IsInjective(Listed(q, a))
<1> DEFINE n == Len(a)
           r == Listed(q, a)
<1>1. /\ n \in Nat /\ DOMAIN a = 1..n
      /\ \A i \in 1..n : a[i] \in 1..Len(q) /\ a[i] \in Range(a)
      /\ Range(a) = {a[i] : i \in 1..n}
      /\ \A i, j \in 1..n : a[i] = a[j] => i = j
  BY SequenceShape
<1>2. \A i \in 1..Len(q) : q[i] \in P
  BY SequenceShape
<1>3. /\ DOMAIN r = 1..n /\ \A i \in 1..n : r[i] = q[a[i]]
      /\ r \in [1..n -> P]
  BY <1>1, <1>2 DEF Listed
<1> HIDE DEF r, n
<1>4. r \in Seq(P)
  BY <1>1, <1>3, SequenceShape
<1>5. Range(r) = {q[i] : i \in Range(a)}
  BY <1>1, <1>3 DEF Range
<1>6. ASSUME \A i, j \in Range(a) : q[i] = q[j] => i = j
      PROVE  IsInjective(r)
  <2>1. \A i, j \in 1..n : r[i] = r[j] => a[i] = a[j]
    BY <1>1, <1>3, <1>6
  <2> QED
    BY <1>1, <1>3, <2>1 DEF IsInjective
<1> QED
  BY <1>4, <1>5, <1>6 DEF r

(* The places outProcQ of the set D keeps, in their order.                  *)
LEMMA OutAllProcQPlaces ==
  ASSUME NEW P, NEW q \in Seq(P), NEW D
  PROVE  \E a \in Seq(1..Len(q)) :
           /\ OutAllProcQ(q, D) = Listed(q, a)
           /\ IsInjective(a)
           /\ Range(a) = {i \in 1..Len(q) : q[i] \notin D}
           /\ \A m, n \in 1..Len(a) : m < n => a[m] < a[n]
<1> DEFINE kept == {i \in DOMAIN q : q[i] \notin D}
           Before == {r \in kept \X kept : r[1] < r[2]}
           places == Arrange(kept, Before)
<1>0. Len(q) \in Nat /\ DOMAIN q = 1..Len(q) /\ q \in [1..Len(q) -> P]
  BY SequenceShape
<1>1. /\ kept \in SUBSET (1..Len(q)) /\ kept \subseteq Int
      /\ IsFiniteSet(kept) /\ Cardinality(kept) \in Nat
      /\ kept = {i \in 1..Len(q) : q[i] \notin D}
  <2>1. IsFiniteSet(1..Len(q)) /\ kept \subseteq 1..Len(q)
    BY <1>0, FS_Interval
  <2>2. 1..Len(q) \subseteq Int
    BY <1>0
  <2>3. kept = {i \in 1..Len(q) : q[i] \notin D}
    BY <1>0
  <2> HIDE DEF kept
  <2> QED
    BY <2>1, <2>2, <2>3, FS_Subset, FS_CardinalityType
<1>2. \A i, j \in kept : <<i, j>> \in Before <=> i < j
  OBVIOUS
<1>3. OutAllProcQ(q, D) = Listed(q, places)
  BY DEF OutAllProcQ
<1> HIDE DEF kept, Before
<1>4. /\ places \in [1..Cardinality(kept) -> kept]
      /\ IsInjective(places)
      /\ Range(places) = kept
      /\ \A m, n \in 1..Cardinality(kept) :
           m < n => <<places[m], places[n]>> \in Before
  <2>1. \A i \in kept : <<i, i>> \notin Before
    BY <1>1, <1>2
  <2>2. \A i, j, k \in kept :
          <<i, j>> \in Before /\ <<j, k>> \in Before => <<i, k>> \in Before
    BY <1>1, <1>2
  <2>3. \A i, j \in kept : i # j => <<i, j>> \in Before \/ <<j, i>> \in Before
    BY <1>1, <1>2
  <2>4. /\ Arrange(kept, Before) \in [1..Cardinality(kept) -> kept]
        /\ IsInjective(Arrange(kept, Before))
        /\ Range(Arrange(kept, Before)) = kept
    BY <1>1, <2>1, <2>2, <2>3, ArrangeLists
  <2>5. ASSUME NEW m \in 1..Cardinality(kept), NEW n \in 1..Cardinality(kept), m < n
        PROVE  <<Arrange(kept, Before)[m], Arrange(kept, Before)[n]>> \in Before
    BY <1>1, <2>1, <2>2, <2>3, <2>5, ArrangeLists, SMTT(60)
  <2> QED
    BY <2>4, <2>5
<1> HIDE DEF places
<1>5. places \in [1..Cardinality(kept) -> 1..Len(q)]
  BY <1>1, <1>4
<1>6. places \in Seq(1..Len(q)) /\ Len(places) = Cardinality(kept)
  BY <1>1, <1>5, SequenceShape
<1>7. \A m, n \in 1..Len(places) : m < n => places[m] < places[n]
  BY <1>2, <1>4, <1>6
<1> QED
  BY <1>1, <1>3, <1>4, <1>6, <1>7

(* outProcQ of the set D takes the PCBs of D out and keeps the others, each *)
(* once.                                                                    *)
LEMMA OutAllProcQLists ==
  ASSUME NEW P, NEW q \in Seq(P), NEW D
  PROVE  /\ OutAllProcQ(q, D) \in Seq(P)
         /\ Range(OutAllProcQ(q, D)) = Range(q) \ D
         /\ IsInjective(q) => IsInjective(OutAllProcQ(q, D))
<1> DEFINE kept == {i \in 1..Len(q) : q[i] \notin D}
           out == OutAllProcQ(q, D)
<1>1. PICK a \in Seq(1..Len(q)) :
        out = Listed(q, a) /\ IsInjective(a) /\ Range(a) = kept
  BY OutAllProcQPlaces
<1>2. /\ DOMAIN q = 1..Len(q)
      /\ Range(q) \ D = {q[i] : i \in kept}
  <2>1. DOMAIN q = 1..Len(q)
    BY SequenceShape
  <2> QED
    BY <2>1 DEF Range
<1> HIDE DEF kept, out
<1>3. /\ out \in Seq(P)
      /\ Range(out) = {q[i] : i \in kept}
      /\ (\A i, j \in kept : q[i] = q[j] => i = j) => IsInjective(out)
  BY <1>1, ListedLists
<1>4. IsInjective(q) => \A i, j \in kept : q[i] = q[j] => i = j
  BY <1>2 DEF IsInjective, kept
<1> QED
  BY <1>2, <1>3, <1>4 DEF out

(* The places the elements of q and b have after insertProcQ of all of b.   *)
LEMMA InsertAllProcQPlaces ==
  ASSUME NEW P, NEW q \in Seq(P), NEW b \in Seq(P), NEW prio \in [P -> Int]
  PROVE  \E a \in Seq(1..Len(q \o b)) :
           /\ InsertAllProcQ(q, b, prio) = Listed(q \o b, a)
           /\ IsInjective(a)
           /\ Range(a) = 1..Len(q \o b)
           /\ \A m, n \in 1..Len(a) : m < n =>
                \/ prio[(q \o b)[a[m]]] > prio[(q \o b)[a[n]]]
                \/ prio[(q \o b)[a[m]]] = prio[(q \o b)[a[n]]] /\ a[m] < a[n]
<1> DEFINE all == q \o b
           N == Len(all)
           Before == {r \in (DOMAIN all) \X (DOMAIN all) :
                        \/ prio[all[r[1]]] > prio[all[r[2]]]
                        \/ /\ prio[all[r[1]]] = prio[all[r[2]]]
                           /\ r[1] < r[2]}
           places == Arrange(DOMAIN all, Before)
           key == [i \in 1..N |-> prio[all[i]]]
<1>1. all \in Seq(P)
  BY ConcatProperties
<1>2. N \in Nat /\ DOMAIN all = 1..N /\ all \in [1..N -> P]
  BY <1>1, SequenceShape
<1>3. IsFiniteSet(1..N) /\ Cardinality(1..N) = N
  <2> HIDE DEF N
  <2> QED
    BY <1>2, Positions
<1>4. InsertAllProcQ(q, b, prio) = Listed(all, places)
  BY DEF InsertAllProcQ
<1>5. key \in [1..N -> Int]
  BY <1>2
<1>6. \A i, j \in 1..N :
        <<i, j>> \in Before <=> key[i] > key[j] \/ (key[i] = key[j] /\ i < j)
  BY <1>2
<1>7. places = Arrange(1..N, Before)
  BY <1>2
<1>8. \A i \in 1..N : key[i] = prio[all[i]]
  OBVIOUS
<1> HIDE DEF Before, key, N, all
<1>9. /\ places \in [1..N -> 1..N]
      /\ IsInjective(places)
      /\ Range(places) = 1..N
      /\ \A m, n \in 1..N : m < n => <<places[m], places[n]>> \in Before
  <2>0. 1..N \subseteq Int
    BY <1>2
  <2>1. ASSUME NEW i \in 1..N PROVE <<i, i>> \notin Before
    <3>1. key[i] \in Int /\ ~(key[i] > key[i]) /\ ~(i < i)
      BY <1>5, <2>0, SMTT(30)
    <3> QED
      BY <1>6, <3>1
  <2>2. ASSUME NEW i \in 1..N, NEW j \in 1..N, NEW k \in 1..N,
               <<i, j>> \in Before, <<j, k>> \in Before
        PROVE  <<i, k>> \in Before
    <3>1. key[i] \in Int /\ key[j] \in Int /\ key[k] \in Int
      BY <1>5
    <3>2. /\ key[i] > key[j] \/ (key[i] = key[j] /\ i < j)
          /\ key[j] > key[k] \/ (key[j] = key[k] /\ j < k)
      BY <1>6, <2>2
    <3>3. key[i] > key[k] \/ (key[i] = key[k] /\ i < k)
      BY <2>0, <3>1, <3>2
    <3> QED
      BY <1>6, <3>3
  <2>3. ASSUME NEW i \in 1..N, NEW j \in 1..N, i # j
        PROVE  <<i, j>> \in Before \/ <<j, i>> \in Before
    <3>1. key[i] \in Int /\ key[j] \in Int
      BY <1>5
    <3>2. \/ key[i] > key[j] \/ (key[i] = key[j] /\ i < j)
          \/ key[j] > key[i] \/ (key[j] = key[i] /\ j < i)
      BY <2>0, <2>3, <3>1
    <3> QED
      BY <1>6, <3>2
  <2> HIDE DEF places
  <2> QED
    BY <1>3, <1>7, <2>1, <2>2, <2>3, ArrangeLists
<1> HIDE DEF places
<1>10. places \in Seq(1..N) /\ Len(places) = N
  BY <1>2, <1>9, SequenceShape
<1>11. ASSUME NEW m \in 1..N, NEW n \in 1..N, m < n
       PROVE  \/ prio[all[places[m]]] > prio[all[places[n]]]
              \/ prio[all[places[m]]] = prio[all[places[n]]] /\ places[m] < places[n]
  <2>1. places[m] \in 1..N /\ places[n] \in 1..N /\ <<places[m], places[n]>> \in Before
    BY <1>9, <1>11
  <2>2. \/ key[places[m]] > key[places[n]]
        \/ key[places[m]] = key[places[n]] /\ places[m] < places[n]
    BY <1>6, <2>1
  <2>3. /\ key[places[m]] = prio[all[places[m]]]
        /\ key[places[n]] = prio[all[places[n]]]
    BY <1>8, <2>1
  <2> QED
    BY <2>2, <2>3
<1> QED
  BY <1>4, <1>9, <1>10, <1>11 DEF N, all

(* insertProcQ of a whole queue adds its PCBs, each once.                   *)
LEMMA InsertAllProcQLists ==
  ASSUME NEW P, NEW q \in Seq(P), NEW b \in Seq(P), NEW prio \in [P -> Int]
  PROVE  /\ InsertAllProcQ(q, b, prio) \in Seq(P)
         /\ Range(InsertAllProcQ(q, b, prio)) = Range(q) \cup Range(b)
         /\ IsInjective(q) /\ IsInjective(b) /\ Range(q) \cap Range(b) = {}
              => IsInjective(InsertAllProcQ(q, b, prio))
<1> DEFINE all == q \o b
           out == InsertAllProcQ(q, b, prio)
           N == Len(q) + Len(b)
<1>0. /\ Len(q) \in Nat /\ DOMAIN q = 1..Len(q)
      /\ Len(b) \in Nat /\ DOMAIN b = 1..Len(b) /\ N \in Nat
  BY SequenceShape
<1>1. /\ all \in Seq(P) /\ Len(all) = N
      /\ \A i \in 1..Len(q) : all[i] = q[i]
      /\ \A i \in 1..Len(b) : all[Len(q) + i] = b[i]
  BY ConcatProperties
<1>2. DOMAIN all = 1..N /\ all \in [1..N -> P]
  <2> HIDE DEF all
  <2> QED
    BY <1>1, SequenceShape
<1>5. Range(all) = Range(q) \cup Range(b)
  BY RangeConcatenation
<1>6. PICK a \in Seq(1..Len(all)) :
        out = Listed(all, a) /\ IsInjective(a) /\ Range(a) = 1..Len(all)
  BY InsertAllProcQPlaces
<1> HIDE DEF all, out, N
<1>10. /\ out \in Seq(P)
       /\ Range(out) = {all[i] : i \in 1..N}
       /\ (\A i, j \in 1..N : all[i] = all[j] => i = j) => IsInjective(out)
  <2>1. /\ Listed(all, a) \in Seq(P)
        /\ Range(Listed(all, a)) = {all[i] : i \in Range(a)}
        /\ (\A i, j \in Range(a) : all[i] = all[j] => i = j)
             => IsInjective(Listed(all, a))
    BY <1>1, <1>6, ListedLists
  <2> QED
    BY <1>1, <1>6, <2>1
<1>11. Range(all) = {all[i] : i \in 1..N}
  BY <1>2 DEF Range
<1>12. ASSUME IsInjective(q), IsInjective(b), Range(q) \cap Range(b) = {},
              NEW i \in 1..N, NEW j \in 1..N, all[i] = all[j]
       PROVE  i = j
  <2>1. /\ \A m, n \in 1..Len(q) : q[m] = q[n] => m = n
        /\ \A m, n \in 1..Len(b) : b[m] = b[n] => m = n
    BY <1>0, <1>12 DEF IsInjective
  <2>2. \A m \in 1..Len(q), n \in 1..Len(b) : q[m] # b[n]
    <3>1. \A m \in 1..Len(q), n \in 1..Len(b) : q[m] \in Range(q) /\ b[n] \in Range(b)
      BY <1>0 DEF Range
    <3> QED
      BY <1>12, <3>1
  <2>3. ASSUME NEW n \in 1..N
        PROVE  \/ n \in 1..Len(q) /\ all[n] = q[n]
               \/ /\ n > Len(q) /\ n - Len(q) \in 1..Len(b)
                  /\ all[n] = b[n - Len(q)]
    <3>1. CASE n <= Len(q)
      BY <1>0, <1>1, <3>1
    <3>2. CASE n > Len(q)
      <4>1. n - Len(q) \in 1..Len(b) /\ Len(q) + (n - Len(q)) = n
        BY <1>0, <3>2 DEF N
      <4> QED
        BY <1>1, <3>2, <4>1
    <3> QED
      BY <1>0, <3>1, <3>2
  <2>4. /\ i \in Int /\ j \in Int
    BY <1>0
  <2>5. CASE i \in 1..Len(q) /\ all[i] = q[i]
    BY <1>12, <2>1, <2>2, <2>3, <2>5
  <2>6. CASE i > Len(q) /\ i - Len(q) \in 1..Len(b) /\ all[i] = b[i - Len(q)]
    <3>1. j > Len(q) /\ j - Len(q) \in 1..Len(b) /\ all[j] = b[j - Len(q)]
      BY <1>12, <2>2, <2>3, <2>6
    <3>2. i - Len(q) = j - Len(q)
      BY <1>12, <2>1, <2>6, <3>1
    <3> QED
      BY <1>0, <2>4, <3>2
  <2> QED
    BY <2>3, <2>5, <2>6
<1> QED
  BY <1>5, <1>10, <1>11, <1>12 DEF out

(* The head of a queue leaves it.                                           *)
LEMMA TailLists ==
  ASSUME NEW P, NEW q \in Seq(P), q # <<>>
  PROVE  /\ Head(q) \in Range(q) /\ Head(q) \in P
         /\ Tail(q) \in Seq(P)
         /\ Range(q) = Range(Tail(q)) \cup {Head(q)}
         /\ IsInjective(q) => /\ IsInjective(Tail(q))
                              /\ Head(q) \notin Range(Tail(q))
<1> DEFINE n == Len(q)
           t == Tail(q)
<1>1. /\ n \in Nat \ {0} /\ DOMAIN q = 1..n
      /\ Head(q) = q[1] /\ Head(q) \in P
      /\ t \in Seq(P) /\ Len(t) = n - 1
      /\ \A i \in 1..(n - 1) : t[i] = q[i + 1]
      /\ DOMAIN t = 1..(n - 1)
  <2>1. t \in Seq(P) /\ Len(t) = n - 1
    BY HeadTailProperties
  <2> QED
    BY <2>1, SequenceShape, HeadTailProperties, EmptySeq
<1> HIDE DEF t, n
<1>2. ASSUME NEW i \in 1..n, i # 1
      PROVE  i - 1 \in 1..(n - 1) /\ q[i] = t[i - 1]
  <2>1. i - 1 \in 1..(n - 1) /\ (i - 1) + 1 = i
    BY <1>1, <1>2
  <2> QED
    BY <1>1, <2>1
<1>3. \A i \in 1..(n - 1) : i + 1 \in 1..n
  BY <1>1
<1>4. 1 \in 1..n
  BY <1>1
<1>5. /\ Range(q) = {q[i] : i \in 1..n}
      /\ Range(t) = {t[i] : i \in 1..(n - 1)}
  BY <1>1 DEF Range
<1>6. Range(q) = Range(t) \cup {Head(q)} /\ Head(q) \in Range(q)
  <2>1. Range(q) \subseteq Range(t) \cup {q[1]}
    BY <1>2, <1>5
  <2>2. Range(t) \subseteq Range(q)
    BY <1>1, <1>3, <1>5
  <2>3. q[1] \in Range(q)
    BY <1>4, <1>5
  <2> QED
    BY <1>1, <2>1, <2>2, <2>3
<1>7. ASSUME IsInjective(q)
      PROVE  IsInjective(t) /\ Head(q) \notin Range(t)
  <2>1. \A i, j \in 1..n : q[i] = q[j] => i = j
    BY <1>1, <1>7 DEF IsInjective
  <2>2. ASSUME NEW i \in 1..(n - 1), NEW j \in 1..(n - 1), t[i] = t[j]
        PROVE  i = j
    <3>1. i + 1 = j + 1
      BY <1>1, <1>3, <2>1, <2>2
    <3> QED
      BY <1>1, <3>1
  <2>3. ASSUME NEW i \in 1..(n - 1) PROVE t[i] # q[1]
    <3>1. i + 1 # 1
      BY <1>1
    <3> QED
      BY <1>1, <1>3, <1>4, <2>1, <3>1
  <2> QED
    BY <1>1, <1>5, <2>2, <2>3 DEF IsInjective
<1> QED
  BY <1>1, <1>6, <1>7 DEF t

(* The empty queue lists nobody, and is the only one.                       *)
LEMMA EmptyLists ==
  ASSUME NEW P, NEW q \in Seq(P)
  PROVE  /\ q = <<>> <=> Range(q) = {}
         /\ IsInjective(<<>>) /\ Range(<<>>) = {} /\ Len(<<>>) = 0
<1>1. IsInjective(<<>>) /\ Range(<<>>) = {} /\ Len(<<>>) = 0
  <2>1. <<>> \in Seq(P) /\ Len(<<>>) = 0
    BY EmptySeq
  <2>2. 1..0 = {}
    OBVIOUS
  <2>3. DOMAIN <<>> = {}
    BY <2>1, <2>2, SequenceShape
  <2> QED
    BY <2>1, <2>3 DEF Range, IsInjective
<1>2. ASSUME q # <<>> PROVE Range(q) # {}
  BY <1>2, TailLists
<1> QED
  BY <1>1, <1>2

(* A queue without repetitions is as long as the set of its elements.       *)
LEMMA LengthCounts ==
  ASSUME NEW P, NEW q \in Seq(P), IsInjective(q)
  PROVE  IsFiniteSet(Range(q)) /\ Len(q) = Cardinality(Range(q))
<1> DEFINE n == Len(q)
<1>1. n \in Nat /\ DOMAIN q = 1..n
  BY SequenceShape
<1>2. q \in Bijection(1..n, Range(q))
  <2>1. q \in [1..n -> Range(q)]
    BY <1>1, SequenceShape DEF Range
  <2>2. \A x \in Range(q) : \E i \in 1..n : q[i] = x
    BY <1>1 DEF Range
  <2> QED
    BY <2>1, <2>2 DEF Bijection, Injection, Surjection
<1> HIDE DEF n
<1>3. IsFiniteSet(1..n) /\ Cardinality(1..n) = n
  BY <1>1, FS_Interval
<1>4. ExistsBijection(1..n, Range(q))
  BY <1>2 DEF ExistsBijection
<1>5. IsFiniteSet(Range(q)) /\ Cardinality(Range(q)) = n
  BY <1>3, <1>4, FS_Bijection
<1> QED
  BY <1>5 DEF n

-----------------------------------------------------------------------------
(* The order of the queues.                                                 *)

(* Who stays, from q to r, stays ahead of all who were behind him and are   *)
(* not gone, and none of them has left.                                     *)
Keeps(q, r, gone) ==
  \A i, j \in DOMAIN q :
    i < j /\ q[i] \in Range(r) /\ q[j] \notin gone
      => \E m, n \in DOMAIN r : m < n /\ r[m] = q[i] /\ r[n] = q[j]

(* A queue without two elements is in order.                                *)
LEMMA EmptyOrdered ==
  ASSUME NEW prio PROVE Ordered(<<>>, prio)
<1>1. <<>> \in Seq({}) /\ Len(<<>>) = 0
  BY EmptySeq
<1>2. DOMAIN <<>> = {}
  BY <1>1, SequenceShape
<1> QED
  BY <1>2 DEF Ordered

(* The order looks at the priorities of those in the queue only.            *)
LEMMA OrderedAgrees ==
  ASSUME NEW q, NEW prio, NEW other, Ordered(q, prio),
         \A x \in Range(q) : other[x] = prio[x]
  PROVE  Ordered(q, other)
BY DEF Ordered, Range

LEMMA KeepsItself ==
  ASSUME NEW q, NEW gone PROVE Keeps(q, q, gone)
BY DEF Keeps

LEMMA InsertProcQOrders ==
  ASSUME NEW P, NEW q \in Seq(P), NEW p \in P, NEW prio \in [P -> Int], NEW gone
  PROVE  /\ Keeps(q, InsertProcQ(q, p, prio), gone)
         /\ Ordered(q, prio) => Ordered(InsertProcQ(q, p, prio), prio)
<1> DEFINE r == InsertProcQ(q, p, prio)
           n == Len(q)
<1>1. PICK k \in 1..(n + 1) :
        /\ r \in Seq(P) /\ Len(r) = n + 1
        /\ \A i \in 1..(n + 1) :
             r[i] = IF i < k THEN q[i] ELSE IF i = k THEN p ELSE q[i - 1]
        /\ \A i \in 1..n : i < k => ~(prio[p] > prio[q[i]])
        /\ k \in 1..n => prio[p] > prio[q[k]]
  BY InsertProcQPlaces
<1>2. /\ n \in Nat /\ DOMAIN q = 1..n /\ \A i \in 1..n : q[i] \in P
  BY SequenceShape
<1> HIDE DEF r, n
<1>3. DOMAIN r = 1..(n + 1)
  BY <1>1, SequenceShape
<1>4. Keeps(q, r, gone)
  <2> SUFFICES ASSUME NEW i \in DOMAIN q, NEW j \in DOMAIN q, i < j
               PROVE  \E m, o \in DOMAIN r : m < o /\ r[m] = q[i] /\ r[o] = q[j]
    BY DEF Keeps
  <2> DEFINE to(x) == IF x < k THEN x ELSE x + 1
  <2>1. \A x \in 1..n : to(x) \in 1..(n + 1) /\ r[to(x)] = q[x]
    <3> SUFFICES ASSUME NEW x \in 1..n
                 PROVE  to(x) \in 1..(n + 1) /\ r[to(x)] = q[x]
      OBVIOUS
    <3>1. CASE x < k
      BY <1>1, <1>2, <3>1
    <3>2. CASE ~(x < k)
      <4>1. x + 1 \in 1..(n + 1) /\ ~(x + 1 < k) /\ x + 1 # k /\ (x + 1) - 1 = x
        BY <1>1, <1>2, <3>2, SMTT(30)
      <4> QED
        BY <1>1, <3>2, <4>1
    <3> QED
      BY <3>1, <3>2
  <2>2. i \in 1..n /\ j \in 1..n
    BY <1>2
  <2>3. to(i) < to(j)
    BY <1>1, <1>2, <2>2, SMTT(30)
  <2> HIDE DEF to
  <2> QED
    BY <1>3, <2>1, <2>2, <2>3
<1>5. ASSUME Ordered(q, prio) PROVE Ordered(r, prio)
  <2> SUFFICES ASSUME NEW i \in 1..(n + 1), NEW j \in 1..(n + 1), i < j
               PROVE  prio[r[i]] >= prio[r[j]]
    BY <1>3 DEF Ordered
  <2> DEFINE key == [x \in 1..n |-> prio[q[x]]]
             c == prio[p]
  <2>0. key \in [1..n -> Int] /\ c \in Int
    BY <1>2
  <2>1. /\ key \in [1..n -> Int] /\ c \in Int
        /\ \A x, y \in 1..n : x < y => key[x] >= key[y]
        /\ \A x \in 1..n : x < k => c <= key[x]
        /\ k \in 1..n => c > key[k]
    <3>1. \A x, y \in 1..n : x < y => key[x] >= key[y]
      BY <1>2, <1>5 DEF Ordered
    <3>2. ASSUME NEW x \in 1..n, x < k PROVE c <= key[x]
      <4>1. ~(c > prio[q[x]]) /\ key[x] = prio[q[x]]
        BY <1>1, <3>2
      <4> HIDE DEF key, c
      <4> QED
        BY <2>0, <4>1
    <3>3. k \in 1..n => c > key[k]
      BY <1>1
    <3> QED
      BY <2>0, <3>1, <3>2, <3>3
  <2>2. \A x \in 1..(n + 1) :
          \/ x < k /\ x \in 1..n /\ prio[r[x]] = key[x]
          \/ x = k /\ prio[r[x]] = c
          \/ x > k /\ x - 1 \in 1..n /\ prio[r[x]] = key[x - 1]
    BY <1>1, <1>2
  <2> HIDE DEF key, c
  <2>3. CASE j < k
    BY <1>1, <1>2, <2>1, <2>2, <2>3
  <2>4. CASE j = k
    BY <1>1, <1>2, <2>1, <2>2, <2>4
  <2>5. CASE j > k
    <3>1. k \in 1..n /\ j - 1 \in 1..n /\ prio[r[j]] = key[j - 1]
      BY <1>1, <1>2, <2>2, <2>5
    <3>2. key[j - 1] <= key[k] /\ key[k] < c
      <4>1. CASE j - 1 = k
        BY <2>1, <3>1, <4>1
      <4>2. CASE j - 1 # k
        <5>1. k < j - 1
          BY <1>1, <1>2, <2>5, <4>2
        <5> QED
          BY <2>1, <3>1, <5>1
      <4> QED
        BY <4>1, <4>2
    <3>3. key[j - 1] \in Int /\ key[k] \in Int /\ c \in Int
      BY <2>1, <3>1
    <3>4. CASE i < k
      <4>1. i \in 1..n /\ prio[r[i]] = key[i] /\ c <= key[i] /\ key[i] \in Int
        BY <1>1, <1>2, <2>1, <2>2, <3>4
      <4> QED
        BY <3>1, <3>2, <3>3, <4>1
    <3>5. CASE i = k
      <4>1. prio[r[i]] = c
        BY <1>1, <1>2, <2>2, <3>5
      <4> QED
        BY <3>1, <3>2, <3>3, <4>1
    <3>6. CASE i > k
      <4>1. i - 1 \in 1..n /\ prio[r[i]] = key[i - 1] /\ i - 1 < j - 1
        BY <1>1, <1>2, <2>2, <3>6
      <4> QED
        BY <2>1, <3>1, <4>1
    <3> QED
      BY <1>1, <1>2, <3>4, <3>5, <3>6
  <2> QED
    BY <1>1, <1>2, <2>3, <2>4, <2>5
<1> QED
  BY <1>4, <1>5 DEF r

(* The head of a queue leaves it: order and turns are kept, since it is in  *)
(* the queue once.                                                          *)
LEMMA TailOrders ==
  ASSUME NEW P, NEW q, NEW r \in Seq(P), r # <<>>, NEW prio, NEW gone
  PROVE  /\ Ordered(r, prio) => Ordered(Tail(r), prio)
         /\ IsInjective(r) /\ Keeps(q, r, gone) => Keeps(q, Tail(r), gone)
<1> DEFINE n == Len(r)
           t == Tail(r)
<1>1. /\ n \in Nat \ {0} /\ DOMAIN r = 1..n /\ Head(r) = r[1]
      /\ t \in Seq(P) /\ Len(t) = n - 1
      /\ \A i \in 1..(n - 1) : t[i] = r[i + 1]
      /\ DOMAIN t = 1..(n - 1)
  <2>1. t \in Seq(P) /\ Len(t) = n - 1
    BY HeadTailProperties
  <2> QED
    BY <2>1, SequenceShape, HeadTailProperties, EmptySeq
<1>2. /\ Range(r) = Range(t) \cup {Head(r)}
      /\ IsInjective(r) => Head(r) \notin Range(t)
  BY TailLists
<1> HIDE DEF t, n
<1>3. ASSUME Ordered(r, prio) PROVE Ordered(t, prio)
  <2> SUFFICES ASSUME NEW i \in 1..(n - 1), NEW j \in 1..(n - 1), i < j
               PROVE  prio[t[i]] >= prio[t[j]]
    BY <1>1 DEF Ordered
  <2>1. i + 1 \in 1..n /\ j + 1 \in 1..n /\ i + 1 < j + 1
    BY <1>1
  <2> QED
    BY <1>1, <1>3, <2>1 DEF Ordered
<1>4. ASSUME IsInjective(r), Keeps(q, r, gone) PROVE Keeps(q, t, gone)
  <2> SUFFICES ASSUME NEW i \in DOMAIN q, NEW j \in DOMAIN q, i < j,
                      q[i] \in Range(t), q[j] \notin gone
               PROVE  \E m, o \in DOMAIN t : m < o /\ t[m] = q[i] /\ t[o] = q[j]
    BY DEF Keeps
  <2>1. PICK m \in 1..n, o \in 1..n : m < o /\ r[m] = q[i] /\ r[o] = q[j]
    BY <1>1, <1>2, <1>4 DEF Keeps
  <2>2. m # 1
    BY <1>1, <1>2, <1>4, <2>1
  <2>3. /\ m - 1 \in 1..(n - 1) /\ o - 1 \in 1..(n - 1) /\ m - 1 < o - 1
        /\ (m - 1) + 1 = m /\ (o - 1) + 1 = o
    BY <1>1, <2>1, <2>2
  <2>4. t[m - 1] = r[m] /\ t[o - 1] = r[o]
    BY <1>1, <2>3
  <2> QED
    BY <1>1, <2>1, <2>3, <2>4
<1> QED
  BY <1>3, <1>4 DEF t

LEMMA OutAllProcQOrders ==
  ASSUME NEW P, NEW q \in Seq(P), NEW D, NEW prio, NEW gone
  PROVE  /\ Ordered(q, prio) => Ordered(OutAllProcQ(q, D), prio)
         /\ D \subseteq gone => Keeps(q, OutAllProcQ(q, D), gone)
<1> DEFINE kept == {i \in 1..Len(q) : q[i] \notin D}
           out == OutAllProcQ(q, D)
<1>1. PICK a \in Seq(1..Len(q)) :
        /\ out = Listed(q, a) /\ Range(a) = kept
        /\ \A m, n \in 1..Len(a) : m < n => a[m] < a[n]
  BY OutAllProcQPlaces
<1>2. /\ DOMAIN q = 1..Len(q) /\ Len(q) \in Nat
      /\ DOMAIN a = 1..Len(a) /\ Len(a) \in Nat
      /\ \A m \in 1..Len(a) : a[m] \in kept
      /\ \A i \in kept : \E m \in 1..Len(a) : a[m] = i
  <2>1. /\ DOMAIN q = 1..Len(q) /\ Len(q) \in Nat
        /\ DOMAIN a = 1..Len(a) /\ Len(a) \in Nat
    BY SequenceShape
  <2>2. kept = {a[m] : m \in DOMAIN a}
    BY <1>1 DEF Range
  <2> HIDE DEF kept
  <2> QED
    BY <2>1, <2>2
<1>3. DOMAIN out = 1..Len(a) /\ \A m \in 1..Len(a) : out[m] = q[a[m]]
  BY <1>1, <1>2 DEF Listed
<1>4. \A i \in kept : i \in 1..Len(q) /\ q[i] \notin D
  OBVIOUS
<1>5. \A i \in 1..Len(q) : q[i] \notin D => i \in kept
  OBVIOUS
<1>6. \A i \in 1..Len(q) : q[i] \in Range(out) => i \in kept
  <2>1. Range(out) = Range(q) \ D
    BY OutAllProcQLists
  <2> QED
    BY <1>5, <2>1
<1> HIDE DEF out, kept
<1>7. ASSUME Ordered(q, prio) PROVE Ordered(out, prio)
  <2> SUFFICES ASSUME NEW m \in 1..Len(a), NEW n \in 1..Len(a), m < n
               PROVE  prio[out[m]] >= prio[out[n]]
    BY <1>3 DEF Ordered
  <2>1. a[m] \in 1..Len(q) /\ a[n] \in 1..Len(q) /\ a[m] < a[n]
    BY <1>1, <1>2, <1>4
  <2> QED
    BY <1>2, <1>3, <1>7, <2>1 DEF Ordered
<1>8. ASSUME D \subseteq gone PROVE Keeps(q, out, gone)
  <2> SUFFICES ASSUME NEW i \in DOMAIN q, NEW j \in DOMAIN q, i < j,
                      q[i] \in Range(out), q[j] \notin gone
               PROVE  \E m, n \in DOMAIN out : m < n /\ out[m] = q[i] /\ out[n] = q[j]
    BY DEF Keeps
  <2>1. i \in kept /\ j \in kept
    BY <1>2, <1>5, <1>6, <1>8
  <2>2. PICK m \in 1..Len(a), n \in 1..Len(a) : a[m] = i /\ a[n] = j
    BY <1>2, <2>1
  <2>3. m < n
    <3>1. ~(n < m) /\ n # m
      BY <1>1, <1>2, <2>2
    <3> QED
      BY <1>2, <3>1
  <2> QED
    BY <1>3, <2>2, <2>3
<1> QED
  BY <1>7, <1>8 DEF out

(* Whatever the order of the queue b, that of the result is right.          *)
LEMMA InsertAllProcQOrders ==
  ASSUME NEW P, NEW q \in Seq(P), NEW b \in Seq(P), NEW prio \in [P -> Int], NEW gone
  PROVE  /\ Ordered(InsertAllProcQ(q, b, prio), prio)
         /\ Ordered(q, prio) => Keeps(q, InsertAllProcQ(q, b, prio), gone)
<1> DEFINE all == q \o b
           out == InsertAllProcQ(q, b, prio)
           N == Len(all)
<1>1. PICK a \in Seq(1..N) :
        /\ out = Listed(all, a) /\ Range(a) = 1..N
        /\ \A m, n \in 1..Len(a) : m < n =>
             \/ prio[all[a[m]]] > prio[all[a[n]]]
             \/ prio[all[a[m]]] = prio[all[a[n]]] /\ a[m] < a[n]
  BY InsertAllProcQPlaces, ZenonT(30)
<1>2. /\ all \in Seq(P) /\ N = Len(q) + Len(b)
      /\ \A i \in 1..Len(q) : all[i] = q[i]
      /\ Len(q) \in Nat /\ Len(b) \in Nat /\ DOMAIN q = 1..Len(q)
  BY ConcatProperties, SequenceShape
<1> HIDE DEF all, N, out
<1>3. /\ DOMAIN a = 1..Len(a) /\ Len(a) \in Nat
      /\ \A m \in 1..Len(a) : a[m] \in 1..N
      /\ \A i \in 1..N : \E m \in 1..Len(a) : a[m] = i
  <2>1. DOMAIN a = 1..Len(a) /\ Len(a) \in Nat
    BY SequenceShape
  <2>2. 1..N = {a[m] : m \in DOMAIN a}
    BY <1>1 DEF Range
  <2> QED
    BY <2>1, <2>2
<1>4. DOMAIN out = 1..Len(a) /\ \A m \in 1..Len(a) : out[m] = all[a[m]]
  BY <1>1, <1>3 DEF Listed
<1>5. \A i \in 1..N : prio[all[i]] \in Int
  <2>1. \A i \in 1..N : all[i] \in P
    BY <1>2, SequenceShape DEF N
  <2> QED
    BY <2>1
<1>6. Ordered(out, prio)
  <2> SUFFICES ASSUME NEW m \in 1..Len(a), NEW n \in 1..Len(a), m < n
               PROVE  prio[out[m]] >= prio[out[n]]
    BY <1>4 DEF Ordered
  <2>1. prio[all[a[m]]] \in Int /\ prio[all[a[n]]] \in Int
    BY <1>3, <1>5
  <2>2. prio[all[a[m]]] >= prio[all[a[n]]]
    BY <1>1, <2>1
  <2> QED
    BY <1>4, <2>2
<1>7. ASSUME Ordered(q, prio) PROVE Keeps(q, out, gone)
  <2> SUFFICES ASSUME NEW i \in DOMAIN q, NEW j \in DOMAIN q, i < j
               PROVE  \E m, n \in DOMAIN out : m < n /\ out[m] = q[i] /\ out[n] = q[j]
    BY DEF Keeps
  <2>1. i \in 1..N /\ j \in 1..N /\ i \in 1..Len(q) /\ j \in 1..Len(q)
    BY <1>2
  <2>2. PICK m \in 1..Len(a), n \in 1..Len(a) : a[m] = i /\ a[n] = j
    BY <1>3, <2>1
  <2>3. all[i] = q[i] /\ all[j] = q[j] /\ prio[all[i]] >= prio[all[j]]
    BY <1>2, <1>7, <2>1 DEF Ordered
  <2>4. prio[all[i]] \in Int /\ prio[all[j]] \in Int
    BY <1>5, <2>1
  <2>5. ~(n < m)
    <3> SUFFICES ASSUME n < m PROVE FALSE
      OBVIOUS
    <3>1. \/ prio[all[j]] > prio[all[i]]
          \/ prio[all[j]] = prio[all[i]] /\ j < i
      BY <1>1, <2>2
    <3> QED
      BY <1>2, <2>3, <2>4, <3>1, SMTT(30)
  <2>6. m < n
    BY <1>2, <1>3, <2>2, <2>5
  <2> QED
    BY <1>4, <2>2, <2>3, <2>6
<1> QED
  BY <1>6, <1>7 DEF out

(* What a queue keeps it keeps in two steps too, when the second brings     *)
(* none of its processes back.                                              *)
LEMMA KeepsTwice ==
  ASSUME NEW q, NEW r, NEW out, NEW gone, Keeps(q, r, gone), Keeps(r, out, gone),
         \A x \in Range(q) : x \in Range(out) => x \in Range(r)
  PROVE  Keeps(q, out, gone)
<1> SUFFICES ASSUME NEW i \in DOMAIN q, NEW j \in DOMAIN q, i < j,
                    q[i] \in Range(out), q[j] \notin gone
             PROVE  \E m, n \in DOMAIN out : m < n /\ out[m] = q[i] /\ out[n] = q[j]
  BY DEF Keeps
<1>1. q[i] \in Range(r)
  BY DEF Range
<1>2. PICK m, n \in DOMAIN r : m < n /\ r[m] = q[i] /\ r[n] = q[j]
  BY <1>1 DEF Keeps
<1> QED
  BY <1>2 DEF Keeps

-----------------------------------------------------------------------------
(* Sequences by their places.                                               *)

(* A set of numbers up to n that is closed under successors.                *)
LEMMA CountUp ==
  ASSUME NEW n \in Nat, NEW S, 0 \in S, \A i \in 0..n - 1 : i \in S => i + 1 \in S
  PROVE  0..n \subseteq S
<1> DEFINE T == {i \in 0..n : i \notin S}
<1>1. SUFFICES ASSUME T # {} PROVE FALSE
  OBVIOUS
<1>2. Min(T) \in T /\ \A y \in T : Min(T) <= y
  <2>1. T \subseteq Nat
    OBVIOUS
  <2> HIDE DEF T
  <2> QED
    BY <1>1, <2>1, FirstPosition
<1>3. PICK m \in T : \A y \in T : m <= y
  BY <1>2
<1>4. m - 1 \in 0..n - 1 /\ m - 1 \notin T
  BY <1>3
<1> QED
  BY <1>3, <1>4

(* q with x put in at place k, and without what is at place k.              *)
Put(q, k, x) ==
  [i \in 1..Len(q) + 1 |-> IF i < k THEN q[i] ELSE IF i = k THEN x ELSE q[i - 1]]
Dropped(q, k) == [i \in 1..Len(q) - 1 |-> IF i < k THEN q[i] ELSE q[i + 1]]

(* What a sequence with something put in has: one element more.             *)
LEMMA PutLists ==
  ASSUME NEW P, NEW q \in Seq(P), NEW x \in P, NEW k \in 1..Len(q) + 1
  PROVE  /\ Put(q, k, x) \in Seq(P) /\ Len(Put(q, k, x)) = Len(q) + 1
         /\ Range(Put(q, k, x)) = Range(q) \cup {x}
         /\ IsInjective(q) /\ x \notin Range(q) => IsInjective(Put(q, k, x))
<1> DEFINE n == Len(q)
           r == Put(q, k, x)
<1>1. n \in Nat /\ q \in [1..n -> P] /\ Range(q) = {q[i] : i \in 1..n}
      /\ (IsInjective(q) <=> \A i, j \in 1..n : q[i] = q[j] => i = j)
  BY SequenceShape
<1>2. /\ r = [i \in 1..n + 1 |-> IF i < k THEN q[i] ELSE IF i = k THEN x ELSE q[i - 1]]
      /\ k \in 1..n + 1
  BY DEF Put
<1> HIDE DEF n, r
<1>3. r \in [1..n + 1 -> P]
  BY <1>1, <1>2
<1>4. r \in Seq(P) /\ Len(r) = n + 1
  BY <1>1, <1>3, SeqDef, LenProperties
<1>5. /\ Range(r) = {r[i] : i \in 1..n + 1}
      /\ (IsInjective(r) <=> \A i, j \in 1..n + 1 : r[i] = r[j] => i = j)
  BY <1>4, SequenceShape
<1>6. Range(r) = Range(q) \cup {x}
  <2>1. ASSUME NEW i \in 1..n PROVE q[i] \in Range(r)
    <3>1. CASE i < k
      BY <1>1, <1>2, <1>5, <3>1
    <3>2. CASE i >= k
      <4>1. i + 1 \in 1..n + 1 /\ r[i + 1] = q[i]
        BY <1>1, <1>2, <3>2
      <4> QED
        BY <1>5, <4>1
    <3> QED
      BY <1>1, <1>2, <3>1, <3>2
  <2>2. x \in Range(r)
    BY <1>2, <1>5
  <2>3. ASSUME NEW i \in 1..n + 1 PROVE r[i] \in Range(q) \cup {x}
    <3>1. CASE i < k
      BY <1>1, <1>2, <3>1
    <3>2. CASE i > k
      <4>1. i - 1 \in 1..n /\ r[i] = q[i - 1]
        BY <1>1, <1>2, <3>2
      <4> QED
        BY <1>1, <4>1
    <3> QED
      BY <1>1, <1>2, <3>1, <3>2
  <2> QED
    BY <1>1, <1>5, <2>1, <2>2, <2>3
<1>7. ASSUME IsInjective(q), x \notin Range(q) PROVE IsInjective(r)
  <2> SUFFICES ASSUME NEW i \in 1..n + 1, NEW j \in 1..n + 1, r[i] = r[j], i < j
               PROVE  FALSE
    BY <1>1, <1>5
  <2>1. i < k => i \in 1..n /\ r[i] = q[i]
    BY <1>1, <1>2
  <2>2. i > k => i - 1 \in 1..n /\ r[i] = q[i - 1]
    BY <1>1, <1>2
  <2>3. j < k => j \in 1..n /\ r[j] = q[j]
    BY <1>1, <1>2
  <2>4. j > k => j - 1 \in 1..n /\ r[j] = q[j - 1]
    BY <1>1, <1>2
  <2>5. (i = k => r[i] = x) /\ (j = k => r[j] = x)
    BY <1>2
  <2> QED
    BY <1>1, <1>2, <1>7, <2>1, <2>2, <2>3, <2>4, <2>5
<1> QED
  BY <1>4, <1>6, <1>7 DEF n, r

(* What a sequence with one place taken out has.                            *)
LEMMA TakenLists ==
  ASSUME NEW P, NEW q \in Seq(P), NEW k \in 1..Len(q)
  PROVE  /\ Dropped(q, k) \in Seq(P) /\ Len(Dropped(q, k)) = Len(q) - 1
         /\ IsInjective(q) => /\ Range(Dropped(q, k)) = Range(q) \ {q[k]}
                              /\ IsInjective(Dropped(q, k))
<1> DEFINE n == Len(q)
           r == Dropped(q, k)
<1>1. n \in Nat \ {0} /\ q \in [1..n -> P] /\ Range(q) = {q[i] : i \in 1..n}
      /\ (IsInjective(q) <=> \A i, j \in 1..n : q[i] = q[j] => i = j)
  BY SequenceShape
<1>2. r = [i \in 1..n - 1 |-> IF i < k THEN q[i] ELSE q[i + 1]] /\ k \in 1..n
  BY DEF Dropped
<1> HIDE DEF n, r
<1>3. r \in [1..n - 1 -> P] /\ n - 1 \in Nat
  BY <1>1, <1>2
<1>4. r \in Seq(P) /\ Len(r) = n - 1
  BY <1>3, SeqDef, LenProperties
<1>5. /\ Range(r) = {r[i] : i \in 1..n - 1}
      /\ (IsInjective(r) <=> \A i, j \in 1..n - 1 : r[i] = r[j] => i = j)
  BY <1>4, SequenceShape
<1>6. ASSUME IsInjective(q) PROVE Range(r) = Range(q) \ {q[k]} /\ IsInjective(r)
  <2>1. ASSUME NEW i \in 1..n, i # k PROVE q[i] \in Range(r)
    <3>1. CASE i < k
      BY <1>1, <1>2, <1>5, <3>1
    <3>2. CASE i > k
      <4>1. i - 1 \in 1..n - 1 /\ r[i - 1] = q[i]
        BY <1>1, <1>2, <3>2
      <4> QED
        BY <1>5, <4>1
    <3> QED
      BY <1>1, <1>2, <2>1, <3>1, <3>2
  <2>2. ASSUME NEW i \in 1..n - 1 PROVE r[i] \in Range(q) \ {q[k]}
    <3>1. CASE i < k
      BY <1>1, <1>2, <1>6, <3>1
    <3>2. CASE i >= k
      <4>1. i + 1 \in 1..n /\ r[i] = q[i + 1] /\ i + 1 # k
        BY <1>1, <1>2, <3>2
      <4> QED
        BY <1>1, <1>2, <1>6, <4>1
    <3> QED
      BY <1>1, <1>2, <3>1, <3>2
  <2>3. ASSUME NEW i \in 1..n - 1, NEW j \in 1..n - 1, r[i] = r[j] PROVE i = j
    BY <1>1, <1>2, <1>6, <2>3
  <2> QED
    BY <1>1, <1>5, <2>1, <2>2, <2>3
<1> QED
  BY <1>4, <1>6 DEF n, r

(* Sequences with the same elements at the same places are one.             *)
LEMMA SameElements ==
  ASSUME NEW P, NEW a \in Seq(P), NEW b \in Seq(P), Len(a) = Len(b),
         \A i \in 1..Len(a) : a[i] = b[i]
  PROVE  a = b
BY SeqEqual

(* A set of numbers has one increasing enumeration.                         *)
Increasing(a) == \A m, n \in 1..Len(a) : m < n => a[m] < a[n]

(* Two increasing sequences of the same numbers are one.                    *)
LEMMA OneEnumeration ==
  ASSUME NEW a \in Seq(Nat), NEW b \in Seq(Nat), Range(a) = Range(b),
         Increasing(a), Increasing(b)
  PROVE  a = b
<1>1. ASSUME NEW c \in Seq(Nat), Increasing(c)
      PROVE  IsInjective(c) /\ Len(c) = Cardinality(Range(c))
  <2>1. \A i \in 1..Len(c) : c[i] \in Nat
    BY SequenceShape
  <2>2. IsInjective(c)
    <3> SUFFICES ASSUME NEW i \in 1..Len(c), NEW j \in 1..Len(c), c[i] = c[j] PROVE i = j
      BY SequenceShape
    <3>1. ~(i < j) /\ ~(j < i)
      BY <1>1, <2>1 DEF Increasing
    <3>2. Len(c) \in Nat
      BY SequenceShape
    <3> QED
      BY <3>1, <3>2
  <2> QED
    BY <2>2, LengthCounts
<1>2. Len(a) = Len(b)
  BY <1>1
<1>3. ASSUME NEW c \in Seq(Nat), NEW d \in Seq(Nat), Range(c) = Range(d), Len(c) = Len(d),
             Increasing(c), Increasing(d), NEW m \in 1..Len(c),
             \A i \in 1..m - 1 : c[i] = d[i]
      PROVE  ~(c[m] < d[m])
  <2> SUFFICES ASSUME c[m] < d[m] PROVE FALSE
    OBVIOUS
  <2>1. Len(c) \in Nat /\ c[m] \in Range(d)
    BY <1>3, SequenceShape
  <2>2. PICK j \in 1..Len(d) : d[j] = c[m]
    BY <1>3, <2>1, SequenceShape
  <2>3. \A i \in 1..Len(d) : d[i] \in Nat /\ c[i] \in Nat
    BY <1>3, SequenceShape, SMTT(30)
  <2>4. j < m
    <3>1. ~(m < j) /\ j # m
      BY <1>3, <2>2, <2>3 DEF Increasing
    <3> QED
      BY <1>3, <2>1, <3>1
  <2>5. c[j] = c[m] /\ c[j] < c[m]
    BY <1>3, <2>1, <2>2, <2>4 DEF Increasing
  <2> QED
    BY <1>3, <2>3, <2>5
<1>4. SUFFICES ASSUME a # b PROVE FALSE
  OBVIOUS
<1> DEFINE T == {i \in 1..Len(a) : a[i] # b[i]}
<1>5. T # {}
  BY <1>2, <1>4, SameElements
<1>6. Len(a) \in Nat
  BY SequenceShape
<1>7. Min(T) \in T /\ \A y \in T : Min(T) <= y
  <2>1. T \subseteq Nat
    BY <1>6
  <2> HIDE DEF T
  <2> QED
    BY <1>5, <2>1, FirstPosition
<1> DEFINE m == Min(T)
<1>8. m \in 1..Len(a) /\ a[m] # b[m] /\ \A i \in 1..m - 1 : a[i] = b[i]
  <2> HIDE DEF m
  <2>1. m \in T /\ \A y \in T : m <= y
    BY <1>7 DEF m
  <2>2. m \in 1..Len(a) /\ a[m] # b[m]
    BY <2>1
  <2>3. ASSUME NEW i \in 1..m - 1, a[i] # b[i] PROVE FALSE
    <3>1. i \in T
      BY <1>6, <2>2, <2>3
    <3> QED
      BY <1>6, <2>1, <2>2, <3>1
  <2> QED
    BY <2>2, <2>3
<1> HIDE DEF m, T
<1>9. ~(a[m] < b[m])
  BY <1>2, <1>3, <1>8
<1>10. ~(b[m] < a[m])
  <2>1. m \in 1..Len(b) /\ \A i \in 1..m - 1 : b[i] = a[i]
    BY <1>2, <1>8
  <2> QED
    BY <1>2, <1>3, <2>1
<1> QED
  <2>1. a[m] \in Nat /\ b[m] \in Nat
    BY <1>2, <1>8, SequenceShape
  <2> QED
    BY <1>8, <1>9, <1>10, <2>1

(* outProcQ of one element takes its place out.                             *)
LEMMA OutTaken ==
  ASSUME NEW P, NEW q \in Seq(P), IsInjective(q), NEW k \in 1..Len(q)
  PROVE  OutAllProcQ(q, {q[k]}) = Dropped(q, k)
<1> DEFINE n == Len(q)
           b == [i \in 1..n - 1 |-> IF i < k THEN i ELSE i + 1]
           kept == {i \in 1..n : q[i] \notin {q[k]}}
<1>1. n \in Nat \ {0} /\ k \in 1..n /\ \A i, j \in 1..n : q[i] = q[j] => i = j
  BY SequenceShape
<1>2. PICK a \in Seq(1..n) :
        /\ OutAllProcQ(q, {q[k]}) = Listed(q, a)
        /\ Range(a) = kept
        /\ \A m, o \in 1..Len(a) : m < o => a[m] < a[o]
  BY OutAllProcQPlaces
<1>3. kept = 1..n \ {k}
  BY <1>1
<1> HIDE DEF n
<1>4. b \in [1..n - 1 -> Nat] /\ n - 1 \in Nat
  BY <1>1
<1>5. b \in Seq(Nat) /\ Len(b) = n - 1 /\ Range(b) = {b[i] : i \in 1..n - 1}
  <2> HIDE DEF b
  <2> QED
    BY <1>4, SequenceShape
<1>6. Range(b) = 1..n \ {k}
  <2>1. ASSUME NEW j \in 1..n \ {k} PROVE \E i \in 1..n - 1 : b[i] = j
    <3>1. CASE j < k
      <4>1. j \in 1..n - 1 /\ b[j] = j
        BY <1>1, <2>1, <3>1
      <4> QED
        BY <4>1
    <3>2. CASE j > k
      <4>1. j - 1 \in 1..n - 1 /\ b[j - 1] = j
        BY <1>1, <2>1, <3>2
      <4> QED
        BY <4>1
    <3> QED
      BY <1>1, <2>1, <3>1, <3>2
  <2>2. ASSUME NEW i \in 1..n - 1 PROVE b[i] \in 1..n \ {k}
    BY <1>1
  <2> HIDE DEF b
  <2> QED
    BY <1>5, <2>1, <2>2
<1>7. Increasing(b)
  BY <1>1, <1>5 DEF Increasing
<1> HIDE DEF b, kept
<1>8. a \in Seq(Nat)
  <2>1. 1..n \subseteq Nat
    BY <1>1
  <2> QED
    BY <1>2, <2>1, SeqMonotonic
<1>9. a = b
  BY <1>2, <1>3, <1>5, <1>6, <1>7, <1>8, OneEnumeration DEF Increasing
<1>10. Listed(q, b) = Dropped(q, k)
  BY <1>1, <1>4 DEF Listed, Dropped, b, n
<1> QED
  BY <1>2, <1>9, <1>10

(* Taking out only absent ones changes nothing.                             *)
LEMMA OutAbsent ==
  ASSUME NEW P, NEW q \in Seq(P), NEW D, Range(q) \cap D = {}
  PROVE  OutAllProcQ(q, D) = q
<1> DEFINE n == Len(q)
           b == [i \in 1..n |-> i]
           kept == {i \in 1..n : q[i] \notin D}
<1>1. n \in Nat /\ Range(q) = {q[i] : i \in 1..n} /\ q \in [1..n -> P]
  BY SequenceShape
<1>2. PICK a \in Seq(1..n) :
        /\ OutAllProcQ(q, D) = Listed(q, a)
        /\ Range(a) = kept
        /\ \A m, o \in 1..Len(a) : m < o => a[m] < a[o]
  BY OutAllProcQPlaces
<1>3. kept = 1..n
  BY <1>1
<1> HIDE DEF n
<1>4. b \in [1..n -> Nat]
  BY <1>1
<1>5. b \in Seq(Nat) /\ Len(b) = n /\ Range(b) = {b[i] : i \in 1..n}
  <2>1. Range(b) = {b[i] : i \in 1..n}
    BY DEF Range
  <2> HIDE DEF b
  <2> QED
    BY <1>1, <1>4, <2>1, SequenceShape
<1>6. Range(b) = 1..n
  BY <1>5
<1>7. Increasing(b)
  BY <1>1, <1>5 DEF Increasing
<1> HIDE DEF b, kept
<1>8. a \in Seq(Nat)
  <2>1. 1..n \subseteq Nat
    BY <1>1
  <2> QED
    BY <1>2, <2>1, SeqMonotonic
<1>9. a = b
  BY <1>2, <1>3, <1>5, <1>6, <1>7, <1>8, OneEnumeration DEF Increasing
<1>10. Listed(q, b) = q
  BY <1>1, <1>4 DEF Listed, b
<1> QED
  BY <1>2, <1>9, <1>10

(* outProcQ of somebody else changes nothing.                               *)
LEMMA OutNobody ==
  ASSUME NEW P, NEW q \in Seq(P), NEW p, p \notin Range(q)
  PROVE  OutAllProcQ(q, {p}) = q
<1> DEFINE D == {p}
<1>1. Range(q) \cap D = {}
  OBVIOUS
<1> HIDE DEF D
<1>2. OutAllProcQ(q, D) = q
  BY <1>1, OutAbsent
<1> QED
  BY <1>2 DEF D

(* insertProcQ puts in at the first place of lower priority, or last.       *)
LEMMA InsertProcQPut ==
  ASSUME NEW P, NEW q \in Seq(P), NEW p \in P, NEW pr, NEW k \in 1..Len(q) + 1,
         \A i \in 1..Len(q) : i < k => ~(pr[p] > pr[q[i]]),
         k \in 1..Len(q) => pr[p] > pr[q[k]]
  PROVE  InsertProcQ(q, p, pr) = Put(q, k, p)
<1> DEFINE r == InsertProcQ(q, p, pr)
           n == Len(q)
<1>1. PICK m \in 1..n + 1 :
           /\ r \in Seq(P) /\ Len(r) = n + 1
           /\ \A i \in 1..n + 1 :
                r[i] = IF i < m THEN q[i] ELSE IF i = m THEN p ELSE q[i - 1]
           /\ \A i \in 1..n : i < m => ~(pr[p] > pr[q[i]])
           /\ m \in 1..n => pr[p] > pr[q[m]]
  BY InsertProcQPlaces
<1>2. n \in Nat /\ k \in 1..n + 1
  BY SequenceShape
<1>3. m = k
  <2> DEFINE Less(i) == pr[p] > pr[q[i]]
  <2>1. /\ \A i \in 1..n : i < m => ~Less(i)
        /\ m \in 1..n => Less(m)
        /\ \A i \in 1..n : i < k => ~Less(i)
        /\ k \in 1..n => Less(k)
    BY <1>1
  <2> HIDE DEF n, Less
  <2> QED
    BY <1>2, <2>1
<1>4. Put(q, k, p) \in Seq(P) /\ Len(Put(q, k, p)) = n + 1
  BY PutLists
<1> HIDE DEF r
<1>5. ASSUME NEW i \in 1..n + 1 PROVE r[i] = Put(q, k, p)[i]
  BY <1>1, <1>2, <1>3 DEF Put
<1> QED
  <2>1. r = Put(q, k, p)
    BY <1>1, <1>4, <1>5, SameElements
  <2> QED
    BY <2>1 DEF r

(* Tail and Head are about the first place.                                 *)
LEMMA TailTaken ==
  ASSUME NEW P, NEW q \in Seq(P), q # <<>>
  PROVE  Tail(q) = Dropped(q, 1) /\ Head(q) = q[1] /\ 1 \in 1..Len(q)
<1> DEFINE n == Len(q)
<1>1. n \in Nat \ {0} /\ Head(q) = q[1] /\ Tail(q) \in Seq(P)
      /\ Len(Tail(q)) = n - 1 /\ \A i \in 1..n - 1 : Tail(q)[i] = q[i + 1]
  BY HeadTailProperties, EmptySeq, SequenceShape
<1>2. 1 \in 1..n
  BY <1>1
<1>3. Dropped(q, 1) \in Seq(P) /\ Len(Dropped(q, 1)) = n - 1
  BY <1>2, TakenLists
<1> HIDE DEF n
<1>4. ASSUME NEW i \in 1..n - 1 PROVE Tail(q)[i] = Dropped(q, 1)[i]
  BY <1>1 DEF Dropped, n
<1> QED
  BY <1>1, <1>2, <1>3, <1>4, SameElements DEF n

(* At the end, and in front.                                                *)
LEMMA AppendPut ==
  ASSUME NEW P, NEW q \in Seq(P), NEW x \in P
  PROVE  Append(q, x) = Put(q, Len(q) + 1, x) /\ <<x>> \o q = Put(q, 1, x)
<1> DEFINE n == Len(q)
           one == <<x>>
           front == one \o q
<1>1. n \in Nat
  BY SequenceShape
<1>2. 1 \in 1..n + 1 /\ n + 1 \in 1..n + 1
  BY <1>1
<1>3. Append(q, x) = Put(q, n + 1, x)
  <2>1. Put(q, n + 1, x) \in Seq(P) /\ Len(Put(q, n + 1, x)) = n + 1
    BY <1>2, PutLists
  <2>2. /\ Append(q, x) \in Seq(P) /\ Len(Append(q, x)) = n + 1
        /\ \A i \in 1..n : Append(q, x)[i] = q[i]
        /\ Append(q, x)[n + 1] = x
    BY AppendProperties
  <2> HIDE DEF n
  <2>3. ASSUME NEW i \in 1..n + 1 PROVE Append(q, x)[i] = Put(q, n + 1, x)[i]
    BY <1>1, <2>2 DEF Put, n
  <2> QED
    BY <2>1, <2>2, <2>3, SameElements
<1>4. front = Put(q, 1, x)
  <2>1. Put(q, 1, x) \in Seq(P) /\ Len(Put(q, 1, x)) = n + 1
    BY <1>2, PutLists
  <2>2. one \in Seq(P) /\ Len(one) = 1 /\ one[1] = x
    OBVIOUS
  <2> HIDE DEF one
  <2>3. /\ front \in Seq(P) /\ Len(front) = Len(one) + n
        /\ \A i \in 1..Len(one) + n :
             front[i] = IF i <= Len(one) THEN one[i] ELSE q[i - Len(one)]
    BY <2>2, ConcatProperties
  <2> HIDE DEF front, n
  <2>4. ASSUME NEW i \in 1..n + 1 PROVE front[i] = Put(q, 1, x)[i]
    BY <1>1, <2>2, <2>3 DEF Put, n
  <2>5. Len(front) = n + 1
    BY <1>1, <2>2, <2>3
  <2> QED
    BY <2>1, <2>3, <2>4, <2>5, SameElements
<1> QED
  BY <1>3, <1>4

-----------------------------------------------------------------------------
(* The closed forms are the loops.                                          *)

(* A sequence that lists its elements in the order R.                       *)
Sorted(a, R) == \A m, n \in 1..Len(a) : m < n => <<a[m], a[n]>> \in R

(* A set has one enumeration in a strict order.                             *)
LEMMA OneArrangement ==
  ASSUME NEW S, NEW R, NEW a \in Seq(S), NEW b \in Seq(S), Range(a) = Range(b),
         \A x \in S : <<x, x>> \notin R,
         \A x, y, z \in S : <<x, y>> \in R /\ <<y, z>> \in R => <<x, z>> \in R,
         Sorted(a, R), Sorted(b, R)
  PROVE  a = b
<1>1. ASSUME NEW c \in Seq(S), Sorted(c, R)
      PROVE  IsInjective(c) /\ Len(c) = Cardinality(Range(c))
  <2>1. Len(c) \in Nat /\ \A i \in 1..Len(c) : c[i] \in S
    BY SequenceShape
  <2>2. IsInjective(c)
    <3> SUFFICES ASSUME NEW i \in 1..Len(c), NEW j \in 1..Len(c), c[i] = c[j] PROVE i = j
      BY SequenceShape
    <3>1. ~(i < j) /\ ~(j < i)
      BY <1>1, <2>1 DEF Sorted
    <3> QED
      BY <2>1, <3>1
  <2> QED
    BY <2>2, LengthCounts
<1>2. Len(a) = Len(b)
  BY <1>1
<1>3. ASSUME NEW c \in Seq(S), NEW d \in Seq(S), Range(c) = Range(d), Len(c) = Len(d),
             Sorted(c, R), Sorted(d, R), NEW m \in 1..Len(c), c[m] # d[m],
             \A i \in 1..m - 1 : c[i] = d[i]
      PROVE  <<d[m], c[m]>> \in R
  <2>1. Len(c) \in Nat /\ c[m] \in Range(d)
    BY <1>3, SequenceShape
  <2>2. PICK j \in 1..Len(d) : d[j] = c[m]
    BY <1>3, <2>1, SequenceShape
  <2>3. \A i, k \in 1..Len(c) : c[i] = c[k] => i = k
    BY <1>1, <1>3, SequenceShape
  <2>4. m < j
    <3>1. ~(j < m)
      <4>1. SUFFICES ASSUME j < m PROVE FALSE
        OBVIOUS
      <4>2. c[j] = c[m]
        BY <1>3, <2>1, <2>2, <4>1
      <4> QED
        BY <1>3, <2>1, <2>3, <4>1, <4>2
    <3> QED
      BY <1>3, <2>1, <2>2, <3>1
  <2> QED
    BY <1>3, <2>2, <2>4 DEF Sorted
<1>4. SUFFICES ASSUME a # b PROVE FALSE
  OBVIOUS
<1> DEFINE T == {i \in 1..Len(a) : a[i] # b[i]}
<1>5. T # {}
  BY <1>2, <1>4, SameElements
<1>6. Len(a) \in Nat /\ Len(b) \in Nat
  BY SequenceShape
<1>7. PICK m \in T : \A y \in T : m <= y
  <2>1. T \subseteq Nat
    BY <1>6
  <2> HIDE DEF T
  <2>2. Min(T) \in T /\ \A y \in T : Min(T) <= y
    BY <1>5, <2>1, FirstPosition
  <2> QED
    BY <2>2
<1>8. m \in 1..Len(a) /\ a[m] # b[m] /\ \A i \in 1..m - 1 : a[i] = b[i]
  <2>1. ASSUME NEW i \in 1..m - 1, a[i] # b[i] PROVE FALSE
    BY <1>6, <1>7, <2>1
  <2> QED
    BY <2>1
<1> HIDE DEF T
<1>9. <<b[m], a[m]>> \in R
  BY <1>2, <1>3, <1>8
<1>10. <<a[m], b[m]>> \in R
  <2>1. m \in 1..Len(b) /\ b[m] # a[m] /\ \A i \in 1..m - 1 : b[i] = a[i]
    BY <1>2, <1>8
  <2> QED
    BY <1>2, <1>3, <2>1
<1> QED
  <2>1. a[m] \in S /\ b[m] \in S
    BY <1>2, <1>8, SequenceShape
  <2> QED
    BY <1>9, <1>10, <2>1

(* By decreasing weight, and by place within one weight.                    *)
Precedes(w, x, y) == w[x] > w[y] \/ (w[x] = w[y] /\ x < y)
ByWeight(w, n) == {r \in (1..n) \X (1..n) : Precedes(w, r[1], r[2])}

LEMMA ByWeightOrders ==
  ASSUME NEW n \in Nat, NEW w \in [1..n -> Int]
  PROVE  /\ \A x, y \in 1..n : <<x, y>> \in ByWeight(w, n) <=> Precedes(w, x, y)
         /\ \A x \in 1..n : <<x, x>> \notin ByWeight(w, n)
         /\ \A x, y, z \in 1..n :
              <<x, y>> \in ByWeight(w, n) /\ <<y, z>> \in ByWeight(w, n)
                => <<x, z>> \in ByWeight(w, n)
<1>1. \A x, y \in 1..n : <<x, y>> \in ByWeight(w, n) <=> Precedes(w, x, y)
  BY DEF ByWeight
<1>2. \A x \in 1..n : w[x] \in Int
  OBVIOUS
<1>3. \A x \in 1..n : <<x, x>> \notin ByWeight(w, n)
  BY <1>1, <1>2 DEF Precedes
<1>4. ASSUME NEW x \in 1..n, NEW y \in 1..n, NEW z \in 1..n,
             <<x, y>> \in ByWeight(w, n), <<y, z>> \in ByWeight(w, n)
      PROVE  <<x, z>> \in ByWeight(w, n)
  <2>1. Precedes(w, x, y) /\ Precedes(w, y, z)
    BY <1>1, <1>4
  <2>2. Precedes(w, x, z)
    BY <1>2, <2>1 DEF Precedes
  <2> QED
    BY <1>1, <2>2
<1> QED
  BY <1>1, <1>3, <1>4

(* Something new put into a sequence.                                       *)
LEMMA PutMore ==
  ASSUME NEW D, NEW x
  PROVE  \A a \in Seq(D) : \A k \in 1..Len(a) + 1 :
           /\ Put(a, k, x) \in Seq(D \cup {x}) /\ Len(Put(a, k, x)) = Len(a) + 1
           /\ Range(Put(a, k, x)) = Range(a) \cup {x}
<1> DEFINE S == D \cup {x}
<1>1. D \subseteq S /\ x \in S
  OBVIOUS
<1> SUFFICES ASSUME NEW a \in Seq(D), NEW k \in 1..Len(a) + 1
             PROVE  /\ Put(a, k, x) \in Seq(S) /\ Len(Put(a, k, x)) = Len(a) + 1
                    /\ Range(Put(a, k, x)) = Range(a) \cup {x}
  OBVIOUS
<1> HIDE DEF S
<1>2. a \in Seq(S)
  BY <1>1, SeqMonotonic
<1> QED
  BY <1>1, <1>2, PutLists

LEMMA Above == \A x, y, z \in Int : x > y /\ y >= z => x > z
OBVIOUS

(* The numbers up to n by weight, and where n + 1 comes among them.         *)
ByRank(w, a, n) ==
  /\ a \in Seq(1..n) /\ Len(a) = n /\ Range(a) = 1..n
  /\ \A i, j \in 1..n : i < j => Precedes(w, a[i], a[j])
Comes(w, a, k, n) ==
  /\ \A i \in 1..n : i < k => ~(w[n + 1] > w[a[i]])
  /\ k \in 1..n => w[n + 1] > w[a[k]]

(* The last place goes behind those of its weight and above.                *)
LEMMA LastPut ==
  ASSUME NEW n \in Nat, NEW w \in [1..n + 1 -> Int], NEW a, ByRank(w, a, n),
         NEW k \in 1..n + 1, Comes(w, a, k, n)
  PROVE  /\ Put(a, k, n + 1) \in Seq(1..n + 1) /\ Len(Put(a, k, n + 1)) = n + 1
         /\ Range(Put(a, k, n + 1)) = 1..n + 1
         /\ Sorted(Put(a, k, n + 1), ByWeight(w, n + 1))
<1> USE DEF ByRank, Comes
<1> DEFINE m == n + 1
           S == 1..m
           D == 1..n
           c == Put(a, k, m)
<1>0. m = n + 1 /\ m \in Nat /\ S = D \cup {m} /\ D = 1..n /\ S = 1..m
  OBVIOUS
<1>1. \A i \in 1..n : a[i] \in 1..n /\ a[i] \in 1..m /\ a[i] < m /\ w[a[i]] \in Int
  <2>1. \A i \in 1..n : a[i] \in D
    <3>1. a \in Seq(D) /\ Len(a) = n
      OBVIOUS
    <3> HIDE DEF D
    <3> QED
      BY <3>1, SequenceShape
  <2> QED
    BY <2>1, SMTT(30)
<1>2. m \in S /\ w[m] \in Int /\ Len(a) + 1 = m /\ k \in 1..Len(a) + 1
  OBVIOUS
<1>3. c \in Seq(S) /\ Len(c) = m /\ Range(c) = S
  <2>1. Range(a) = D /\ a \in Seq(D)
    OBVIOUS
  <2> HIDE DEF S, m, D
  <2>2. /\ c \in Seq(D \cup {m}) /\ Len(c) = Len(a) + 1
        /\ Range(c) = Range(a) \cup {m}
    <3>1. \A b \in Seq(D) : \A i \in 1..Len(b) + 1 :
            /\ Put(b, i, m) \in Seq(D \cup {m}) /\ Len(Put(b, i, m)) = Len(b) + 1
            /\ Range(Put(b, i, m)) = Range(b) \cup {m}
      BY PutMore, Zenon
    <3> QED
      BY <1>2, <2>1, <3>1, Zenon
  <2> QED
    BY <1>0, <1>2, <2>1, <2>2
<1>4. \A i \in 1..m : c[i] = IF i < k THEN a[i] ELSE IF i = k THEN m ELSE a[i - 1]
  BY DEF Put
<1> HIDE DEF c
<1>5. ASSUME NEW i \in 1..m, NEW j \in 1..m, i < j
      PROVE  Precedes(w, c[i], c[j])
  <2>1. CASE j < k
    <3>1. i \in 1..n /\ j \in 1..n /\ c[i] = a[i] /\ c[j] = a[j]
      BY <1>4, <1>5, <2>1
    <3> QED
      BY <1>5, <3>1
  <2>2. CASE j = k
    <3>1. i \in 1..n /\ i < k /\ c[i] = a[i] /\ c[j] = m
      BY <1>4, <1>5, <2>2
    <3>2. ~(w[m] > w[a[i]]) /\ a[i] < m
      BY <1>1, <3>1
    <3> QED
      BY <1>1, <1>2, <3>1, <3>2 DEF Precedes
  <2>3. CASE i < k /\ k < j
    <3>1. i \in 1..n /\ j - 1 \in 1..n /\ i < j - 1 /\ c[i] = a[i] /\ c[j] = a[j - 1]
      BY <1>4, <1>5, <2>3
    <3> QED
      BY <3>1
  <2>4. CASE i = k
    <3>1. j - 1 \in 1..n /\ k \in 1..n /\ k <= j - 1 /\ c[i] = m /\ c[j] = a[j - 1]
      BY <1>4, <1>5, <2>4
    <3>2. w[m] > w[a[k]]
      BY <3>1
    <3>3. w[a[k]] \in Int /\ w[a[j - 1]] \in Int /\ w[m] \in Int
      BY <1>1, <1>2, <3>1
    <3>4. w[m] > w[a[j - 1]]
      <4>1. k < j - 1 => Precedes(w, a[k], a[j - 1])
        BY <3>1
      <4>2. CASE k = j - 1
        BY <3>2, <4>2
      <4>3. CASE k < j - 1
        <5>1. w[a[k]] >= w[a[j - 1]]
          BY <3>3, <4>1, <4>3, SMTT(30) DEF Precedes
        <5> HIDE DEF m
        <5> QED
          BY <3>2, <3>3, <5>1, Above, Zenon
      <4> QED
        BY <3>1, <4>2, <4>3
    <3> QED
      BY <3>1, <3>4 DEF Precedes
  <2>5. CASE i > k
    <3>1. i - 1 \in 1..n /\ j - 1 \in 1..n /\ i - 1 < j - 1 /\ c[i] = a[i - 1] /\ c[j] = a[j - 1]
      BY <1>4, <1>5, <2>5
    <3> QED
      BY <3>1
  <2> QED
    BY <1>5, <2>1, <2>2, <2>3, <2>4, <2>5
<1>6. \A i \in 1..m : c[i] \in 1..m
  <2> HIDE DEF S, m
  <2>1. \A i \in 1..m : c[i] \in S
    BY <1>3, SequenceShape
  <2> QED
    BY <1>0, <2>1
<1>7. Sorted(c, ByWeight(w, m))
  <2>1. m \in Nat /\ w \in [1..m -> Int]
    OBVIOUS
  <2> HIDE DEF S, m
  <2> QED
    BY <1>3, <1>5, <1>6, <2>1, ByWeightOrders DEF Sorted
<1> QED
  BY <1>3, <1>7 DEF c

(* One more waiter: insertProcQ after the others.                           *)
LEMMA InsertOneMore ==
  ASSUME NEW P, NEW q \in Seq(P), NEW b \in Seq(P), NEW p \in P, NEW prio \in [P -> Int]
  PROVE  InsertAllProcQ(q, Append(b, p), prio)
           = InsertProcQ(InsertAllProcQ(q, b, prio), p, prio)
<1> DEFINE bp   == Append(b, p)
           all  == q \o b
           more == q \o bp
           n    == Len(all)
           N    == 1..n
           M    == 1..n + 1
           w    == [i \in M |-> prio[more[i]]]
<1>1. /\ all \in Seq(P) /\ n \in Nat /\ bp \in Seq(P)
      /\ more \in Seq(P) /\ Len(more) = n + 1
      /\ \A i \in 1..n : more[i] = all[i] /\ all[i] \in P
      /\ more[n + 1] = p
  <2>1. /\ all \in Seq(P) /\ bp \in Seq(P) /\ more = Append(all, p)
    BY SMTT(30)
  <2> HIDE DEF all, more, bp
  <2>2. n \in Nat /\ \A i \in 1..n : all[i] \in P
    BY <2>1, SequenceShape
  <2> QED
    BY <2>1, <2>2, AppendProperties
<1>2. PICK a \in Seq(1..Len(all)) :
        /\ InsertAllProcQ(q, b, prio) = Listed(all, a)
        /\ IsInjective(a) /\ Range(a) = 1..Len(all)
        /\ \A i, j \in 1..Len(a) : i < j =>
             \/ prio[all[a[i]]] > prio[all[a[j]]]
             \/ prio[all[a[i]]] = prio[all[a[j]]] /\ a[i] < a[j]
  BY InsertAllProcQPlaces, ZenonT(30)
<1> HIDE DEF bp
<1>3. PICK e \in Seq(1..Len(more)) :
        /\ InsertAllProcQ(q, bp, prio) = Listed(more, e)
        /\ IsInjective(e) /\ Range(e) = 1..Len(more)
        /\ \A i, j \in 1..Len(e) : i < j =>
             \/ prio[more[e[i]]] > prio[more[e[j]]]
             \/ prio[more[e[i]]] = prio[more[e[j]]] /\ e[i] < e[j]
  BY <1>1, InsertAllProcQPlaces, ZenonT(60)
<1>4. w \in [M -> Int] /\ \A i \in M : w[i] = prio[more[i]]
  <2>1. M = 1..Len(more)
    BY <1>1
  <2> HIDE DEF more
  <2>2. \A i \in M : more[i] \in P
    BY <1>1, <2>1, SequenceShape
  <2> QED
    BY <2>2
<1>5. /\ a \in Seq(N) /\ Range(a) = N /\ e \in Seq(M) /\ Range(e) = M
      /\ N = 1..n /\ M = 1..n + 1 /\ n = Len(all) /\ M = 1..Len(more)
  BY <1>1, <1>2, <1>3
<1> HIDE DEF all, more, n, N, M, w
<1>0. n \in Nat
  BY <1>1
<1>6. \A i \in 1..Len(e) : e[i] \in M
  BY <1>5, ElementOfSeq, Zenon
<1>7. Len(a) = n /\ \A i \in 1..n : a[i] \in 1..n
  <2>1. Len(a) = Cardinality(N)
    BY <1>2, <1>5, LengthCounts
  <2>2. \A i \in 1..Len(a) : a[i] \in N
    BY <1>5, ElementOfSeq, Zenon
  <2>3. Len(a) = n
    BY <1>0, <1>5, <2>1, Positions
  <2> QED
    BY <1>5, <2>2, <2>3
<1>8. /\ w \in [1..n + 1 -> Int] /\ w[n + 1] = prio[p]
      /\ \A i \in 1..n : w[i] = prio[all[i]]
      /\ \A i \in 1..n + 1 : w[i] = prio[more[i]]
  <2>1. n + 1 \in 1..n + 1 /\ \A i \in 1..n : i \in 1..n + 1
    BY <1>1
  <2> QED
    BY <1>1, <1>4, <1>5, <2>1
<1>9. Sorted(e, ByWeight(w, n + 1))
  <2>1. n + 1 \in Nat /\ \A i \in 1..Len(e) : e[i] \in 1..n + 1
    BY <1>1, <1>5, <1>6
  <2>2. ASSUME NEW i \in 1..Len(e), NEW j \in 1..Len(e), i < j
        PROVE  Precedes(w, e[i], e[j])
    <3>1. w[e[i]] = prio[more[e[i]]] /\ w[e[j]] = prio[more[e[j]]]
      BY <1>8, <2>1
    <3> QED
      BY <1>3, <2>2, <3>1 DEF Precedes
  <2> QED
    BY <1>8, <2>1, <2>2, ByWeightOrders DEF Sorted
<1>10. ASSUME NEW i \in 1..n, NEW j \in 1..n, i < j
       PROVE  Precedes(w, a[i], a[j])
  <2>1. w[a[i]] = prio[all[a[i]]] /\ w[a[j]] = prio[all[a[j]]]
    BY <1>7, <1>8
  <2>2. \/ prio[all[a[i]]] > prio[all[a[j]]]
        \/ prio[all[a[i]]] = prio[all[a[j]]] /\ a[i] < a[j]
    BY <1>2, <1>7, <1>10
  <2> QED
    BY <2>1, <2>2 DEF Precedes
<1>11. PICK k \in 1..n + 1 : /\ \A i \in 1..n : i < k => ~(w[n + 1] > w[a[i]])
                             /\ k \in 1..n => w[n + 1] > w[a[k]]
  <2> DEFINE T == {i \in 1..n : w[n + 1] > w[a[i]]}
  <2>1. CASE T = {}
    <3>1. n + 1 \in 1..n + 1 /\ n + 1 \notin 1..n
      BY <1>1
    <3> QED
      BY <2>1, <3>1
  <2>2. CASE T # {}
    <3>1. T \subseteq Nat
      BY <1>1
    <3>2. PICK k \in T : \A y \in T : k <= y
      <4> HIDE DEF T
      <4>1. Min(T) \in T /\ \A y \in T : Min(T) <= y
        BY <2>2, <3>1, FirstPosition
      <4> QED
        BY <4>1
    <3>3. k \in 1..n + 1 /\ \A i \in 1..n : i < k => i \notin T
      BY <1>1, <3>2
    <3> QED
      BY <3>2, <3>3
  <2> QED
    BY <2>1, <2>2
<1> DEFINE c == Put(a, k, n + 1)
<1>12. /\ c \in Seq(1..n + 1) /\ Len(c) = n + 1 /\ Range(c) = 1..n + 1
       /\ Sorted(c, ByWeight(w, n + 1))
  <2>1. ByRank(w, a, n)
    BY <1>5, <1>7, <1>10 DEF ByRank
  <2>2. Comes(w, a, k, n)
    BY <1>11 DEF Comes
  <2>3. w \in [1..n + 1 -> Int]
    BY <1>8
  <2> QED
    BY <1>0, <2>1, <2>2, <2>3, LastPut, Zenon
<1>13. e = c
  <2> DEFINE R == ByWeight(w, n + 1)
  <2>1. n + 1 \in Nat
    BY <1>1
  <2>2. /\ \A x \in M : <<x, x>> \notin R
        /\ \A x, y, z \in M : <<x, y>> \in R /\ <<y, z>> \in R => <<x, z>> \in R
    BY <1>5, <1>8, <2>1, ByWeightOrders
  <2>3. c \in Seq(M) /\ Range(c) = Range(e) /\ Sorted(c, R) /\ Sorted(e, R)
    BY <1>5, <1>9, <1>12
  <2> HIDE DEF c, R
  <2> QED
    BY <1>5, <2>2, <2>3, OneArrangement
<1> DEFINE r == Listed(all, a)
<1>14. r \in Seq(P) /\ Len(r) = n /\ \A i \in 1..n : r[i] = all[a[i]]
  <2>1. DOMAIN a = 1..n
    BY <1>5, <1>7, SequenceShape
  <2>2. r = [i \in 1..n |-> all[a[i]]]
    BY <2>1 DEF Listed
  <2>3. r \in [1..n -> P]
    BY <1>1, <1>7, <2>2
  <2> HIDE DEF r
  <2> QED
    BY <1>1, <2>2, <2>3, SequenceShape
<1> HIDE DEF r
<1>15. InsertProcQ(r, p, prio) = Put(r, k, p)
  <2>1. \A i \in 1..n : w[a[i]] = prio[r[i]]
    BY <1>7, <1>8, <1>14
  <2>2. \A i \in 1..Len(r) : i < k => ~(prio[p] > prio[r[i]])
    BY <1>8, <1>11, <1>14, <2>1
  <2>3. k \in 1..Len(r) => prio[p] > prio[r[k]]
    BY <1>8, <1>11, <1>14, <2>1
  <2>4. k \in 1..Len(r) + 1
    BY <1>14
  <2> QED
    BY <1>14, <2>2, <2>3, <2>4, InsertProcQPut
<1>16. Listed(more, c) = Put(r, k, p)
  <2>1. DOMAIN c = 1..n + 1
    BY <1>7 DEF Put
  <2>2. \A i \in 1..n + 1 : c[i] = IF i < k THEN a[i] ELSE IF i = k THEN n + 1 ELSE a[i - 1]
    BY <1>7 DEF Put
  <2> HIDE DEF c
  <2>3. Listed(more, c) = [i \in 1..n + 1 |-> more[c[i]]]
    BY <2>1 DEF Listed
  <2>4. Put(r, k, p) = [i \in 1..n + 1 |-> IF i < k THEN r[i] ELSE IF i = k THEN p ELSE r[i - 1]]
    BY <1>14 DEF Put
  <2>5. ASSUME NEW i \in 1..n + 1
        PROVE  more[c[i]] = IF i < k THEN r[i] ELSE IF i = k THEN p ELSE r[i - 1]
    <3>1. CASE i < k
      <4>1. i \in 1..n
        BY <1>0, <3>1
      <4>2. c[i] = a[i]
        BY <2>2, <3>1
      <4> QED
        BY <1>1, <1>7, <1>14, <3>1, <4>1, <4>2
    <3>2. CASE i = k
      BY <1>1, <2>2, <3>2
    <3>3. CASE i > k
      <4>1. i - 1 \in 1..n /\ ~(i < k) /\ i # k
        BY <1>0, <3>3
      <4>2. c[i] = a[i - 1]
        BY <2>2, <4>1
      <4> QED
        BY <1>1, <1>7, <1>14, <4>1, <4>2
    <3> QED
      BY <1>0, <3>1, <3>2, <3>3
  <2> QED
    BY <2>3, <2>4, <2>5
<1> HIDE DEF c
<1> QED
  BY <1>2, <1>3, <1>13, <1>15, <1>16 DEF r, bp

(* The first i elements.                                                    *)
Upto(b, i) == [j \in 1..i |-> b[j]]

LEMMA UptoElements ==
  ASSUME NEW P, NEW b \in Seq(P)
  PROVE  /\ Upto(b, 0) = <<>> /\ Upto(b, Len(b)) = b
         /\ \A i \in 1..Len(b) : /\ Upto(b, i - 1) \in Seq(P) /\ b[i] \in P
                                 /\ Upto(b, i) = Append(Upto(b, i - 1), b[i])
                                 /\ Range(Upto(b, i)) = Range(Upto(b, i - 1)) \cup {b[i]}
<1>1. Len(b) \in Nat /\ b \in [1..Len(b) -> P]
  BY SequenceShape
<1>2. Upto(b, Len(b)) = b
  BY <1>1 DEF Upto
<1>3. Upto(b, 0) = <<>>
  BY DEF Upto
<1>4. ASSUME NEW i \in 0..Len(b) PROVE Upto(b, i) \in Seq(P) /\ Len(Upto(b, i)) = i
                                       /\ \A j \in 1..i : Upto(b, i)[j] = b[j]
  <2>1. i \in Nat /\ Upto(b, i) \in [1..i -> P]
    BY <1>1 DEF Upto
  <2>2. \A j \in 1..i : Upto(b, i)[j] = b[j]
    BY DEF Upto
  <2> QED
    BY <2>1, <2>2, SequenceShape
<1>5. ASSUME NEW i \in 1..Len(b)
      PROVE  /\ Upto(b, i - 1) \in Seq(P) /\ b[i] \in P
             /\ Upto(b, i) = Append(Upto(b, i - 1), b[i])
             /\ Range(Upto(b, i)) = Range(Upto(b, i - 1)) \cup {b[i]}
  <2> DEFINE r == Upto(b, i - 1)
             x == b[i]
             s == Upto(b, i)
  <2>1. i - 1 \in 0..Len(b) /\ i \in 0..Len(b) /\ i - 1 + 1 = i /\ i - 1 \in Nat
    BY <1>1
  <2>2. r \in Seq(P) /\ x \in P /\ Len(r) = i - 1 /\ \A j \in 1..i - 1 : r[j] = b[j]
    BY <1>1, <1>4, <2>1
  <2>3. s \in Seq(P) /\ Len(s) = i /\ \A j \in 1..i : s[j] = b[j]
    BY <1>4, <2>1
  <2>4. b[i] = x
    OBVIOUS
  <2> HIDE DEF r, x, s
  <2>5. /\ Append(r, x) \in Seq(P) /\ Len(Append(r, x)) = i
        /\ \A j \in 1..i - 1 : Append(r, x)[j] = r[j]
        /\ Append(r, x)[i] = x
    BY <2>1, <2>2, AppendProperties
  <2>6. ASSUME NEW j \in 1..i PROVE s[j] = Append(r, x)[j]
    <3>1. j \in 1..i - 1 \/ j = i
      BY <2>1
    <3> QED
      BY <2>2, <2>3, <2>4, <2>5, <3>1
  <2>7. s = Append(r, x)
    BY <2>3, <2>5, <2>6, SameElements
  <2>8. Range(s) = Range(r) \cup {x}
    <3>1. Range(s) = {s[j] : j \in 1..i} /\ Range(r) = {r[j] : j \in 1..i - 1}
      BY <2>2, <2>3, SequenceShape, SMTT(30)
    <3>2. \A j \in 1..i : j \in 1..i - 1 \/ j = i
      BY <2>1
    <3> QED
      BY <2>1, <2>2, <2>3, <2>4, <3>1, <3>2
  <2> QED
    BY <2>2, <2>7, <2>8 DEF r, x, s
<1> QED
  BY <1>2, <1>3, <1>5

(* Nothing to insert: a queue in order stays as it is.                      *)
LEMMA InsertNone ==
  ASSUME NEW P, NEW q \in Seq(P), NEW prio \in [P -> Int], Ordered(q, prio)
  PROVE  InsertAllProcQ(q, <<>>, prio) = q
<1> DEFINE n == Len(q)
           none == <<>>
           all == q \o none
           b == [i \in 1..n |-> i]
           w == [i \in 1..n |-> prio[q[i]]]
<1>1. n \in Nat /\ q \in [1..n -> P] /\ DOMAIN q = 1..n
  BY SequenceShape
<1>2. none \in Seq(P) /\ all = q
  OBVIOUS
<1>3. \A i, j \in 1..n : i < j => prio[q[i]] >= prio[q[j]]
  BY <1>1 DEF Ordered
<1> HIDE DEF none
<1>4. PICK a \in Seq(1..Len(all)) :
        /\ InsertAllProcQ(q, none, prio) = Listed(all, a)
        /\ Range(a) = 1..Len(all)
        /\ \A i, j \in 1..Len(a) : i < j =>
             \/ prio[all[a[i]]] > prio[all[a[j]]]
             \/ prio[all[a[i]]] = prio[all[a[j]]] /\ a[i] < a[j]
  BY <1>2, InsertAllProcQPlaces, ZenonT(30)
<1> HIDE DEF all
<1>5. a \in Seq(1..n) /\ InsertAllProcQ(q, none, prio) = Listed(q, a) /\ Range(a) = 1..n
  BY <1>2, <1>4
<1>6. w \in [1..n -> Int] /\ \A i \in 1..n : w[i] = prio[q[i]]
  BY <1>1
<1>7. b \in [1..n -> 1..n] /\ \A i \in 1..n : b[i] = i
  BY <1>1
<1> HIDE DEF n, b, w
<1>8. b \in Seq(1..n) /\ Len(b) = n /\ Range(b) = 1..n
  <2>1. b \in Seq(1..n) /\ Len(b) = n
    BY <1>1, <1>7, SequenceShape
  <2>2. Range(b) = {b[i] : i \in 1..n}
    BY <1>7 DEF Range
  <2> QED
    BY <1>7, <2>1, <2>2
<1>9. ASSUME NEW i \in 1..n, NEW j \in 1..n, i < j
      PROVE  Precedes(w, i, j)
  <2>1. prio[q[i]] >= prio[q[j]] /\ w[i] = prio[q[i]] /\ w[j] = prio[q[j]]
    BY <1>3, <1>6, <1>9
  <2>2. w[i] \in Int /\ w[j] \in Int /\ w[i] >= w[j]
    BY <1>6, <2>1
  <2>3. w[i] > w[j] \/ w[i] = w[j]
    BY <2>2
  <2> QED
    BY <1>9, <2>3 DEF Precedes
<1>10. Sorted(b, ByWeight(w, n))
  BY <1>1, <1>6, <1>7, <1>8, <1>9, ByWeightOrders DEF Sorted
<1>11. Sorted(a, ByWeight(w, n))
  <2>1. \A i \in 1..Len(a) : a[i] \in 1..n
    BY <1>5, ElementOfSeq, Zenon
  <2>2. ASSUME NEW i \in 1..Len(a), NEW j \in 1..Len(a), i < j
        PROVE  Precedes(w, a[i], a[j])
    <3>1. w[a[i]] = prio[q[a[i]]] /\ w[a[j]] = prio[q[a[j]]]
      BY <1>6, <2>1
    <3> QED
      BY <1>2, <1>4, <2>2, <3>1 DEF Precedes
  <2> QED
    BY <1>1, <1>6, <2>1, <2>2, ByWeightOrders DEF Sorted
<1>12. a = b
  <2> DEFINE N == 1..n
             R == ByWeight(w, n)
  <2>1. /\ \A x \in N : <<x, x>> \notin R
        /\ \A x, y, z \in N : <<x, y>> \in R /\ <<y, z>> \in R => <<x, z>> \in R
    BY <1>1, <1>6, ByWeightOrders
  <2>2. a \in Seq(N) /\ b \in Seq(N) /\ Range(a) = Range(b) /\ Sorted(a, R) /\ Sorted(b, R)
    BY <1>5, <1>8, <1>10, <1>11
  <2> HIDE DEF N, R
  <2> QED
    BY <2>1, <2>2, OneArrangement
<1>13. Listed(q, b) = q
  <2>1. DOMAIN b = 1..n
    BY <1>7
  <2>2. Listed(q, b) = [i \in 1..n |-> q[b[i]]]
    BY <2>1 DEF Listed
  <2> QED
    BY <1>1, <1>7, <2>2
<1> QED
  BY <1>5, <1>12, <1>13 DEF none

(* What a loop over b leaves after each round.                              *)
InsertRounds(f, q, b, prio) ==
  f = [n \in 0..Len(b) |-> IF n = 0 THEN q ELSE InsertProcQ(f[n - 1], b[n], prio)]
OutRounds(f, q, d) ==
  f = [n \in 0..Len(d) |-> IF n = 0 THEN q ELSE OutProcQ(f[n - 1], d[n])]

(* The tick's loop, for queues of any length.                               *)
THEOREM InsertEachIs ==
  ASSUME NEW P, NEW q \in Seq(P), NEW b \in Seq(P), NEW prio \in [P -> Int], Ordered(q, prio)
  PROVE  InsertEach(q, b, prio) = InsertAllProcQ(q, b, prio)
<1> DEFINE n == Len(b)
           after == CHOOSE f : InsertRounds(f, q, b, prio)
           done == [i \in 0..n |-> InsertAllProcQ(q, Upto(b, i), prio)]
<1>1. InsertEach(q, b, prio) = after[n]
  BY Zenon DEF InsertEach, InsertRounds
<1>2. n \in Nat
  BY SequenceShape
<1>3. InsertAllProcQ(q, Upto(b, 0), prio) = q
  BY UptoElements, InsertNone
<1>4. ASSUME NEW i \in 1..n
      PROVE  InsertAllProcQ(q, Upto(b, i), prio)
               = InsertProcQ(InsertAllProcQ(q, Upto(b, i - 1), prio), b[i], prio)
  <2>1. Upto(b, i - 1) \in Seq(P) /\ b[i] \in P /\ Upto(b, i) = Append(Upto(b, i - 1), b[i])
    BY UptoElements
  <2> QED
    BY <2>1, InsertOneMore
<1>5. InsertRounds(done, q, b, prio)
  <2>1. done[0] = q
    BY <1>2, <1>3
  <2>2. ASSUME NEW i \in 0..n, i # 0 PROVE done[i] = InsertProcQ(done[i - 1], b[i], prio)
    <3>1. i \in 1..n /\ i - 1 \in 0..n
      BY <1>2, <2>2
    <3> QED
      BY <1>4, <3>1
  <2>3. done = [i \in 0..n |-> done[i]]
    OBVIOUS
  <2> HIDE DEF done
  <2> QED
    BY <2>1, <2>2, <2>3 DEF InsertRounds
<1>6. InsertRounds(after, q, b, prio)
  BY <1>5
<1> HIDE DEF after
<1>7. \A i \in 0..n : after[i] = IF i = 0 THEN q ELSE InsertProcQ(after[i - 1], b[i], prio)
  BY <1>6 DEF InsertRounds
<1> HIDE DEF n
<1> DEFINE S == {i \in 0..n : after[i] = InsertAllProcQ(q, Upto(b, i), prio)}
<1>8. 0 \in S
  BY <1>2, <1>3, <1>7
<1>9. ASSUME NEW i \in 0..n - 1, i \in S PROVE i + 1 \in S
  <2>1. i + 1 \in 0..n /\ i + 1 \in 1..n /\ i + 1 # 0 /\ i + 1 - 1 = i
    BY <1>2
  <2>2. after[i + 1] = InsertProcQ(after[i], b[i + 1], prio)
    BY <1>7, <2>1
  <2>3. InsertAllProcQ(q, Upto(b, i + 1), prio)
          = InsertProcQ(InsertAllProcQ(q, Upto(b, i), prio), b[i + 1], prio)
    BY <1>4, <2>1
  <2> QED
    BY <1>9, <2>1, <2>2, <2>3
<1> HIDE DEF S
<1>10. n \in S
  <2>1. 0..n \subseteq S
    BY <1>2, <1>8, <1>9, CountUp
  <2> QED
    BY <1>2, <2>1
<1> QED
  BY <1>1, <1>10, UptoElements DEF S, n

(* Taking out D and then E is taking out both.                              *)
LEMMA OutTwice ==
  ASSUME NEW P, NEW q \in Seq(P), NEW D, NEW E
  PROVE  OutAllProcQ(OutAllProcQ(q, D), E) = OutAllProcQ(q, D \cup E)
<1> DEFINE r == OutAllProcQ(q, D)
           F == D \cup E
           N == 1..Len(q)
<1>1. PICK a \in Seq(1..Len(q)) :
        /\ r = Listed(q, a)
        /\ Range(a) = {i \in 1..Len(q) : q[i] \notin D}
        /\ \A m, n \in 1..Len(a) : m < n => a[m] < a[n]
  BY OutAllProcQPlaces
<1>2. r \in Seq(P) /\ \A x : x \in F <=> x \in D \/ x \in E
  BY OutAllProcQLists
<1> HIDE DEF r, F
<1>3. PICK c \in Seq(1..Len(r)) :
        /\ OutAllProcQ(r, E) = Listed(r, c)
        /\ Range(c) = {i \in 1..Len(r) : r[i] \notin E}
        /\ \A m, n \in 1..Len(c) : m < n => c[m] < c[n]
  BY <1>2, OutAllProcQPlaces
<1>4. PICK e \in Seq(1..Len(q)) :
        /\ OutAllProcQ(q, F) = Listed(q, e)
        /\ Range(e) = {i \in 1..Len(q) : q[i] \notin F}
        /\ \A m, n \in 1..Len(e) : m < n => e[m] < e[n]
  BY OutAllProcQPlaces
<1>5. /\ Len(q) \in Nat /\ Len(a) \in Nat /\ DOMAIN a = 1..Len(a)
      /\ Range(a) = {a[i] : i \in 1..Len(a)}
      /\ \A i \in 1..Len(a) : a[i] \in 1..Len(q)
  BY SequenceShape
<1>6. Len(r) = Len(a) /\ \A i \in 1..Len(a) : r[i] = q[a[i]]
  <2>1. r = [i \in 1..Len(a) |-> q[a[i]]]
    BY <1>1, <1>5 DEF Listed
  <2>2. \A i \in 1..Len(q) : q[i] \in P
    BY ElementOfSeq, Zenon
  <2>3. r \in [1..Len(a) -> P]
    BY <1>5, <2>1, <2>2
  <2> QED
    BY <1>5, <2>1, <2>3, SequenceShape
<1>7. /\ Len(c) \in Nat /\ DOMAIN c = 1..Len(c)
      /\ Range(c) = {c[i] : i \in 1..Len(c)}
      /\ \A i \in 1..Len(c) : c[i] \in 1..Len(a)
  <2>1. /\ Len(c) \in Nat /\ DOMAIN c = 1..Len(c)
        /\ Range(c) = {c[i] : i \in 1..Len(c)}
    BY SequenceShape
  <2>2. \A i \in 1..Len(c) : c[i] \in 1..Len(r)
    BY ElementOfSeq, Zenon
  <2> QED
    BY <1>6, <2>1, <2>2
<1> DEFINE m == [i \in 1..Len(c) |-> a[c[i]]]
<1>8. m \in [1..Len(c) -> Nat] /\ \A i \in 1..Len(c) : m[i] = a[c[i]]
  BY <1>5, <1>7
<1>9. Listed(r, c) = Listed(q, m)
  <2>1. Listed(r, c) = [i \in 1..Len(c) |-> r[c[i]]]
    BY <1>7 DEF Listed
  <2>2. Listed(q, m) = [i \in 1..Len(c) |-> q[a[c[i]]]]
    BY DEF Listed
  <2>3. \A i \in 1..Len(c) : r[c[i]] = q[a[c[i]]]
    BY <1>6, <1>7
  <2> QED
    BY <2>1, <2>2, <2>3
<1>10. Range(m) = {m[i] : i \in 1..Len(c)}
  BY DEF Range
<1> HIDE DEF m
<1>11. m \in Seq(Nat) /\ Len(m) = Len(c)
  BY <1>7, <1>8, SequenceShape
<1>12. Increasing(m)
  <2> SUFFICES ASSUME NEW i \in 1..Len(c), NEW j \in 1..Len(c), i < j
               PROVE  m[i] < m[j]
    BY <1>11 DEF Increasing
  <2>1. c[i] < c[j] /\ c[i] \in 1..Len(a) /\ c[j] \in 1..Len(a)
    BY <1>3, <1>7
  <2>2. a[c[i]] < a[c[j]]
    BY <1>1, <2>1
  <2> QED
    BY <1>8, <2>2
<1>13. Range(m) = Range(e)
  <2>1. ASSUME NEW x \in Range(m) PROVE x \in Range(e)
    <3>1. PICK i \in 1..Len(c) : x = a[c[i]]
      BY <1>8, <1>10
    <3>2. c[i] \in 1..Len(a) /\ c[i] \in Range(c)
      BY <1>7
    <3>3. r[c[i]] \notin E /\ r[c[i]] = q[x] /\ x \in Range(a)
      BY <1>3, <1>5, <1>6, <3>1, <3>2
    <3> QED
      BY <1>1, <1>2, <1>4, <3>3
  <2>2. ASSUME NEW x \in Range(e) PROVE x \in Range(m)
    <3>1. x \in 1..Len(q) /\ q[x] \notin D /\ q[x] \notin E
      BY <1>2, <1>4
    <3>2. PICK k \in 1..Len(a) : x = a[k]
      BY <1>1, <1>5, <3>1
    <3>3. k \in Range(c)
      BY <1>3, <1>6, <3>1, <3>2
    <3> QED
      BY <1>7, <1>8, <1>10, <3>2, <3>3
  <2> QED
    BY <2>1, <2>2
<1>14. e \in Seq(Nat)
  <2>1. N \subseteq Nat /\ e \in Seq(N)
    BY <1>5
  <2> HIDE DEF N
  <2> QED
    BY <2>1, SeqMonotonic
<1>15. m = e
  BY <1>4, <1>11, <1>12, <1>13, <1>14, OneEnumeration DEF Increasing
<1> QED
  BY <1>3, <1>4, <1>9, <1>15 DEF r, F

(* RemoveAt takes a place out.                                              *)
LEMMA RemoveTakes ==
  ASSUME NEW P, NEW q \in Seq(P), NEW k \in 1..Len(q)
  PROVE  RemoveAt(q, k) = Dropped(q, k)
<1> DEFINE n == Len(q)
           a == SubSeq(q, 1, k - 1)
           b == SubSeq(q, k + 1, n)
           r == a \o b
<1>1. n \in Nat /\ k \in Nat /\ 1 <= k /\ k <= n
  BY SequenceShape
<1>2. /\ a \in Seq(P) /\ Len(a) = k - 1
      /\ \A i \in 1..k - 1 : a[i] = q[i]
  BY <1>1, SubSeqProperties
<1>3. /\ b \in Seq(P) /\ Len(b) = n - k
      /\ \A i \in 1..n - k : b[i] = q[k + i]
  BY <1>1, SubSeqProperties
<1>4. RemoveAt(q, k) = r
  BY DEF RemoveAt
<1> HIDE DEF a, b
<1>5. /\ r \in Seq(P) /\ Len(r) = n - 1
      /\ \A i \in 1..n - 1 : r[i] = IF i <= k - 1 THEN a[i] ELSE b[i - (k - 1)]
  <2>1. /\ r \in Seq(P) /\ Len(r) = Len(a) + Len(b)
        /\ \A i \in 1..(Len(a) + Len(b)) :
             r[i] = IF i <= Len(a) THEN a[i] ELSE b[i - Len(a)]
    BY <1>2, <1>3, ConcatProperties
  <2>2. Len(a) + Len(b) = n - 1
    BY <1>1, <1>2, <1>3
  <2> HIDE DEF r
  <2> QED
    BY <1>2, <2>1, <2>2
<1>6. Dropped(q, k) \in Seq(P) /\ Len(Dropped(q, k)) = n - 1
  BY TakenLists
<1> HIDE DEF r
<1>7. ASSUME NEW i \in 1..n - 1 PROVE r[i] = Dropped(q, k)[i]
  <2>1. Dropped(q, k)[i] = IF i < k THEN q[i] ELSE q[i + 1]
    BY DEF Dropped
  <2>2. CASE i < k
    <3>1. i <= k - 1 /\ i \in 1..k - 1
      BY <1>1, <2>2
    <3> QED
      BY <1>2, <1>5, <2>1, <2>2, <3>1
  <2>3. CASE i >= k
    <3>1. /\ ~(i <= k - 1) /\ ~(i < k) /\ i - (k - 1) \in 1..n - k
          /\ k + (i - (k - 1)) = i + 1
      BY <1>1, <2>3
    <3>2. b[i - (k - 1)] = q[i + 1]
      BY <1>3, <3>1
    <3> QED
      BY <1>5, <2>1, <3>1, <3>2
  <2> QED
    BY <1>1, <2>2, <2>3
<1> QED
  BY <1>4, <1>5, <1>6, <1>7, SameElements

(* outProcQ of one PCB, in a queue that has nobody twice.                   *)
LEMMA OutProcQIs ==
  ASSUME NEW P, NEW q \in Seq(P), IsInjective(q), NEW p
  PROVE  OutProcQ(q, p) = OutAllProcQ(q, {p})
<1> DEFINE at == {i \in DOMAIN q : q[i] = p}
           n == Len(q)
<1>1. n \in Nat /\ DOMAIN q = 1..n /\ \A i, j \in 1..n : q[i] = q[j] => i = j
  BY SequenceShape
<1>2. CASE at = {}
  <2>1. p \notin Range(q)
    BY <1>2 DEF Range
  <2>2. OutProcQ(q, p) = q
    BY <1>2 DEF OutProcQ
  <2> QED
    BY <2>1, <2>2, OutNobody
<1>3. CASE at # {}
  <2> DEFINE k == Min(at)
  <2>1. at \subseteq Nat
    BY <1>1
  <2>2. k \in at
    <3> HIDE DEF at
    <3> QED
      BY <1>3, <2>1, FirstPosition
  <2>3. k \in 1..n /\ q[k] = p
    BY <1>1, <2>2
  <2>4. OutProcQ(q, p) = RemoveAt(q, k)
    BY <1>3 DEF OutProcQ
  <2> HIDE DEF k, at
  <2>5. RemoveAt(q, k) = Dropped(q, k)
    BY <1>1, <2>3, RemoveTakes
  <2>6. OutAllProcQ(q, {q[k]}) = Dropped(q, k)
    BY <2>3, OutTaken
  <2> QED
    BY <2>3, <2>4, <2>5, <2>6
<1> QED
  BY <1>2, <1>3

(* The loop of a termination, for queues of any length that have nobody     *)
(* twice and whatever the order it meets the processes in.                  *)
THEOREM OutEachIs ==
  ASSUME NEW P, NEW q \in Seq(P), IsInjective(q), NEW Q, NEW d \in Seq(Q)
  PROVE  OutEach(q, d) = OutAllProcQ(q, Range(d))
<1> DEFINE n == Len(d)
           after == CHOOSE f : OutRounds(f, q, d)
           Out(i) == OutAllProcQ(q, Range(Upto(d, i)))
           done == [i \in 0..n |-> Out(i)]
<1>1. OutEach(q, d) = after[n]
  BY Zenon DEF OutEach, OutRounds
<1>2. n \in Nat
  BY SequenceShape
<1>3. Out(0) = q
  <2> DEFINE none == Range(Upto(d, 0))
  <2>1. none = {}
    BY UptoElements DEF Range
  <2>2. Range(q) \cap none = {}
    BY <2>1
  <2> HIDE DEF none
  <2> QED
    BY <2>2, OutAbsent DEF none
<1>4. ASSUME NEW i \in 1..n
      PROVE  Out(i) = OutProcQ(Out(i - 1), d[i])
  <2> DEFINE D == Range(Upto(d, i - 1))
             E == {d[i]}
             r == OutAllProcQ(q, D)
  <2>1. Range(Upto(d, i)) = D \cup E
    BY UptoElements
  <2>2. r \in Seq(P) /\ IsInjective(r)
    <3> HIDE DEF D
    <3> QED
      BY OutAllProcQLists
  <2>3. OutAllProcQ(r, E) = OutAllProcQ(q, D \cup E)
    <3> HIDE DEF D, E
    <3> QED
      BY OutTwice DEF r
  <2>4. OutProcQ(r, d[i]) = OutAllProcQ(r, E)
    <3> DEFINE p == d[i]
    <3>1. E = {p}
      OBVIOUS
    <3> HIDE DEF r, p, E
    <3>2. OutProcQ(r, p) = OutAllProcQ(r, {p})
      BY <2>2, OutProcQIs
    <3> QED
      BY <3>1, <3>2 DEF p
  <2> QED
    BY <2>1, <2>3, <2>4
<1> HIDE DEF Out
<1>5. OutRounds(done, q, d)
  <2>1. done[0] = q
    BY <1>2, <1>3
  <2>2. ASSUME NEW i \in 0..n, i # 0 PROVE done[i] = OutProcQ(done[i - 1], d[i])
    <3>1. i \in 1..n /\ i - 1 \in 0..n
      BY <1>2, <2>2
    <3> QED
      BY <1>4, <3>1
  <2>3. done = [i \in 0..n |-> done[i]]
    OBVIOUS
  <2> HIDE DEF done
  <2> QED
    BY <2>1, <2>2, <2>3 DEF OutRounds
<1>6. OutRounds(after, q, d)
  BY <1>5
<1> HIDE DEF after
<1>7. \A i \in 0..n : after[i] = IF i = 0 THEN q ELSE OutProcQ(after[i - 1], d[i])
  BY <1>6 DEF OutRounds
<1> HIDE DEF n
<1> DEFINE S == {i \in 0..n : after[i] = Out(i)}
<1>8. 0 \in S
  BY <1>2, <1>3, <1>7
<1>9. ASSUME NEW i \in 0..n - 1, i \in S PROVE i + 1 \in S
  <2>1. i + 1 \in 0..n /\ i + 1 \in 1..n /\ i + 1 # 0 /\ i + 1 - 1 = i
    BY <1>2
  <2>2. after[i + 1] = OutProcQ(after[i], d[i + 1])
    BY <1>7, <2>1
  <2>3. Out(i + 1) = OutProcQ(Out(i), d[i + 1])
    BY <1>4, <2>1
  <2> QED
    BY <1>9, <2>1, <2>2, <2>3
<1> HIDE DEF S
<1>10. n \in S
  <2>1. 0..n \subseteq S
    BY <1>2, <1>8, <1>9, CountUp
  <2> QED
    BY <1>2, <2>1
<1> QED
  BY <1>1, <1>10, UptoElements DEF S, n, Out
=============================================================================

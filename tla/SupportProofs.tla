---------------------------- MODULE SupportProofs ----------------------------
(****************************************************************************)
(* The support level, for any programs and lengths of strings: the shell    *)
(* and its programs never run at the same time, and a program is gone when  *)
(* the shell starts the next.                                               *)
(****************************************************************************)
EXTENDS Support, ProcessQueueProofs

-----------------------------------------------------------------------------
(* Queues that grow at the end.                                             *)

LEMMA AppendLists ==
  ASSUME NEW T, NEW q \in Seq(T), NEW x \in T
  PROVE  /\ Append(q, x) \in Seq(T) /\ Append(q, x) # <<>>
         /\ Range(Append(q, x)) = Range(q) \cup {x}
         /\ IsInjective(q) /\ x \notin Range(q) => IsInjective(Append(q, x))
         /\ q # <<>> => Head(Append(q, x)) = Head(q)
<1> DEFINE n == Len(q)
           r == Append(q, x)
<1>1. /\ n \in Nat /\ r \in Seq(T) /\ Len(r) = n + 1
      /\ \A i \in 1..n : r[i] = q[i]
      /\ r[n + 1] = x
  BY AppendProperties, LenProperties
<1>2. Range(q) = {q[i] : i \in 1..n} /\ Range(r) = {r[i] : i \in 1..(n + 1)}
  BY <1>1, SequenceShape
<1>3. q # <<>> => n > 0 /\ Head(q) = q[1]
  BY <1>1, EmptySeq
<1>4. r # <<>>
  <2>1. Len(<<>>) = 0 /\ n + 1 # 0
    BY <1>1, EmptySeq
  <2> HIDE DEF n, r
  <2> QED
    BY <1>1, <2>1
<1>5. /\ IsInjective(q) => \A i, j \in 1..n : q[i] = q[j] => i = j
      /\ (\A i, j \in 1..(n + 1) : r[i] = r[j] => i = j) => IsInjective(r)
  BY <1>1, SequenceShape
<1> HIDE DEF n, r
<1>6. Range(r) = Range(q) \cup {x}
  BY <1>1, <1>2
<1>7. ASSUME IsInjective(q), x \notin Range(q) PROVE IsInjective(r)
  <2>1. \A i \in 1..(n + 1) : i \in 1..n \/ i = n + 1
    BY <1>1
  <2> QED
    BY <1>1, <1>2, <1>5, <1>7, <2>1
<1>8. ASSUME q # <<>> PROVE Head(r) = Head(q)
  <2>1. Head(r) = r[1]
    BY <1>1, <1>4
  <2>2. 1 \in 1..n
    BY <1>1, <1>3, <1>8
  <2> QED
    BY <1>1, <1>3, <1>8, <2>1, <2>2
<1> QED
  BY <1>1, <1>4, <1>6, <1>7, <1>8 DEF r

(* In the queue q, c comes before s.                                        *)
Ahead(q, c, s) == \E i, j \in DOMAIN q : i < j /\ q[i] = c /\ q[j] = s

LEMMA AheadAppend ==
  ASSUME NEW T, NEW q \in Seq(T), NEW x \in T, NEW c
  PROVE  /\ \A s : Ahead(q, c, s) => Ahead(Append(q, x), c, s)
         /\ c \in Range(q) => Ahead(Append(q, x), c, x)
<1> DEFINE n == Len(q)
           r == Append(q, x)
<1>1. /\ n \in Nat /\ DOMAIN q = 1..n /\ DOMAIN r = 1..(n + 1)
      /\ \A i \in 1..n : r[i] = q[i]
      /\ r[n + 1] = x
  BY AppendProperties, LenProperties
<1> HIDE DEF n, r
<1>2. \A s : Ahead(q, c, s) => Ahead(r, c, s)
  BY <1>1 DEF Ahead
<1>3. ASSUME c \in Range(q) PROVE Ahead(r, c, x)
  <2>1. PICK i \in 1..n : q[i] = c
    BY <1>1, <1>3 DEF Range
  <2>2. i \in 1..(n + 1) /\ n + 1 \in 1..(n + 1) /\ i < n + 1
    BY <1>1
  <2> QED
    BY <1>1, <2>1, <2>2 DEF Ahead
<1> QED
  BY <1>2, <1>3 DEF r

LEMMA AheadTail ==
  ASSUME NEW T, NEW q \in Seq(T), q # <<>>, NEW c, NEW s,
         Ahead(q, c, s), Head(q) # c
  PROVE  Ahead(Tail(q), c, s)
<1> DEFINE n == Len(q)
           t == Tail(q)
<1>1. /\ n \in Nat \ {0} /\ DOMAIN q = 1..n /\ Head(q) = q[1]
      /\ DOMAIN t = 1..(n - 1)
      /\ \A i \in 1..(n - 1) : t[i] = q[i + 1]
  BY EmptySeq, LenProperties, HeadTailProperties
<1> HIDE DEF n, t
<1>2. PICK i \in 1..n, j \in 1..n : i < j /\ q[i] = c /\ q[j] = s
  BY <1>1 DEF Ahead
<1>3. i # 1
  BY <1>1, <1>2
<1>4. /\ i - 1 \in 1..(n - 1) /\ j - 1 \in 1..(n - 1) /\ i - 1 < j - 1
      /\ t[i - 1] = c /\ t[j - 1] = s
  BY <1>1, <1>2, <1>3
<1> QED
  BY <1>1, <1>4 DEF Ahead, t

LEMMA AheadOut ==
  ASSUME NEW T, NEW q \in Seq(T), NEW D, NEW c, NEW s,
         Ahead(q, c, s), c \notin D, s \notin D
  PROVE  Ahead(OutAllProcQ(q, D), c, s)
<1> DEFINE r == OutAllProcQ(q, D)
<1>1. Keeps(q, r, D)
  BY OutAllProcQOrders
<1>2. PICK i \in DOMAIN q, j \in DOMAIN q : i < j /\ q[i] = c /\ q[j] = s
  BY DEF Ahead
<1>3. c \in Range(r)
  BY <1>2, OutAllProcQLists DEF Range
<1> HIDE DEF r
<1>4. \E m, n \in DOMAIN r : m < n /\ r[m] = c /\ r[n] = s
  BY <1>1, <1>2, <1>3 DEF Keeps
<1> QED
  BY <1>4 DEF Ahead, r

(* Nobody is ahead of the first.                                            *)
LEMMA NobodyAheadOfHead ==
  ASSUME NEW T, NEW q \in Seq(T), q # <<>>, IsInjective(q), NEW c
  PROVE  ~Ahead(q, c, Head(q))
<1>1. /\ Len(q) \in Nat \ {0} /\ DOMAIN q = 1..Len(q) /\ Head(q) = q[1]
  BY EmptySeq, LenProperties
<1>2. \A i, j \in 1..Len(q) : q[i] = q[j] => i = j
  BY SequenceShape
<1> QED
  BY <1>1, <1>2 DEF Ahead

(* A queue of one or none that loses nobody stays.                          *)
LEMMA ShortOut ==
  ASSUME NEW T, NEW x \in T, NEW D
  PROVE  /\ OutAllProcQ(<<>>, D) = <<>>
         /\ x \notin D => OutAllProcQ(<<x>>, D) = <<x>>
         /\ x \in D => OutAllProcQ(<<x>>, D) = <<>>
         /\ Len(<<x>>) = 1 /\ Len(<<>>) = 0
         /\ Range(<<x>>) = {x} /\ IsInjective(<<x>>) /\ <<x>> # <<>>
<1> DEFINE none == <<>>
           one == <<x>>
<1>0. /\ none \in Seq(T) /\ Len(none) = 0
      /\ one \in Seq(T) /\ Len(one) = 1 /\ one[1] = x
  BY EmptySeq
<1>1. none = <<>>
  OBVIOUS
<1>2. \A q \in Seq(T) : Len(q) = 1 /\ q[1] = x => q = one
  BY <1>0, SeqEqual
<1> HIDE DEF none, one
<1>3. Range(none) = {}
  BY <1>0, <1>1, EmptyLists
<1>4. Range(one) = {x} /\ IsInjective(one) /\ one # none
  <2>1. Range(one) = {one[i] : i \in 1..1}
    BY <1>0, SequenceShape
  <2>2. \A i \in 1..1 : i = 1
    OBVIOUS
  <2>3. IsInjective(one)
    BY <1>0, <2>2, SequenceShape
  <2> QED
    BY <1>0, <2>1, <2>2, <2>3
<1>5. OutAllProcQ(none, D) = none
  <2>1. /\ OutAllProcQ(none, D) \in Seq(T)
        /\ Range(OutAllProcQ(none, D)) = Range(none) \ D
    BY <1>0, OutAllProcQLists
  <2> QED
    BY <1>1, <1>3, <2>1, EmptyLists
<1>6. /\ OutAllProcQ(one, D) \in Seq(T)
      /\ Range(OutAllProcQ(one, D)) = {x} \ D
      /\ IsInjective(OutAllProcQ(one, D))
  BY <1>0, <1>4, OutAllProcQLists
<1>7. ASSUME x \in D PROVE OutAllProcQ(one, D) = none
  BY <1>1, <1>6, <1>7, EmptyLists
<1>8. ASSUME x \notin D PROVE OutAllProcQ(one, D) = one
  <2> DEFINE r == OutAllProcQ(one, D)
  <2>1. r \in Seq(T) /\ Range(r) = {x} /\ IsInjective(r)
    BY <1>6, <1>8
  <2> HIDE DEF r
  <2>2. Len(r) = 1
    BY <2>1, LengthCounts, FS_Singleton
  <2>3. r[1] = x
    <3>1. Range(r) = {r[i] : i \in 1..Len(r)}
      BY <2>1, SequenceShape, Zenon
    <3>2. 1 \in 1..Len(r)
      BY <2>2
    <3>3. r[1] \in {x}
      BY <2>1, <3>1, <3>2, Zenon
    <3> QED
      BY <3>3
  <2> QED
    BY <1>2, <2>1, <2>2, <2>3 DEF r
<1> QED
  BY <1>0, <1>4, <1>5, <1>7, <1>8 DEF none, one

-----------------------------------------------------------------------------
(* Who is where.  A process is in the ready queue, waits for one semaphore, *)
(* or for the terminal: once, and in one of these places.                   *)

QueueTypeOK ==
  /\ ready \in Seq(Processes)
  /\ sem \in [Semaphores -> Int]
  /\ waiting \in [Semaphores -> Seq(Processes)]
  /\ device \in SUBSET Uprocs

Queues ==
  /\ QueueTypeOK
  /\ IsInjective(ready)
  /\ \A s \in Semaphores : IsInjective(waiting[s])
  /\ device \cap Range(ready) = {}
  /\ \A s \in Semaphores : Range(waiting[s]) \cap (Range(ready) \cup device) = {}
  /\ \A s, t \in Semaphores : s # t => Range(waiting[s]) \cap Range(waiting[t]) = {}

Residents ==
  Range(ready) \cup device \cup UNION {Range(waiting[s]) : s \in Semaphores}

LEMMA FirstReady ==
  ASSUME Queues, NEW p, Runs(p)
  PROVE  /\ ready # <<>> /\ Head(ready) = p
         /\ p \in Range(ready) /\ p \in Residents /\ p \in Processes
         /\ Tail(ready) \in Seq(Processes) /\ IsInjective(Tail(ready))
         /\ Range(ready) = Range(Tail(ready)) \cup {p} /\ p \notin Range(Tail(ready))
BY TailLists DEF Queues, QueueTypeOK, Runs, Residents

(* passeren: the running process goes on, or from the ready queue to the    *)
(* end of the queue of the semaphore.                                       *)
LEMMA PKeeps ==
  ASSUME Queues, NEW p, Runs(p), NEW s \in Semaphores, P(p, s), device' = device
  PROVE  /\ Queues' /\ Residents' = Residents
         /\ ready' = ready \/ ready' = Tail(ready)
<1>1. sem' \in [Semaphores -> Int]
  BY DEF P, Queues, QueueTypeOK
<1>2. CASE UNCHANGED <<waiting, ready>>
  BY <1>1, <1>2 DEF Queues, QueueTypeOK, Residents
<1>3. CASE /\ waiting' = [waiting EXCEPT ![s] = Append(@, p)]
           /\ ready' = Tail(ready)
  <2>1. /\ p \in Processes /\ p \in Range(ready)
        /\ ready' \in Seq(Processes) /\ IsInjective(ready')
        /\ Range(ready) = Range(ready') \cup {p} /\ p \notin Range(ready')
    BY <1>3, FirstReady
  <2> DEFINE w == Append(waiting[s], p)
  <2>2. /\ w \in Seq(Processes) /\ IsInjective(w)
        /\ Range(w) = Range(waiting[s]) \cup {p}
    <3>1. waiting[s] \in Seq(Processes) /\ IsInjective(waiting[s])
      BY DEF Queues, QueueTypeOK
    <3>2. p \notin Range(waiting[s])
      BY <2>1 DEF Queues
    <3> QED
      BY <2>1, <3>1, <3>2, AppendLists
  <2> HIDE DEF w
  <2>3. /\ waiting' \in [Semaphores -> Seq(Processes)]
        /\ waiting'[s] = w /\ \A t \in Semaphores \ {s} : waiting'[t] = waiting[t]
    BY <1>3, <2>2 DEF Queues, QueueTypeOK, w
  <2>4. \A t \in Semaphores :
          /\ IsInjective(waiting'[t])
          /\ Range(waiting'[t]) = IF t = s THEN Range(waiting[s]) \cup {p}
                                          ELSE Range(waiting[t])
    BY <2>2, <2>3 DEF Queues
  <2>5. Queues'
    <3>1. QueueTypeOK'
      BY <1>1, <2>1, <2>3 DEF Queues, QueueTypeOK
    <3>2. device' \cap Range(ready') = {} /\ p \notin device
      BY <2>1 DEF Queues
    <3>3. \A t \in Semaphores :
            Range(waiting'[t]) \cap (Range(ready') \cup device') = {}
      <4>1. \A t \in Semaphores : Range(waiting[t]) \cap (Range(ready) \cup device) = {}
        BY DEF Queues
      <4> QED
        BY <2>1, <2>4, <3>2, <4>1
    <3>4. \A t, u \in Semaphores :
            t # u => Range(waiting'[t]) \cap Range(waiting'[u]) = {}
      <4>1. \A t \in Semaphores : p \notin Range(waiting[t])
        BY <2>1 DEF Queues
      <4>2. \A t, u \in Semaphores :
              t # u => Range(waiting[t]) \cap Range(waiting[u]) = {}
        BY DEF Queues
      <4> QED
        BY <2>4, <4>1, <4>2
    <3> QED
      BY <2>1, <2>4, <3>1, <3>2, <3>3, <3>4 DEF Queues
  <2>6. Residents' = Residents
    BY <2>1, <2>4 DEF Residents
  <2> QED
    BY <1>3, <2>5, <2>6
<1> QED
  BY <1>2, <1>3 DEF P

(* verhogen: the first that waits becomes ready.                            *)
LEMMA VKeeps ==
  ASSUME Queues, NEW s \in Semaphores, V(s), device' = device
  PROVE  /\ Queues' /\ Residents' = Residents
         /\ \/ ready' = ready
            \/ \E x \in Processes \ Range(ready) :
                 x \in Residents /\ ready' = Append(ready, x)
<1>1. sem' \in [Semaphores -> Int]
  BY DEF V, Queues, QueueTypeOK
<1>2. CASE UNCHANGED <<waiting, ready>>
  BY <1>1, <1>2 DEF Queues, QueueTypeOK, Residents
<1>3. CASE /\ waiting[s] # <<>>
           /\ ready' = Append(ready, Head(waiting[s]))
           /\ waiting' = [waiting EXCEPT ![s] = Tail(@)]
  <2> DEFINE x == Head(waiting[s])
             w == Tail(waiting[s])
  <2>1. waiting[s] \in Seq(Processes) /\ IsInjective(waiting[s])
    BY DEF Queues, QueueTypeOK
  <2>2. /\ x \in Processes /\ x \in Range(waiting[s])
        /\ w \in Seq(Processes) /\ IsInjective(w)
        /\ Range(waiting[s]) = Range(w) \cup {x} /\ x \notin Range(w)
    BY <1>3, <2>1, TailLists
  <2>3. ready' = Append(ready, x)
    BY <1>3
  <2>4. waiting' = [waiting EXCEPT ![s] = w]
    BY <1>3
  <2> HIDE DEF x, w
  <2>5. x \notin Range(ready) /\ x \notin device
    BY <2>2 DEF Queues
  <2>6. /\ ready' \in Seq(Processes) /\ IsInjective(ready')
        /\ Range(ready') = Range(ready) \cup {x}
    BY <2>2, <2>3, <2>5, AppendLists DEF Queues, QueueTypeOK
  <2>7. /\ waiting' \in [Semaphores -> Seq(Processes)]
        /\ waiting'[s] = w /\ \A t \in Semaphores \ {s} : waiting'[t] = waiting[t]
    BY <2>2, <2>4 DEF Queues, QueueTypeOK
  <2>8. \A t \in Semaphores :
          /\ IsInjective(waiting'[t])
          /\ Range(waiting'[t]) = IF t = s THEN Range(w) ELSE Range(waiting[t])
    BY <2>2, <2>7 DEF Queues
  <2>9. Queues'
    <3>1. QueueTypeOK'
      BY <1>1, <2>6, <2>7 DEF Queues, QueueTypeOK
    <3>2. device' \cap Range(ready') = {}
      BY <2>5, <2>6 DEF Queues
    <3>3. \A t, u \in Semaphores :
            t # u => Range(waiting[t]) \cap Range(waiting[u]) = {}
      BY DEF Queues
    <3>4. \A t \in Semaphores : x \notin Range(waiting'[t])
      BY <2>2, <2>8, <3>3
    <3>5. \A t \in Semaphores :
            Range(waiting'[t]) \cap (Range(ready') \cup device') = {}
      <4>1. \A t \in Semaphores : Range(waiting[t]) \cap (Range(ready) \cup device) = {}
        BY DEF Queues
      <4> QED
        BY <2>2, <2>6, <2>8, <3>4, <4>1
    <3>6. \A t, u \in Semaphores :
            t # u => Range(waiting'[t]) \cap Range(waiting'[u]) = {}
      BY <2>2, <2>8, <3>3
    <3> QED
      BY <2>6, <2>8, <3>1, <3>2, <3>5, <3>6 DEF Queues
  <2>10. Residents' = Residents
    BY <2>2, <2>6, <2>8 DEF Residents
  <2> QED
    BY <2>2, <2>3, <2>5, <2>9, <2>10 DEF Residents
<1> QED
  BY <1>2, <1>3 DEF V

LEMMA DoIOKeeps ==
  ASSUME Queues, NEW p \in Uprocs, Runs(p), DoIO(p), UNCHANGED <<sem, waiting>>
  PROVE  Queues' /\ Residents' = Residents /\ ready' = Tail(ready)
<1>1. /\ p \in Range(ready)
      /\ ready' \in Seq(Processes) /\ IsInjective(ready')
      /\ Range(ready) = Range(ready') \cup {p} /\ p \notin Range(ready')
      /\ device' = device \cup {p}
  BY FirstReady DEF DoIO
<1>2. Queues'
  BY <1>1 DEF Queues, QueueTypeOK
<1>3. Residents' = Residents
  BY <1>1 DEF Residents
<1> QED
  BY <1>2, <1>3 DEF DoIO

(* A process that was nowhere becomes ready.                                *)
LEMMA CreationKeeps ==
  ASSUME Queues, NEW p \in Processes \ Residents, ready' = Append(ready, p),
         UNCHANGED <<sem, waiting, device>>
  PROVE  Queues' /\ Residents' = Residents \cup {p}
<1>1. /\ p \notin Range(ready) /\ p \notin device
      /\ \A s \in Semaphores : p \notin Range(waiting[s])
  BY DEF Residents
<1>2. /\ ready' \in Seq(Processes) /\ IsInjective(ready')
      /\ Range(ready') = Range(ready) \cup {p}
  BY <1>1, AppendLists DEF Queues, QueueTypeOK
<1>3. Queues'
  BY <1>1, <1>2 DEF Queues, QueueTypeOK
<1> QED
  BY <1>2, <1>3 DEF Residents

LEMMA NothingQueued ==
  ASSUME Queues, UNCHANGED <<ready, sem, waiting, device>>
  PROVE  Queues' /\ Residents' = Residents
BY DEF Queues, QueueTypeOK, Residents

(* The processes that end leave all queues.                                 *)
LEMMA TerminationKeeps ==
  ASSUME Queues, NEW p \in Processes, TermProcess(p)
  PROVE  /\ Queues' /\ Residents' \subseteq Residents \ Subtree(p)
         /\ Range(ready') = Range(ready) \ Subtree(p)
<1> DEFINE out == Subtree(p)
<1>1. /\ ready' \in Seq(Processes) /\ IsInjective(ready')
      /\ Range(ready') = Range(ready) \ out
  BY OutAllProcQLists DEF TermProcess, Queues, QueueTypeOK
<1>2. ASSUME NEW s \in Semaphores
      PROVE  /\ waiting'[s] \in Seq(Processes) /\ IsInjective(waiting'[s])
             /\ Range(waiting'[s]) = Range(waiting[s]) \ out
             /\ sem'[s] = sem[s] + Len(waiting[s]) - Len(waiting'[s])
  <2>1. waiting[s] \in Seq(Processes) /\ IsInjective(waiting[s])
    BY DEF Queues, QueueTypeOK
  <2>2. /\ waiting'[s] = OutAllProcQ(waiting[s], out)
        /\ sem'[s] = sem[s] + Len(waiting[s]) - Len(OutAllProcQ(waiting[s], out))
    BY DEF TermProcess
  <2> QED
    BY <2>1, <2>2, OutAllProcQLists
<1>3. waiting' \in [Semaphores -> Seq(Processes)]
  <2>1. waiting' = [s \in Semaphores |-> waiting'[s]]
    BY DEF TermProcess
  <2> QED
    BY <1>2, <2>1
<1>4. sem' \in [Semaphores -> Int]
  <2>1. sem' = [s \in Semaphores |-> sem'[s]]
    BY DEF TermProcess
  <2>2. \A s \in Semaphores : sem[s] \in Int /\ Len(waiting[s]) \in Nat /\ Len(waiting'[s]) \in Nat
    BY <1>2, LenProperties DEF Queues, QueueTypeOK
  <2>3. ASSUME NEW s \in Semaphores PROVE sem'[s] \in Int
    <3> DEFINE now == Len(waiting'[s])
    <3>1. sem[s] \in Int /\ Len(waiting[s]) \in Nat /\ now \in Nat
      BY <2>2
    <3>2. sem'[s] = sem[s] + Len(waiting[s]) - now
      BY <1>2
    <3> HIDE DEF now
    <3> QED
      BY <3>1, <3>2
  <2> QED
    BY <2>1, <2>3
<1>5. device' = device \ out
  BY DEF TermProcess
<1> HIDE DEF out
<1>6. Queues'
  BY <1>1, <1>2, <1>3, <1>4, <1>5 DEF Queues, QueueTypeOK
<1>7. Residents' \subseteq Residents \ out
  <2>1. ASSUME NEW s \in Semaphores
        PROVE  Range(waiting'[s]) \subseteq Residents \ out
    BY <1>2 DEF Residents
  <2>2. Range(ready') \subseteq Residents \ out /\ device' \subseteq Residents \ out
    BY <1>1, <1>5 DEF Residents
  <2>3. Residents' = Range(ready') \cup device' \cup UNION {Range(waiting'[s]) : s \in Semaphores}
    BY DEF Residents
  <2> QED
    BY <2>1, <2>2, <2>3, Zenon
<1> QED
  BY <1>1, <1>6, <1>7 DEF out

-----------------------------------------------------------------------------
(* The types.  Who is somewhere has been created, and who waits for the     *)
(* terminal has a character to send or room for one.                        *)

Locations == UserAt \cup WriteAt \cup ReadAt \cup ExecuteAt \cup EndAt \cup TestAt
Alive     == Locations \ {"none"}
InIO      == {"writeIO", "readIO"}

RestTypeOK ==
  /\ pc \in [Processes -> Locations]
  /\ left \in [Uprocs -> 0..MaxLen]
  /\ ran \in BOOLEAN
  /\ line \in ShellLines

Living  == \A p \in Residents : pc[p] # "none"
Counted == \A p \in Uprocs : pc[p] \in InIO => left[p] > 0

TypeInv == Queues /\ RestTypeOK /\ Living /\ Counted

LEMMA TypeParts == TypeOK <=> QueueTypeOK /\ RestTypeOK
BY DEF TypeOK, QueueTypeOK, RestTypeOK, Locations

LEMMA Processors ==
  /\ test \in Processes /\ shell \in Uprocs /\ Programs \subseteq Uprocs
  /\ Uprocs \subseteq Processes /\ test \notin Uprocs /\ shell # test
  /\ \A p \in Uprocs : p = shell \/ p \in Programs
  /\ "masterSemaphore" \in Semaphores /\ "shellSemaphore" \in Semaphores
  /\ "termMutexTX" \in Semaphores /\ "termMutexRX" \in Semaphores
BY ProcessesAssumption DEF Processes, Uprocs, Semaphores

LEMMA LinesAfter ==
  /\ \A failed \in BOOLEAN : AfterPrint(failed) \subseteq ShellLines
  /\ \A failed \in BOOLEAN : AfterRead(failed) \subseteq ShellLines
  /\ line \in {"prompt", "read"} => AfterPrint(FALSE) \subseteq {"prompt", "read"}
<1>1. ASSUME NEW failed \in BOOLEAN
      PROVE  AfterPrint(failed)
               \in {{"quit"}, {"badStatus"}, {"read"}, {"notFound"}, {"prompt"}}
  BY Zenon DEF AfterPrint
<1>2. ASSUME NEW failed \in BOOLEAN PROVE AfterPrint(failed) \subseteq ShellLines
  BY <1>1 DEF ShellLines, Prints
<1>3. ASSUME line = "prompt" PROVE AfterPrint(FALSE) = {"read"}
  <2>1. line # "badStatus"
    BY <1>3
  <2> QED
    BY <1>3, <2>1, Zenon DEF AfterPrint
<1>4. ASSUME line = "read" PROVE AfterPrint(FALSE) = {"prompt"}
  <2>1. line # "badStatus" /\ line # "prompt" /\ line # "bye" /\ line # "unknown"
    BY <1>4
  <2> QED
    BY <2>1, Zenon DEF AfterPrint
<1>5. \A failed \in BOOLEAN : AfterRead(failed) \subseteq ShellLines
  BY DEF AfterRead, ShellLines, Prints
<1> QED
  BY <1>2, <1>3, <1>4, <1>5

LEMMA ResidentsExist ==
  ASSUME Queues PROVE Residents \subseteq Processes
<1>1. ASSUME NEW q \in Seq(Processes) PROVE Range(q) \subseteq Processes
  BY SequenceShape
<1>2. /\ Range(ready) \subseteq Processes /\ device \subseteq Processes
      /\ \A s \in Semaphores : Range(waiting[s]) \subseteq Processes
  BY <1>1, Processors DEF Queues, QueueTypeOK
<1> QED
  BY <1>2 DEF Residents

(* The running process moves on, by whatever call.                          *)
LEMMA MoveKeeps ==
  ASSUME TypeInv, NEW p \in Processes, NEW from, NEW to \in Alive,
         Moves(p, from, to), Queues', Residents' = Residents,
         left' \in [Uprocs -> 0..MaxLen],
         \A q \in Uprocs \ {p} : left'[q] = left[q],
         p \in Uprocs /\ to \in InIO => left'[p] > 0,
         line' \in ShellLines, Ran
  PROVE  TypeInv'
<1>1. /\ pc' \in [Processes -> Locations]
      /\ pc'[p] = to /\ \A q \in Processes \ {p} : pc'[q] = pc[q]
  BY DEF TypeInv, RestTypeOK, Moves, Alive
<1>2. RestTypeOK'
  BY <1>1 DEF RestTypeOK, Ran
<1>3. Living'
  <2>1. Residents \subseteq Processes
    BY ResidentsExist DEF TypeInv
  <2> QED
    BY <1>1, <2>1 DEF TypeInv, Living, Alive
<1>4. Counted'
  BY <1>1, Processors DEF TypeInv, Counted
<1> QED
  BY <1>2, <1>3, <1>4 DEF TypeInv

LEMMA CallKeeps ==
  ASSUME TypeInv, NEW p \in Uprocs, NEW to \in Alive \ InIO, NEW n \in 0..MaxLen,
         Call(p, to, n), Ran
  PROVE  TypeInv'
<1>1. Queues' /\ Residents' = Residents
  BY NothingQueued DEF Call, TypeInv
<1>2. /\ left' \in [Uprocs -> 0..MaxLen]
      /\ \A q \in Uprocs \ {p} : left'[q] = left[q]
      /\ line' \in ShellLines /\ Moves(p, "user", to)
  BY DEF Call, TypeInv, RestTypeOK
<1> QED
  BY <1>1, <1>2, MoveKeeps, Processors

LEMMA AcquireKeeps ==
  ASSUME TypeInv, NEW p \in Processes, NEW from, NEW s \in Semaphores,
         NEW to \in Alive \ InIO, Acquire(p, from, s, to), Ran
  PROVE  TypeInv'
<1>1. Queues' /\ Residents' = Residents
  BY PKeeps DEF Acquire, Moves, At, TypeInv
<1>2. left' = left /\ line' = line /\ Moves(p, from, to)
  BY DEF Acquire
<1> QED
  BY <1>1, <1>2, MoveKeeps DEF TypeInv, RestTypeOK

LEMMA ReleaseKeeps ==
  ASSUME TypeInv, NEW p \in Processes, NEW from, NEW s \in Semaphores,
         NEW to \in Alive \ InIO, Moves(p, from, to), V(s),
         UNCHANGED <<left, device>>, line' \in ShellLines, Ran
  PROVE  TypeInv'
<1>1. Queues' /\ Residents' = Residents
  BY VKeeps DEF TypeInv
<1> QED
  BY <1>1, MoveKeeps DEF TypeInv, RestTypeOK

LEMMA GoesKeeps ==
  ASSUME TypeInv, NEW p \in Uprocs, NEW from, NEW to \in Alive \ InIO,
         Goes(p, from, to), Ran,
         left' = left \/ (from \in InIO /\ left' = [left EXCEPT ![p] = @ - 1])
  PROVE  TypeInv'
<1>1. Queues' /\ Residents' = Residents
  BY NothingQueued DEF Goes, TypeInv
<1>2. from \in InIO => left[p] > 0
  BY DEF Goes, Moves, At, TypeInv, Counted
<1>3. /\ left' \in [Uprocs -> 0..MaxLen]
      /\ \A q \in Uprocs \ {p} : left'[q] = left[q]
      /\ line' \in ShellLines /\ Moves(p, from, to)
  BY <1>2, ProcessesAssumption DEF Goes, TypeInv, RestTypeOK
<1> QED
  BY <1>1, <1>3, MoveKeeps, Processors

LEMMA StartIOKeeps ==
  ASSUME TypeInv, NEW p \in Uprocs, NEW from, NEW to \in InIO,
         StartIO(p, from, to), Ran
  PROVE  TypeInv'
<1>1. Queues' /\ Residents' = Residents
  BY DoIOKeeps DEF StartIO, Moves, At, TypeInv
<1>2. to \in Alive
  BY DEF InIO, Alive, Locations, WriteAt, ReadAt
<1>3. left' = left /\ line' = line /\ left[p] > 0 /\ Moves(p, from, to)
  BY DEF StartIO
<1> QED
  BY <1>1, <1>2, <1>3, MoveKeeps, Processors DEF TypeInv, RestTypeOK

(* A process is created.                                                    *)
LEMMA CreateKeeps ==
  ASSUME TypeInv, NEW p \in Processes, NEW c \in Uprocs, NEW to \in Alive \ InIO,
         Runs(p), p # c, pc[c] = "none", pc' = [pc EXCEPT ![p] = to, ![c] = "user"],
         ready' = Append(ready, c), UNCHANGED <<left, sem, waiting, device, line>>,
         Ran
  PROVE  TypeInv'
<1>1. c \notin Residents /\ c \in Processes
  BY Processors DEF TypeInv, Living
<1>2. Queues' /\ Residents' = Residents \cup {c}
  BY <1>1, CreationKeeps DEF TypeInv
<1>3. "user" \in Alive /\ "user" \notin InIO
  BY DEF Alive, Locations, UserAt, InIO
<1>4. /\ pc' \in [Processes -> Locations] /\ pc'[p] = to /\ pc'[c] = "user"
      /\ \A q \in Processes \ {p, c} : pc'[q] = pc[q]
  BY <1>1, <1>3 DEF TypeInv, RestTypeOK, Alive
<1>5. RestTypeOK'
  BY <1>4 DEF TypeInv, RestTypeOK, Ran
<1>6. Living'
  BY <1>2, <1>3, <1>4, ResidentsExist DEF TypeInv, Living, Alive
<1>7. Counted'
  BY <1>3, <1>4, Processors DEF TypeInv, Counted
<1> QED
  BY <1>2, <1>5, <1>6, <1>7 DEF TypeInv

LEMMA Subtrees ==
  /\ Subtree(test) = Processes /\ Subtree(shell) = Uprocs
  /\ \A c \in Programs : Subtree(c) = {c}
<1>1. test # shell /\ \A c \in Programs : c # test /\ c # shell
  BY ProcessesAssumption
<1> QED
  BY <1>1, Zenon DEF Subtree

LEMMA TermKeeps ==
  ASSUME TypeInv, NEW p \in Processes, TermProcess(p), Ran
  PROVE  TypeInv'
<1> DEFINE out == Subtree(p)
<1>1. Queues' /\ Residents' \subseteq Residents \ out
  BY TerminationKeeps DEF TypeInv
<1>2. /\ pc' = [q \in Processes |-> IF q \in out THEN "none" ELSE pc[q]]
      /\ left' = left /\ line' = line
  BY DEF TermProcess
<1>3. "none" \in Locations /\ "none" \notin InIO
  BY DEF Locations, UserAt, InIO
<1> HIDE DEF out
<1>4. RestTypeOK'
  BY <1>2, <1>3 DEF TypeInv, RestTypeOK, Ran
<1>5. Living'
  BY <1>1, <1>2, ResidentsExist DEF TypeInv, Living
<1>6. Counted'
  BY <1>2, <1>3, Processors DEF TypeInv, Counted
<1> QED
  BY <1>1, <1>4, <1>5, <1>6 DEF TypeInv

LEMMA Locs ==
  /\ {"user", "writeP", "write", "writeV", "writeFailV", "readP", "read",
      "readV", "readFailV", "create", "executeP", "executed", "signal",
      "terminate", "masterP"} \subseteq Alive \ InIO
  /\ {"writeIO", "readIO"} \subseteq InIO
BY DEF Alive, Locations, InIO, UserAt, WriteAt, ReadAt, ExecuteAt, EndAt, TestAt

LEMMA SignalKeeps ==
  ASSUME TypeInv, NEW p \in Uprocs, Signal(p), Ran
  PROVE  TypeInv'
<1> DEFINE s == IF p = shell THEN "masterSemaphore" ELSE "shellSemaphore"
<1>1. s \in Semaphores
  BY Processors
<1>2. Moves(p, "signal", "terminate") /\ V(s) /\ UNCHANGED <<left, device, line>>
  BY DEF Signal
<1> HIDE DEF s
<1> QED
  BY <1>1, <1>2, ReleaseKeeps, Processors, Locs DEF TypeInv, RestTypeOK

LEMMA FaultKeeps ==
  ASSUME TypeInv, NEW p \in Uprocs, Fault(p), Ran
  PROVE  TypeInv'
<1>1. Goes(p, pc[p], "signal") /\ left' = left
  BY DEF Fault, Goes
<1> QED
  BY <1>1, GoesKeeps, Locs

LEMMA WriteKeeps ==
  ASSUME TypeInv, NEW p \in Uprocs, WriteTerminal(p), Ran
  PROVE  TypeInv'
<1> USE Processors, Locs
<1>1. CASE Acquire(p, "writeP", "termMutexTX", "write")
  BY <1>1, AcquireKeeps
<1>2. CASE StartIO(p, "write", "writeIO")
  BY <1>2, StartIOKeeps
<1>3. CASE Goes(p, "writeIO", "write") /\ left' = [left EXCEPT ![p] = @ - 1]
  BY <1>3, GoesKeeps DEF InIO
<1>4. CASE Goes(p, "writeIO", "writeFailV") /\ UNCHANGED left
  BY <1>4, GoesKeeps
<1>5. CASE left[p] = 0 /\ Goes(p, "write", "writeV") /\ UNCHANGED left
  BY <1>5, GoesKeeps
<1>6. ASSUME NEW from, NEW failed \in BOOLEAN,
             Release(p, from, "termMutexTX", AfterPrint(failed))
      PROVE  TypeInv'
  <2>1. line' \in ShellLines
    BY <1>6, LinesAfter DEF Release, ShellGoesOn, TypeInv, RestTypeOK
  <2> QED
    BY <1>6, <2>1, ReleaseKeeps DEF Release
<1> QED
  BY <1>1, <1>2, <1>3, <1>4, <1>5, <1>6 DEF WriteTerminal

LEMMA ReadKeeps ==
  ASSUME TypeInv, NEW p \in Uprocs, ReadTerminal(p), Ran
  PROVE  TypeInv'
<1> USE Processors, Locs
<1>1. CASE Acquire(p, "readP", "termMutexRX", "read")
  BY <1>1, AcquireKeeps
<1>2. CASE StartIO(p, "read", "readIO")
  BY <1>2, StartIOKeeps
<1>3. CASE Goes(p, "readIO", "read") /\ left' = [left EXCEPT ![p] = @ - 1]
  BY <1>3, GoesKeeps DEF InIO
<1>4. ASSUME NEW to \in {"readV", "readFailV", "signal"},
             Goes(p, "readIO", to) /\ UNCHANGED left
      PROVE  TypeInv'
  BY <1>4, GoesKeeps
<1>5. CASE left[p] = 0 /\ Goes(p, "read", "readV") /\ UNCHANGED left
  BY <1>5, GoesKeeps
<1>6. ASSUME NEW from, NEW failed \in BOOLEAN,
             Release(p, from, "termMutexRX", AfterRead(failed))
      PROVE  TypeInv'
  <2>1. line' \in ShellLines
    BY <1>6, LinesAfter DEF Release, ShellGoesOn, TypeInv, RestTypeOK
  <2> QED
    BY <1>6, <2>1, ReleaseKeeps DEF Release
<1> QED
  BY <1>1, <1>2, <1>3, <1>4, <1>5, <1>6 DEF ReadTerminal

LEMMA ExecuteKeeps ==
  ASSUME TypeInv, Execute, Ran
  PROVE  TypeInv'
<1> USE Processors, Locs
<1>1. ASSUME CreateProgram PROVE TypeInv'
  <2>1. Runs(shell) /\ pc[shell] = "create" /\ UNCHANGED <<left, sem, waiting, device, line>>
    BY <1>1 DEF CreateProgram, At
  <2>2. ASSUME NEW c \in Programs, pc[c] = "none", ready' = Append(ready, c),
               pc' = [pc EXCEPT ![shell] = "executeP", ![c] = "user"]
        PROVE  TypeInv'
    BY <2>1, <2>2, CreateKeeps, ProcessesAssumption
  <2>3. ASSUME pc' = [pc EXCEPT ![shell] = "executeP"], ready' = ready
        PROVE  TypeInv'
    <3>1. Goes(shell, "create", "executeP") /\ left' = left
      BY <2>1, <2>3 DEF Goes, Moves, At
    <3> QED
      BY <3>1, GoesKeeps
  <2> QED
    BY <1>1, <2>2, <2>3 DEF CreateProgram
<1>2. CASE Acquire(shell, "executeP", "shellSemaphore", "executed")
  BY <1>2, AcquireKeeps
<1>3. ASSUME Moves(shell, "executed", "user"), line' = "prompt",
             UNCHANGED <<ready, left, sem, waiting, device>>
      PROVE  TypeInv'
  <2>1. Queues' /\ Residents' = Residents
    BY <1>3, NothingQueued DEF TypeInv
  <2>2. line' \in ShellLines
    BY <1>3 DEF ShellLines, Prints
  <2> QED
    BY <1>3, <2>1, <2>2, MoveKeeps DEF TypeInv, RestTypeOK
<1> QED
  BY <1>1, <1>2, <1>3 DEF Execute

LEMMA CallsKeep ==
  ASSUME TypeInv, ShellCalls \/ \E p \in Programs : ProgramCalls(p), Ran
  PROVE  TypeInv'
<1>1. MaxLen \in 0..MaxLen /\ 0 \in 0..MaxLen
  BY ProcessesAssumption
<1>2. PICK p \in Uprocs, n \in 0..MaxLen,
           to \in {"writeP", "readP", "create", "signal"} : Call(p, to, n)
  BY <1>1, Processors DEF ShellCalls, ProgramCalls
<1> QED
  BY <1>2, CallKeeps, Locs

(* Only the launch of the shell needs to know that it is not there yet.     *)
LEMMA TypeStep ==
  ASSUME TypeInv, pc[test] = "launch" => pc[shell] = "none", [Next]_vars
  PROVE  TypeInv'
<1> USE Processors
<1>1. CASE LaunchUproc /\ Ran
  BY <1>1, CreateKeeps, Locs DEF LaunchUproc
<1>2. CASE WaitForShell /\ Ran
  <2>1. Acquire(test, "masterP", "masterSemaphore", "terminate")
    BY <1>2 DEF WaitForShell, Acquire
  <2> QED
    BY <1>2, <2>1, AcquireKeeps, Locs
<1>3. ASSUME NEW p \in Uprocs, Handler(p) \/ Fault(p), Ran PROVE TypeInv'
  BY <1>3, SignalKeeps, TermKeeps, WriteKeeps, ReadKeeps, CallsKeep, ExecuteKeeps,
     FaultKeeps
  DEF Handler
<1>4. CASE TimeSliceEnds
  <2> DEFINE t == Tail(ready)
             h == Head(ready)
  <2>1. ready # <<>>
    BY <1>4, EmptySeq DEF TimeSliceEnds
  <2>2. /\ t \in Seq(Processes) /\ IsInjective(t) /\ h \in Processes
        /\ Range(ready) = Range(t) \cup {h} /\ h \notin Range(t)
    BY <2>1, TailLists DEF TypeInv, Queues, QueueTypeOK
  <2>3. ready' = Append(t, h) /\ UNCHANGED <<pc, left, sem, waiting, device, line>>
    BY <1>4 DEF TimeSliceEnds
  <2> HIDE DEF t, h
  <2>4. /\ ready' \in Seq(Processes) /\ IsInjective(ready')
        /\ Range(ready') = Range(ready)
    BY <2>2, <2>3, AppendLists
  <2>5. Queues' /\ Residents' = Residents
    BY <2>3, <2>4 DEF TypeInv, Queues, QueueTypeOK, Residents
  <2> QED
    BY <1>4, <2>3, <2>5 DEF TimeSliceEnds, TypeInv, RestTypeOK, Living, Counted
<1>5. ASSUME NEW p \in Uprocs, TerminalDone(p) PROVE TypeInv'
  <2>1. /\ p \in Processes /\ p \in device /\ p \notin Range(ready)
        /\ \A s \in Semaphores : p \notin Range(waiting[s])
    BY <1>5 DEF TerminalDone, TypeInv, Queues
  <2>2. /\ ready' \in Seq(Processes) /\ IsInjective(ready')
        /\ Range(ready') = Range(ready) \cup {p}
        /\ device' = device \ {p} /\ UNCHANGED <<sem, waiting>>
    BY <1>5, <2>1, AppendLists DEF TerminalDone, TypeInv, Queues, QueueTypeOK
  <2>3. Queues' /\ Residents' = Residents
    BY <2>1, <2>2 DEF TypeInv, Queues, QueueTypeOK, Residents
  <2> QED
    BY <1>5, <2>3 DEF TerminalDone, TypeInv, RestTypeOK, Living, Counted
<1>6. CASE UNCHANGED vars
  BY <1>6, NothingQueued DEF vars, TypeInv, RestTypeOK, Living, Counted
<1>7. CASE TermProcess(test) /\ Ran
  BY <1>7, TermKeeps
<1>8. CASE (\E p \in Programs : ProgramCalls(p)) /\ Ran
  BY <1>8, CallsKeep
<1> QED
  BY <1>1, <1>2, <1>3, <1>4, <1>5, <1>6, <1>7, <1>8
  DEF Next, Running, Test, Stopped

-----------------------------------------------------------------------------
(* The programs run alone.  What holds this together is shellSemaphore: the *)
(* unit is there only between a program's V and the shell's P, or the shell *)
(* waits for it.                                                            *)

NoneActive == \A c \in Programs : ~Active(c)

(* Until the shell is launched nothing happens.                             *)
Launching ==
  pc[test] = "launch" =>
    /\ \A p \in Uprocs : pc[p] = "none"
    /\ sem["shellSemaphore"] = 0 /\ waiting["shellSemaphore"] = <<>>

(* The programs do not outlive the shell.                                   *)
Descendants == pc[shell] = "none" => \A c \in Programs : pc[c] = "none"

Unit ==
  pc[shell] # "none" =>
    \/ /\ sem["shellSemaphore"] = 0 /\ waiting["shellSemaphore"] = <<>>
       /\ pc[shell] = "executed" => NoneActive
    \/ /\ sem["shellSemaphore"] = 1 /\ waiting["shellSemaphore"] = <<>>
       /\ pc[shell] = "executeP" /\ NoneActive
    \/ /\ sem["shellSemaphore"] = -1 /\ waiting["shellSemaphore"] = <<shell>>
       /\ pc[shell] = "executed"

AloneInv == Launching /\ Descendants /\ Unit /\ ProgramsRunAlone

(* A step of a process that has nothing to do with all this.                *)
Quiet(p) ==
  /\ Runs(p) /\ pc[p] \notin {"none", "terminate", "executeP", "executed"}
  /\ \E to \in Alive \ {"executeP", "executed"} :
       pc' = [pc EXCEPT ![p] = to] /\ (p = shell \/ to # "terminate")
  /\ sem'["shellSemaphore"] = sem["shellSemaphore"]
  /\ waiting'["shellSemaphore"] = waiting["shellSemaphore"]

LEMMA OtherSemaphore ==
  ASSUME TypeInv, NEW s \in Semaphores \ {"shellSemaphore"},
         V(s) \/ \E p : P(p, s)
  PROVE  /\ sem'["shellSemaphore"] = sem["shellSemaphore"]
         /\ waiting'["shellSemaphore"] = waiting["shellSemaphore"]
BY Processors DEF V, P, TypeInv, Queues, QueueTypeOK

LEMMA QuietSteps ==
  ASSUME TypeInv, NEW p \in Uprocs,
         \/ Fault(p) \/ WriteTerminal(p) \/ ReadTerminal(p)
         \/ p = shell /\ Signal(p)
         \/ \E n, to : Call(p, to, n) /\ to \in {"writeP", "readP", "signal", "create"}
  PROVE  Quiet(p)
<1>1. /\ "masterSemaphore" \in Semaphores \ {"shellSemaphore"}
      /\ "termMutexTX" \in Semaphores \ {"shellSemaphore"}
      /\ "termMutexRX" \in Semaphores \ {"shellSemaphore"}
  BY Processors
<1>2. ASSUME NEW from, NEW to, Moves(p, from, to),
             from \notin {"none", "terminate", "executeP", "executed"},
             to \in Alive \ {"executeP", "executed"}, p = shell \/ to # "terminate",
             \/ UNCHANGED <<sem, waiting>>
             \/ \E s \in Semaphores \ {"shellSemaphore"} : V(s) \/ P(p, s)
      PROVE  Quiet(p)
  <2>1. /\ sem'["shellSemaphore"] = sem["shellSemaphore"]
        /\ waiting'["shellSemaphore"] = waiting["shellSemaphore"]
    BY <1>2, OtherSemaphore
  <2> QED
    BY <1>2, <2>1 DEF Quiet, Moves, At
<1>3. /\ {"user", "writeP", "write", "writeV", "writeFailV", "readP", "read",
          "readV", "readFailV", "create", "signal", "terminate", "writeIO",
          "readIO"} \subseteq Alive \ {"executeP", "executed"}
  BY Locs DEF InIO, Alive, Locations, WriteAt, ReadAt
<1>4. CASE Fault(p)
  <2>1. /\ Moves(p, pc[p], "signal") /\ UNCHANGED <<sem, waiting>>
        /\ pc[p] \in {"user", "write"}
    BY <1>4 DEF Fault
  <2> QED
    BY <1>2, <1>3, <2>1
<1>5. CASE p = shell /\ Signal(p)
  BY <1>1, <1>2, <1>3, <1>5 DEF Signal
<1>6. ASSUME NEW n, NEW to \in {"writeP", "readP", "signal", "create"}, Call(p, to, n)
      PROVE  Quiet(p)
  BY <1>2, <1>3, <1>6 DEF Call
<1>7. CASE WriteTerminal(p)
  BY <1>1, <1>2, <1>3, <1>7 DEF WriteTerminal, Acquire, StartIO, Goes, Release
<1>8. CASE ReadTerminal(p)
  BY <1>1, <1>2, <1>3, <1>8 DEF ReadTerminal, Acquire, StartIO, Goes, Release
<1> QED
  BY <1>4, <1>5, <1>6, <1>7, <1>8

(* Whoever runs has been created, so the shell has been launched.           *)
LEMMA Launched ==
  ASSUME TypeInv, AloneInv, NEW p \in Uprocs, Runs(p)
  PROVE  /\ pc[p] # "none" /\ pc[shell] # "none" /\ pc[test] # "launch"
         /\ waiting["shellSemaphore"] = <<shell>> => p # shell
<1>1. p \in Range(ready) /\ pc[p] # "none"
  BY FirstReady DEF TypeInv, Living
<1>2. pc[shell] # "none" /\ pc[test] # "launch"
  BY <1>1, Processors DEF AloneInv, Launching, Descendants
<1>3. ASSUME waiting["shellSemaphore"] = <<shell>> PROVE p # shell
  <2>1. shell \in Range(waiting["shellSemaphore"])
    BY <1>3, ShortOut, Processors
  <2> QED
    BY <1>1, <2>1, Processors DEF TypeInv, Queues
<1> QED
  BY <1>1, <1>2, <1>3

LEMMA QuietAlone ==
  ASSUME TypeInv, AloneInv, NEW p \in Uprocs, Quiet(p)
  PROVE  AloneInv'
<1>1. pc[shell] # "none" /\ pc[test] # "launch" /\ Runs(p)
  BY Launched DEF Quiet
<1>2. PICK to \in Alive \ {"executeP", "executed"} : pc' = [pc EXCEPT ![p] = to]
  BY DEF Quiet
<1>3. /\ pc'[p] = to /\ to # "none" /\ pc'[test] = pc[test]
      /\ \A q \in Processes \ {p} : pc'[q] = pc[q]
      /\ pc'[shell] # "none"
  BY <1>1, <1>2, Processors DEF TypeInv, RestTypeOK, Alive
<1>4. CASE p = shell
  <2>1. NoneActive /\ sem["shellSemaphore"] = 0 /\ waiting["shellSemaphore"] = <<>>
    BY <1>1, <1>4 DEF Quiet, AloneInv, Unit, ProgramsRunAlone, NoneActive
  <2>2. NoneActive'
    BY <1>3, <1>4, <2>1, Processors, ProcessesAssumption DEF NoneActive, Active
  <2>3. sem'["shellSemaphore"] = 0 /\ waiting'["shellSemaphore"] = <<>>
    BY <2>1 DEF Quiet
  <2> QED
    BY <1>1, <1>3, <1>4, <2>2, <2>3
    DEF AloneInv, Launching, Descendants, Unit, ProgramsRunAlone, NoneActive
<1>5. CASE p \in Programs
  <2>1. Active(p) /\ ~NoneActive
    BY <1>5 DEF Quiet, Active, NoneActive
  <2>2. /\ pc[shell] \in {"executeP", "executed"}
        /\ \A d \in Programs \ {p} : ~Active(d)
    BY <1>5, <2>1 DEF AloneInv, ProgramsRunAlone
  <2>3. /\ pc'[shell] = pc[shell]
        /\ \A d \in Programs \ {p} : ~Active(d)'
    BY <1>3, <1>5, <2>2, Processors, ProcessesAssumption DEF Active
  <2>4. ProgramsRunAlone'
    BY <1>5, <2>2, <2>3 DEF ProgramsRunAlone
  <2>5. \/ /\ sem["shellSemaphore"] = 0 /\ waiting["shellSemaphore"] = <<>>
           /\ pc[shell] = "executeP"
        \/ /\ sem["shellSemaphore"] = -1 /\ waiting["shellSemaphore"] = <<shell>>
           /\ pc[shell] = "executed"
    BY <1>1, <2>1, <2>2 DEF AloneInv, Unit
  <2>6. Unit'
    BY <2>3, <2>5 DEF Quiet, Unit
  <2> QED
    BY <1>1, <1>3, <2>4, <2>6 DEF AloneInv, Launching, Descendants
<1> QED
  BY <1>4, <1>5, Processors

(* A program does its V.                                                    *)
LEMMA SignalAlone ==
  ASSUME TypeInv, AloneInv, NEW c \in Programs, Signal(c)
  PROVE  AloneInv'
<1>1. /\ Runs(c) /\ pc[c] = "signal" /\ pc' = [pc EXCEPT ![c] = "terminate"]
      /\ c # shell /\ c \in Uprocs
      /\ V("shellSemaphore")
  BY Processors, ProcessesAssumption DEF Signal, Moves, At
<1>2. pc[shell] # "none" /\ pc[test] # "launch"
  BY <1>1, Launched
<1>3. /\ Active(c) /\ ~NoneActive /\ pc[shell] \in {"executeP", "executed"}
      /\ \A d \in Programs \ {c} : ~Active(d)
  BY <1>1 DEF Active, NoneActive, AloneInv, ProgramsRunAlone
<1>4. /\ pc'[c] = "terminate" /\ \A q \in Processes \ {c} : pc'[q] = pc[q]
      /\ pc'[shell] = pc[shell] /\ pc'[test] = pc[test]
  BY <1>1, Processors DEF TypeInv, RestTypeOK
<1>5. NoneActive'
  BY <1>3, <1>4, Processors DEF NoneActive, Active
<1>6. \/ /\ sem["shellSemaphore"] = 0 /\ waiting["shellSemaphore"] = <<>>
         /\ pc[shell] = "executeP"
      \/ /\ sem["shellSemaphore"] = -1 /\ waiting["shellSemaphore"] = <<shell>>
         /\ pc[shell] = "executed"
  BY <1>2, <1>3 DEF AloneInv, Unit
<1>7. sem'["shellSemaphore"] = sem["shellSemaphore"] + 1
  BY <1>1, Processors DEF V, TypeInv, Queues, QueueTypeOK
<1>8. /\ waiting["shellSemaphore"] = <<>> => waiting'["shellSemaphore"] = <<>>
      /\ waiting["shellSemaphore"] = <<shell>> => waiting'["shellSemaphore"] = <<>>
  <2>1. ASSUME waiting["shellSemaphore"] = <<>>
        PROVE  waiting'["shellSemaphore"] = <<>>
    BY <1>1, <2>1 DEF V
  <2>2. ASSUME waiting["shellSemaphore"] = <<shell>>
        PROVE  waiting'["shellSemaphore"] = <<>>
    <3>1. waiting["shellSemaphore"] # <<>>
      BY <2>2, ShortOut, Processors
    <3>2. waiting'["shellSemaphore"] = Tail(<<shell>>)
      BY <1>1, <2>2, <3>1, Processors DEF V, TypeInv, Queues, QueueTypeOK
    <3>3. Tail(<<shell>>) = <<>>
      OBVIOUS
    <3> QED
      BY <3>2, <3>3
  <2> QED
    BY <2>1, <2>2
<1>9. Unit'
  BY <1>4, <1>5, <1>6, <1>7, <1>8 DEF Unit
<1> QED
  BY <1>2, <1>4, <1>5, <1>9 DEF AloneInv, Launching, Descendants, ProgramsRunAlone, NoneActive

(* The end of a process.                                                    *)
LEMMA TermAlone ==
  ASSUME TypeInv, AloneInv, NEW p \in Processes, TermProcess(p)
  PROVE  AloneInv'
<1>0. /\ Runs(p) /\ pc[p] = "terminate"
      /\ pc' = [q \in Processes |-> IF q \in Subtree(p) THEN "none" ELSE pc[q]]
      /\ sem' = [s \in Semaphores |->
           sem[s] + Len(waiting[s]) - Len(OutAllProcQ(waiting[s], Subtree(p)))]
      /\ waiting' = [s \in Semaphores |-> OutAllProcQ(waiting[s], Subtree(p))]
  BY DEF TermProcess, At
<1>1. CASE p \in {test, shell}
  <2>1. \A q \in Uprocs : pc'[q] = "none"
    BY <1>0, <1>1, Subtrees, Processors
  <2>2. pc'[test] # "launch"
    <3>1. CASE p = test
      BY <1>0, <3>1, Subtrees, Processors
    <3>2. CASE p = shell
      <4>1. pc[test] # "launch"
        BY <1>0, <3>2, Launched, Processors
      <4> QED
        BY <1>0, <3>2, <4>1, Subtrees, Processors
    <3> QED
      BY <1>1, <3>1, <3>2
  <2> QED
    BY <2>1, <2>2, Processors
    DEF AloneInv, Launching, Descendants, Unit, ProgramsRunAlone, Active
<1>2. CASE p \in Programs
  <2>1. pc[shell] # "none" /\ pc[test] # "launch"
    BY <1>0, <1>2, Launched, Processors
  <2>2. /\ pc'[shell] = pc[shell] /\ pc'[test] = pc[test] /\ pc'[p] = "none"
        /\ \A q \in Programs \ {p} : pc'[q] = pc[q]
    BY <1>0, <1>2, Subtrees, Processors, ProcessesAssumption
  <2>3. /\ ProgramsRunAlone'
        /\ NoneActive => NoneActive'
    BY <1>0, <1>2, <2>2 DEF AloneInv, ProgramsRunAlone, Active, NoneActive
  <2>4. /\ waiting'["shellSemaphore"]
             = OutAllProcQ(waiting["shellSemaphore"], {p})
        /\ sem'["shellSemaphore"]
             = sem["shellSemaphore"] + Len(waiting["shellSemaphore"])
               - Len(waiting'["shellSemaphore"])
    BY <1>0, <1>2, Subtrees, Processors
  <2>5. waiting["shellSemaphore"] \in {<<>>, <<shell>>}
    BY <2>1 DEF AloneInv, Unit
  <2>6. waiting'["shellSemaphore"] = waiting["shellSemaphore"]
    <3>1. /\ OutAllProcQ(<<>>, {p}) = <<>>
          /\ OutAllProcQ(<<shell>>, {p}) = <<shell>>
      <4>1. shell \in Processes /\ shell \notin {p}
        BY <1>2, Processors, ProcessesAssumption
      <4> QED
        BY <4>1, ShortOut
    <3> QED
      BY <2>4, <2>5, <3>1
  <2>7. sem'["shellSemaphore"] = sem["shellSemaphore"]
    <3> DEFINE n == Len(waiting["shellSemaphore"])
               k == sem["shellSemaphore"]
    <3>1. k \in Int /\ n \in Nat
      BY LenProperties, Processors DEF TypeInv, Queues, QueueTypeOK
    <3>2. sem'["shellSemaphore"] = k + n - n
      BY <2>4, <2>6
    <3> HIDE DEF n, k
    <3>3. k + n - n = k
      BY <3>1
    <3> QED
      BY <3>2, <3>3 DEF k
  <2>8. Unit'
    BY <2>2, <2>3, <2>6, <2>7 DEF AloneInv, Unit
  <2> QED
    BY <2>1, <2>2, <2>3, <2>8 DEF AloneInv, Launching, Descendants
<1> QED
  BY <1>1, <1>2, Processors DEF Processes

(* sys6_execute.                                                            *)
LEMMA ExecuteAlone ==
  ASSUME TypeInv, AloneInv, Execute
  PROVE  AloneInv'
<1>0. /\ pc[test] # "launch" /\ pc[shell] # "none" /\ Runs(shell)
      /\ waiting["shellSemaphore"] # <<shell>>
  <2>1. Runs(shell)
    BY DEF Execute, CreateProgram, Acquire, Moves, At
  <2> QED
    BY <2>1, Launched, Processors
<1>1. CASE CreateProgram
  <2>1. /\ pc[shell] = "create" /\ UNCHANGED <<sem, waiting>>
        /\ \/ \E c \in Programs :
                pc[c] = "none" /\ pc' = [pc EXCEPT ![shell] = "executeP", ![c] = "user"]
           \/ pc' = [pc EXCEPT ![shell] = "executeP"]
    BY <1>1 DEF CreateProgram, At
  <2>2. NoneActive /\ sem["shellSemaphore"] = 0 /\ waiting["shellSemaphore"] = <<>>
    BY <2>1 DEF AloneInv, Unit, ProgramsRunAlone, NoneActive
  <2>3. /\ pc'[shell] = "executeP" /\ pc'[test] = pc[test]
        /\ \/ \A d \in Programs : pc'[d] = pc[d]
           \/ \E c \in Programs : \A d \in Programs \ {c} : pc'[d] = pc[d]
    BY <2>1, Processors, ProcessesAssumption DEF TypeInv, RestTypeOK
  <2>4. ProgramsRunAlone'
    BY <2>2, <2>3 DEF ProgramsRunAlone, NoneActive, Active
  <2> QED
    BY <1>0, <2>1, <2>2, <2>3, <2>4 DEF AloneInv, Launching, Descendants, Unit
<1>2. CASE Acquire(shell, "executeP", "shellSemaphore", "executed")
  <2>1. /\ pc[shell] = "executeP" /\ pc' = [pc EXCEPT ![shell] = "executed"]
        /\ P(shell, "shellSemaphore")
    BY <1>2 DEF Acquire, Moves, At
  <2>2. /\ pc'[shell] = "executed" /\ pc'[test] = pc[test]
        /\ \A d \in Programs : pc'[d] = pc[d]
    BY <2>1, Processors, ProcessesAssumption DEF TypeInv, RestTypeOK
  <2>3. /\ ProgramsRunAlone'
        /\ NoneActive => NoneActive'
    BY <2>1, <2>2 DEF AloneInv, ProgramsRunAlone, NoneActive, Active
  <2>4. /\ waiting["shellSemaphore"] = <<>>
        /\ sem["shellSemaphore"] = 0 \/ (sem["shellSemaphore"] = 1 /\ NoneActive)
    BY <2>1 DEF AloneInv, Unit
  <2>5. sem'["shellSemaphore"] = sem["shellSemaphore"] - 1
    BY <2>1, Processors DEF P, TypeInv, Queues, QueueTypeOK
  <2>6. ASSUME sem["shellSemaphore"] = 1
        PROVE  waiting'["shellSemaphore"] = <<>>
    BY <2>1, <2>4, <2>6 DEF P
  <2>7. ASSUME sem["shellSemaphore"] = 0
        PROVE  waiting'["shellSemaphore"] = <<shell>>
    <3>1. waiting' = [waiting EXCEPT !["shellSemaphore"] = Append(@, shell)]
      BY <2>1, <2>7 DEF P
    <3>2. waiting'["shellSemaphore"] = Append(<<>>, shell)
      BY <2>4, <3>1, Processors DEF TypeInv, Queues, QueueTypeOK
    <3>3. Append(<<>>, shell) = <<shell>>
      OBVIOUS
    <3> QED
      BY <3>2, <3>3
  <2>8. Unit'
    BY <2>2, <2>3, <2>4, <2>5, <2>6, <2>7 DEF Unit
  <2> QED
    BY <1>0, <2>2, <2>3, <2>8 DEF AloneInv, Launching, Descendants
<1>3. ASSUME Moves(shell, "executed", "user"),
             UNCHANGED <<ready, left, sem, waiting, device>>
      PROVE  AloneInv'
  <2>1. pc[shell] = "executed" /\ pc' = [pc EXCEPT ![shell] = "user"]
    BY <1>3 DEF Moves, At
  <2>2. /\ pc'[shell] = "user" /\ pc'[test] = pc[test]
        /\ \A d \in Programs : pc'[d] = pc[d]
    BY <2>1, Processors, ProcessesAssumption DEF TypeInv, RestTypeOK
  <2>3. NoneActive /\ sem["shellSemaphore"] = 0 /\ waiting["shellSemaphore"] = <<>>
    BY <1>0, <2>1 DEF AloneInv, Unit
  <2>4. NoneActive' /\ ProgramsRunAlone'
    BY <2>2, <2>3 DEF NoneActive, ProgramsRunAlone, Active
  <2> QED
    BY <1>0, <1>3, <2>2, <2>3, <2>4 DEF AloneInv, Launching, Descendants, Unit
<1> QED
  BY <1>1, <1>2, <1>3 DEF Execute

LEMMA TestAlone ==
  ASSUME TypeInv, AloneInv, LaunchUproc \/ WaitForShell
  PROVE  AloneInv'
<1>1. CASE LaunchUproc
  <2>1. /\ pc[test] = "launch" /\ UNCHANGED <<sem, waiting>>
        /\ pc' = [pc EXCEPT ![test] = "masterP", ![shell] = "user"]
    BY <1>1 DEF LaunchUproc
  <2>2. /\ pc'[test] = "masterP" /\ pc'[shell] = "user"
        /\ \A c \in Programs : pc'[c] = "none"
    BY <2>1, Processors, ProcessesAssumption
    DEF TypeInv, RestTypeOK, AloneInv, Launching
  <2> QED
    BY <2>1, <2>2
    DEF AloneInv, Launching, Descendants, Unit, ProgramsRunAlone, Active
<1>2. CASE WaitForShell
  <2>1. /\ pc[test] = "masterP" /\ pc' = [pc EXCEPT ![test] = "terminate"]
        /\ P(test, "masterSemaphore")
    BY <1>2 DEF WaitForShell, Moves, At
  <2>2. pc'[test] = "terminate" /\ \A p \in Uprocs : pc'[p] = pc[p]
    BY <2>1, Processors DEF TypeInv, RestTypeOK
  <2>3. /\ sem'["shellSemaphore"] = sem["shellSemaphore"]
        /\ waiting'["shellSemaphore"] = waiting["shellSemaphore"]
    BY <2>1, OtherSemaphore, Processors
  <2> QED
    BY <2>2, <2>3, Processors
    DEF AloneInv, Launching, Descendants, Unit, NoneActive, ProgramsRunAlone, Active
<1> QED
  BY <1>1, <1>2

LEMMA AloneStep ==
  ASSUME TypeInv, AloneInv, [Next]_vars
  PROVE  AloneInv'
<1> USE Processors
<1>1. ASSUME NEW p \in Uprocs, Handler(p) \/ Fault(p) \/ (p # shell /\ ProgramCalls(p))
      PROVE  AloneInv'
  <2>1. CASE TermProcess(p)
    BY <2>1, TermAlone
  <2>2. CASE p # shell /\ Signal(p)
    BY <2>2, SignalAlone
  <2>3. CASE Execute
    BY <2>3, ExecuteAlone
  <2>4. CASE Quiet(p)
    BY <2>4, QuietAlone
  <2>5. \/ Fault(p) \/ WriteTerminal(p) \/ ReadTerminal(p)
        \/ p = shell /\ Signal(p)
        \/ \E n, to : Call(p, to, n) /\ to \in {"writeP", "readP", "signal", "create"}
        \/ TermProcess(p) \/ (p # shell /\ Signal(p)) \/ Execute
    BY <1>1 DEF Handler, ShellCalls, ProgramCalls
  <2> QED
    BY <2>1, <2>2, <2>3, <2>4, <2>5, QuietSteps
<1>2. CASE Test
  BY <1>2, TestAlone, TermAlone DEF Test
<1>3. ASSUME UNCHANGED <<pc, sem, waiting>> PROVE AloneInv'
  BY <1>3
  DEF AloneInv, Launching, Descendants, Unit, NoneActive, ProgramsRunAlone, Active
<1>4. CASE TimeSliceEnds \/ Stopped \/ UNCHANGED vars \/ \E p \in Uprocs : TerminalDone(p)
  BY <1>3, <1>4 DEF TimeSliceEnds, Stopped, TerminalDone, vars
<1>5. \A p \in Programs : p # shell
  BY ProcessesAssumption
<1> QED
  BY <1>1, <1>2, <1>4, <1>5 DEF Next, Running

-----------------------------------------------------------------------------
(* A program that has done its V is gone before the shell starts another.   *)

(* The shell has not waited for the terminal since the V.                   *)
Fresh ==
  \/ pc[shell] \in {"executeP", "executed", "signal", "terminate"}
  \/ pc[shell] \in {"user", "writeP", "write", "writeV"} /\ line \in {"prompt", "read"}
  \/ pc[shell] \in {"readP", "read"} /\ left[shell] > 0

(* It waits, or is behind c in the ready queue; and c makes a step when it  *)
(* gets the processor.                                                      *)
Behind(c) ==
  /\ shell \in Range(ready) => Ahead(ready, c, shell)
  /\ Head(ready) = c => ~ran

LeftOver ==
  \A c \in Programs :
    pc[c] = "terminate" => c \in Range(ready) /\ (Fresh \/ Behind(c))

LEMMA ShellRunsFresh ==
  ASSUME TypeInv, LeftOver, NEW c \in Programs, pc[c] = "terminate", Runs(shell)
  PROVE  Fresh
<1>1. ready # <<>> /\ Head(ready) = shell /\ shell \in Range(ready)
  BY FirstReady DEF TypeInv
<1>2. ~Ahead(ready, c, shell)
  BY <1>1, NobodyAheadOfHead DEF TypeInv, Queues, QueueTypeOK
<1> QED
  BY <1>1, <1>2 DEF LeftOver, Behind

(* What a running U-proc does leaves the others in the ready queue.         *)
LEMMA OthersStayReady ==
  ASSUME TypeInv, NEW p \in Uprocs,
         \/ Fault(p) \/ WriteTerminal(p) \/ ReadTerminal(p) \/ Signal(p)
         \/ \E n, to : Call(p, to, n)
         \/ p = shell /\ Execute
  PROVE  /\ Runs(p)
         /\ \A q \in Range(ready) \ {p} : q \in Range(ready')
         /\ Signal(p) => p \in Range(ready')
<1> DEFINE Stay == \A q \in Range(ready) \ {p} : q \in Range(ready')
<1>0. Runs(p)
  BY DEF Fault, WriteTerminal, ReadTerminal, Signal, Call, Execute, CreateProgram,
         Acquire, StartIO, Goes, Release, Moves, At
<1>1. /\ Range(ready) = Range(Tail(ready)) \cup {p} /\ Queues /\ p \in Range(ready)
      /\ ready \in Seq(Processes)
  BY <1>0, FirstReady DEF TypeInv, Queues, QueueTypeOK
<1>2. ASSUME NEW s \in Semaphores, P(p, s), device' = device PROVE Stay
  BY <1>0, <1>1, <1>2, PKeeps
<1>3. ASSUME NEW s \in Semaphores, V(s), device' = device
      PROVE  Stay /\ p \in Range(ready')
  <2>1. \A x \in Processes : Range(Append(ready, x)) = Range(ready) \cup {x}
    BY <1>1, AppendLists
  <2>2. \/ ready' = ready
        \/ \E x \in Processes : ready' = Append(ready, x)
    BY <1>1, <1>3, VKeeps
  <2> QED
    BY <1>1, <2>1, <2>2
<1>4. ASSUME DoIO(p) PROVE Stay
  BY <1>1, <1>4 DEF DoIO
<1>5. ASSUME CreateProgram PROVE Stay
  <2>1. \A x \in Processes : Range(Append(ready, x)) = Range(ready) \cup {x}
    BY <1>1, AppendLists
  <2>2. \/ ready' = ready
        \/ \E x \in Programs : ready' = Append(ready, x)
    BY <1>5 DEF CreateProgram
  <2> QED
    BY <2>1, <2>2, Processors
<1>6. ASSUME Signal(p) PROVE Stay /\ p \in Range(ready')
  <2> DEFINE s == IF p = shell THEN "masterSemaphore" ELSE "shellSemaphore"
  <2>1. s \in Semaphores /\ V(s) /\ device' = device
    BY <1>6, Processors DEF Signal
  <2> HIDE DEF s
  <2> QED
    BY <1>3, <2>1
<1>7. ASSUME UNCHANGED ready PROVE Stay
  BY <1>7
<1>8. CASE Fault(p) \/ \E n, to : Call(p, to, n)
  <2>1. Stay
    BY <1>7, <1>8 DEF Fault, Call
  <2> QED
    BY <1>0, <1>6, <2>1
<1>9. CASE WriteTerminal(p)
  <2>1. Stay
    BY <1>2, <1>3, <1>4, <1>7, <1>9, Processors
    DEF WriteTerminal, Acquire, StartIO, Goes, Release
  <2> QED
    BY <1>0, <1>6, <2>1
<1>10. CASE ReadTerminal(p)
  <2>1. Stay
    BY <1>2, <1>3, <1>4, <1>7, <1>10, Processors
    DEF ReadTerminal, Acquire, StartIO, Goes, Release
  <2> QED
    BY <1>0, <1>6, <2>1
<1>11. CASE p = shell /\ Execute
  <2>1. Stay
    BY <1>2, <1>5, <1>7, <1>11, Processors DEF Execute, Acquire
  <2> QED
    BY <1>0, <1>6, <2>1
<1> QED
  BY <1>0, <1>6, <1>8, <1>9, <1>10, <1>11

(* The shell runs on without a wait for the terminal, or leaves the ready   *)
(* queue.                                                                   *)
LEMMA FreshStep ==
  ASSUME TypeInv, Fresh,
         \/ Fault(shell) \/ WriteTerminal(shell) \/ ReadTerminal(shell)
         \/ Signal(shell) \/ ShellCalls \/ Execute
  PROVE  Fresh' \/ shell \notin Range(ready')
<1>1. /\ shell \in Processes /\ shell \in Uprocs /\ MaxLen > 0
      /\ \A to : pc' = [pc EXCEPT ![shell] = to] => pc'[shell] = to
  BY Processors, ProcessesAssumption DEF TypeInv, RestTypeOK
<1>2. ASSUME NEW from, NEW to, StartIO(shell, from, to)
      PROVE  shell \notin Range(ready')
  BY <1>2, FirstReady DEF StartIO, DoIO, Moves, At, TypeInv
<1>3. CASE Fault(shell) \/ Signal(shell)
  BY <1>1, <1>3 DEF Fault, Signal, Moves, Fresh
<1>4. CASE ShellCalls
  <2>1. ASSUME line = "read", Call(shell, "readP", MaxLen)
        PROVE  Fresh'
    <3>1. pc'[shell] = "readP" /\ left'[shell] = MaxLen
      BY <1>1, <2>1 DEF Call, Moves, TypeInv, RestTypeOK
    <3> QED
      BY <1>1, <3>1 DEF Fresh
  <2>2. ASSUME line \in Prints, NEW n \in 0..MaxLen, Call(shell, "writeP", n)
        PROVE  Fresh'
    <3>1. pc[shell] = "user" /\ pc'[shell] = "writeP" /\ line' = line
      BY <1>1, <2>2 DEF Call, Moves, At
    <3> QED
      BY <3>1 DEF Fresh
  <2>3. ASSUME line \in {"execute", "quit"}, NEW n, NEW to, Call(shell, to, n)
        PROVE  FALSE
    BY <2>3 DEF Call, Moves, At, Fresh
  <2> QED
    BY <1>4, <2>1, <2>2, <2>3 DEF ShellCalls
<1>5. CASE WriteTerminal(shell)
  <2>1. ASSUME Acquire(shell, "writeP", "termMutexTX", "write")
        PROVE  Fresh'
    BY <1>1, <2>1 DEF Acquire, Moves, At, Fresh
  <2>2. ASSUME NEW to, Goes(shell, "writeIO", to) PROVE FALSE
    BY <2>2 DEF Goes, Moves, At, Fresh
  <2>3. ASSUME Goes(shell, "write", "writeV") PROVE Fresh'
    BY <1>1, <2>3 DEF Goes, Moves, At, Fresh
  <2>4. ASSUME Release(shell, "writeV", "termMutexTX", AfterPrint(FALSE))
        PROVE  Fresh'
    <3>1. line' \in {"prompt", "read"}
      BY <2>4, LinesAfter DEF Release, Moves, At, Fresh, ShellGoesOn
    <3> QED
      BY <1>1, <2>4, <3>1 DEF Release, Moves, Fresh
  <2>5. ASSUME Release(shell, "writeFailV", "termMutexTX", AfterPrint(TRUE))
        PROVE  FALSE
    BY <2>5 DEF Release, Moves, At, Fresh
  <2> QED
    BY <1>2, <1>5, <2>1, <2>2, <2>3, <2>4, <2>5 DEF WriteTerminal
<1>6. CASE ReadTerminal(shell)
  <2>1. ASSUME Acquire(shell, "readP", "termMutexRX", "read")
        PROVE  Fresh'
    BY <1>1, <2>1 DEF Acquire, Moves, At, Fresh
  <2>2. ASSUME NEW to, Goes(shell, "readIO", to) PROVE FALSE
    BY <2>2 DEF Goes, Moves, At, Fresh
  <2>3. ASSUME left[shell] = 0, Goes(shell, "read", "readV") PROVE FALSE
    BY <2>3 DEF Goes, Moves, At, Fresh
  <2>4. ASSUME NEW from \in {"readV", "readFailV"}, NEW s, NEW lines,
               Release(shell, from, s, lines)
        PROVE  FALSE
    BY <2>4 DEF Release, Moves, At, Fresh
  <2> QED
    BY <1>2, <1>6, <2>1, <2>2, <2>3, <2>4 DEF ReadTerminal
<1>7. CASE Execute
  <2>1. ASSUME CreateProgram PROVE FALSE
    BY <2>1 DEF CreateProgram, At, Fresh
  <2>2. ASSUME Acquire(shell, "executeP", "shellSemaphore", "executed") PROVE Fresh'
    BY <1>1, <2>2 DEF Acquire, Moves, Fresh
  <2>3. ASSUME Moves(shell, "executed", "user"), line' = "prompt" PROVE Fresh'
    BY <1>1, <2>3 DEF Moves, Fresh
  <2> QED
    BY <1>7, <2>1, <2>2, <2>3 DEF Execute
<1> QED
  BY <1>3, <1>4, <1>5, <1>6, <1>7

LEMMA OnlyCallCreates ==
  ASSUME TypeInv, pc'[shell] = "create",
         \/ Fault(shell) \/ WriteTerminal(shell) \/ ReadTerminal(shell)
         \/ Signal(shell) \/ ShellCalls \/ Execute
  PROVE  pc[shell] = "user" /\ line = "execute" /\ pc' = [pc EXCEPT ![shell] = "create"]
<1>1. \A to : pc' = [pc EXCEPT ![shell] = to] => to = "create"
  BY Processors DEF TypeInv, RestTypeOK
<1>2. \A from, to : Moves(shell, from, to) => to = "create"
  BY <1>1 DEF Moves
<1>3. ASSUME CreateProgram PROVE FALSE
  BY <1>3, <1>1, Processors, ProcessesAssumption DEF CreateProgram, TypeInv, RestTypeOK
<1>4. CASE ShellCalls
  <2>1. ASSUME NEW n, NEW to, Call(shell, to, n)
        PROVE  to = "create" /\ pc[shell] = "user"
               /\ pc' = [pc EXCEPT ![shell] = "create"]
    BY <1>2, <2>1 DEF Call, Moves, At
  <2> QED
    BY <1>4, <2>1 DEF ShellCalls
<1>5. CASE Execute
  BY <1>2, <1>3, <1>5 DEF Execute, Acquire
<1>6. CASE Fault(shell) \/ Signal(shell)
  BY <1>2, <1>6 DEF Fault, Signal
<1>7. CASE WriteTerminal(shell) \/ ReadTerminal(shell)
  BY <1>2, <1>7
  DEF WriteTerminal, ReadTerminal, Acquire, StartIO, Goes, Release
<1> QED
  BY <1>4, <1>5, <1>6, <1>7

(* The cases of a step: a U-proc runs on or creates one, or ends, test()    *)
(* runs, or nobody runs.                                                    *)
RunsOn(p) ==
  \/ Fault(p) \/ WriteTerminal(p) \/ ReadTerminal(p) \/ Signal(p)
  \/ p = shell /\ (ShellCalls \/ Execute)
  \/ p # shell /\ ProgramCalls(p)

LEMMA StepCases ==
  ASSUME [Next]_vars
  PROVE  \/ \E p \in Uprocs : RunsOn(p) /\ Ran
         \/ \E p \in Processes : TermProcess(p) /\ Ran
         \/ (LaunchUproc \/ WaitForShell) /\ Ran
         \/ TimeSliceEnds \/ UNCHANGED vars
         \/ \E p \in Uprocs : TerminalDone(p)
BY Processors, ProcessesAssumption
DEF Next, Running, Test, Handler, RunsOn, Stopped

(* A program at work: the shell is in sys6_execute.                         *)
LEMMA ProgramRunsOn ==
  ASSUME TypeInv, AloneInv, NEW c \in Programs, RunsOn(c)
  PROVE  /\ Runs(c) /\ pc[shell] \in {"executeP", "executed"}
         /\ pc'[shell] = pc[shell]
         /\ \A d \in Programs \ {c} : pc'[d] = pc[d] /\ pc[d] \in {"none", "terminate"}
         /\ pc'[c] = "terminate" => Signal(c)
<1>0. c # shell /\ c \in Uprocs /\ c \in Processes
  BY Processors, ProcessesAssumption
<1>1. /\ Runs(c) /\ Active(c)
      /\ \E to : /\ pc' = [pc EXCEPT ![c] = to]
                 /\ to = "terminate" => Signal(c)
  <2>1. CASE Signal(c)
    BY <2>1 DEF Signal, Moves, At, Active
  <2>2. CASE ~Signal(c)
    <3>1. Quiet(c)
      <4>1. \/ Fault(c) \/ WriteTerminal(c) \/ ReadTerminal(c)
            \/ \E n, to : Call(c, to, n) /\ to \in {"writeP", "readP", "signal", "create"}
        BY <1>0, <2>2 DEF RunsOn, ProgramCalls
      <4> QED
        BY <1>0, <4>1, QuietSteps
    <3> QED
      BY <1>0, <3>1 DEF Quiet, Active
  <2> QED
    BY <2>1, <2>2
<1>2. /\ pc[shell] \in {"executeP", "executed"}
      /\ \A d \in Programs \ {c} : ~Active(d)
  BY <1>1 DEF AloneInv, ProgramsRunAlone
<1> QED
  BY <1>0, <1>1, <1>2, Processors DEF TypeInv, RestTypeOK, Active

(* A step of the shell changes no program but the one it creates.           *)
LEMMA ShellRunsOn ==
  ASSUME TypeInv, RunsOn(shell)
  PROVE  /\ Runs(shell)
         /\ \A c \in Programs : pc'[c] = pc[c] \/ pc'[c] = "user"
         /\ Range(ready) \ {shell} \subseteq Range(ready')
<1>1. \/ Fault(shell) \/ WriteTerminal(shell) \/ ReadTerminal(shell) \/ Signal(shell)
      \/ \E n, to : Call(shell, to, n)
      \/ Execute
  BY DEF RunsOn, ShellCalls
<1>2. Runs(shell) /\ Range(ready) \ {shell} \subseteq Range(ready')
  BY <1>1, OthersStayReady, Processors
<1>3. ASSUME NEW c \in Programs PROVE pc'[c] = pc[c] \/ pc'[c] = "user"
  <2>1. \A to : pc' = [pc EXCEPT ![shell] = to] => pc'[c] = pc[c]
    BY Processors, ProcessesAssumption DEF TypeInv, RestTypeOK
  <2>2. \A from, to : Moves(shell, from, to) => pc'[c] = pc[c]
    BY <2>1 DEF Moves
  <2>3. CASE CreateProgram
    BY <2>1, <2>3, Processors, ProcessesAssumption DEF CreateProgram, TypeInv, RestTypeOK
  <2>4. CASE Execute /\ ~CreateProgram
    BY <2>2, <2>4 DEF Execute, Acquire
  <2>5. CASE WriteTerminal(shell) \/ ReadTerminal(shell)
    BY <2>2, <2>5 DEF WriteTerminal, ReadTerminal, Acquire, StartIO, Goes, Release
  <2>6. CASE Fault(shell) \/ Signal(shell) \/ \E n, to : Call(shell, to, n)
    BY <2>2, <2>6 DEF Fault, Signal, Call
  <2> QED
    BY <1>1, <2>3, <2>4, <2>5, <2>6
<1> QED
  BY <1>2, <1>3

LEMMA TermEffect ==
  ASSUME TypeInv, NEW p \in Processes, TermProcess(p)
  PROVE  /\ Runs(p)
         /\ p \in {test, shell} => \A q \in Uprocs : pc'[q] = "none"
         /\ p \in Programs =>
              /\ pc'[p] = "none" /\ \A q \in Processes \ {p} : pc'[q] = pc[q]
              /\ ready' = OutAllProcQ(ready, {p}) /\ UNCHANGED <<left, line>>
BY Subtrees, Processors DEF TermProcess, At, TypeInv, RestTypeOK

LEMMA LeftOverStep ==
  ASSUME TypeInv, AloneInv, LeftOver, [Next]_vars
  PROVE  LeftOver'
<1> USE Processors
<1> DEFINE OK(c) == c \in Range(ready') /\ (Fresh' \/ Behind(c)')
<1> SUFFICES ASSUME NEW c \in Programs, pc'[c] = "terminate" PROVE OK(c)
  BY DEF LeftOver
<1>0. /\ ready \in Seq(Processes) /\ IsInjective(ready) /\ c # shell /\ c # test
      /\ c \in Processes
  BY ProcessesAssumption DEF TypeInv, Queues, QueueTypeOK
<1>queued. pc[c] = "terminate" => c \in Range(ready) /\ ready # <<>>
  BY <1>0, EmptyLists DEF LeftOver
<1>empty. Range(<<>>) = {}
  BY <1>0, EmptyLists
<1>1. ASSUME NEW p \in Processes \ {c}, Runs(p), Ran, ready' # <<>>, Head(ready') = c
      PROVE  ~ran'
  BY <1>1 DEF Ran, Runs
<1>2. ASSUME RunsOn(shell), Ran PROVE OK(c)
  <2>1. /\ Runs(shell) /\ pc[c] = "terminate"
        /\ Range(ready) \ {shell} \subseteq Range(ready')
    BY <1>2, ShellRunsOn
  <2>2. c \in Range(ready')
    BY <1>0, <1>queued, <2>1
  <2>3. Fresh
    BY <2>1, ShellRunsFresh
  <2>4. Fresh' \/ shell \notin Range(ready')
    BY <1>2, <2>3, FreshStep DEF RunsOn
  <2>5. ready' # <<>>
    BY <1>empty, <2>2
  <2> QED
    BY <1>0, <1>1, <1>2, <2>1, <2>2, <2>4, <2>5 DEF Behind
<1>3. ASSUME NEW d \in Programs, RunsOn(d), Ran PROVE OK(c)
  <2>1. Fresh'
    BY <1>3, ProgramRunsOn DEF Fresh
  <2>2. CASE c = d
    <3>1. Signal(c)
      BY <1>3, <2>2, ProgramRunsOn
    <3> QED
      BY <2>1, <3>1, OthersStayReady
  <2>3. CASE c # d
    <3>1. pc[c] = "terminate"
      BY <1>3, <2>3, ProgramRunsOn
    <3>2. \/ Fault(d) \/ WriteTerminal(d) \/ ReadTerminal(d) \/ Signal(d)
          \/ \E n, to : Call(d, to, n)
      BY <1>3, ProcessesAssumption DEF RunsOn, ProgramCalls
    <3> QED
      BY <1>queued, <2>1, <2>3, <3>1, <3>2, OthersStayReady
  <2> QED
    BY <2>2, <2>3
<1>4. ASSUME NEW p \in Processes, TermProcess(p), Ran PROVE OK(c)
  <2>1. p \in Programs /\ p # c
    BY <1>4, TermEffect DEF Processes, Uprocs
  <2>2. /\ pc[c] = "terminate" /\ pc'[shell] = pc[shell] /\ Runs(p)
        /\ ready' = OutAllProcQ(ready, {p}) /\ UNCHANGED <<left, line>>
    BY <1>0, <1>4, <2>1, TermEffect, ProcessesAssumption
  <2>3. c \in Range(ready')
    BY <1>0, <1>queued, <2>1, <2>2, OutAllProcQLists
  <2>4. CASE Fresh
    BY <2>2, <2>3, <2>4 DEF Fresh
  <2>5. CASE Behind(c)
    <3>1. ready' # <<>>
      BY <1>empty, <2>3
    <3>2. shell \in Range(ready') => shell \in Range(ready)
      BY <1>0, <2>2, OutAllProcQLists
    <3>3. Ahead(ready, c, shell) => Ahead(ready', c, shell)
      BY <1>0, <2>1, <2>2, AheadOut, ProcessesAssumption
    <3>4. Head(ready') = c => ~ran'
      BY <1>1, <1>4, <2>1, <2>2, <3>1
    <3> QED
      BY <2>3, <2>5, <3>2, <3>3, <3>4 DEF Behind
  <2> QED
    BY <2>2, <2>4, <2>5 DEF LeftOver
<1>5. ASSUME LaunchUproc PROVE FALSE
  <2>1. pc[test] = "launch" /\ pc[c] = "none"
    BY <1>5 DEF LaunchUproc, AloneInv, Launching
  <2> QED
    BY <1>0, <1>5, <2>1 DEF LaunchUproc, TypeInv, RestTypeOK
<1>6. ASSUME WaitForShell, Ran PROVE OK(c)
  <2>1. /\ Runs(test) /\ pc[c] = "terminate" /\ pc'[shell] = pc[shell]
        /\ UNCHANGED <<left, line, device>> /\ P(test, "masterSemaphore")
    BY <1>0, <1>6 DEF WaitForShell, Moves, At, TypeInv, RestTypeOK
  <2>2. ready' = ready \/ ready' = Tail(ready)
    BY <2>1, PKeeps DEF TypeInv
  <2>3. /\ Head(ready) = test /\ ready # <<>>
        /\ Range(ready) = Range(Tail(ready)) \cup {test}
    BY <2>1, FirstReady DEF TypeInv
  <2>4. c \in Range(ready')
    BY <1>0, <1>queued, <2>1, <2>2, <2>3
  <2>5. CASE Fresh
    BY <2>1, <2>4, <2>5 DEF Fresh
  <2>6. CASE Behind(c)
    <3>1. ready' # <<>>
      BY <1>empty, <2>4
    <3>2. shell \in Range(ready') => shell \in Range(ready)
      BY <2>2, <2>3
    <3>3. Ahead(ready, c, shell) => Ahead(ready', c, shell)
      BY <1>0, <2>2, <2>3, AheadTail
    <3>4. Head(ready') = c => ~ran'
      BY <1>0, <1>1, <1>6, <2>1, <3>1
    <3> QED
      BY <2>4, <2>6, <3>2, <3>3, <3>4 DEF Behind
  <2> QED
    BY <2>1, <2>5, <2>6 DEF LeftOver
<1>7. ASSUME TimeSliceEnds PROVE OK(c)
  <2> DEFINE t == Tail(ready)
             h == Head(ready)
  <2>1. /\ pc[c] = "terminate" /\ UNCHANGED <<pc, left, line>>
        /\ ~ran' /\ (ran \/ pc[h] = "user")
        /\ ready' = Append(t, h)
    BY <1>7 DEF TimeSliceEnds
  <2>2. /\ c \in Range(ready) /\ ready # <<>>
        /\ t \in Seq(Processes) /\ h \in Processes
        /\ Range(ready) = Range(t) \cup {h}
    BY <1>0, <1>queued, <2>1, TailLists
  <2>3. Range(ready') = Range(ready)
    <3> HIDE DEF t, h
    <3> QED
      BY <2>1, <2>2, AppendLists
  <2>4. CASE Fresh
    BY <2>1, <2>2, <2>3, <2>4 DEF Fresh
  <2>5. CASE ~Fresh /\ Behind(c)
    <3>1. h # c
      BY <2>1, <2>5 DEF Behind
    <3>2. ASSUME shell \in Range(ready) PROVE Ahead(ready', c, shell)
      <4>1. Ahead(ready, c, shell)
        BY <2>5, <3>2 DEF Behind
      <4>2. Ahead(t, c, shell)
        BY <1>0, <2>2, <3>1, <4>1, AheadTail
      <4> HIDE DEF t, h
      <4> QED
        BY <2>1, <2>2, <4>2, AheadAppend
    <3> QED
      BY <2>1, <2>2, <2>3, <3>2 DEF Behind
  <2> QED
    BY <2>1, <2>4, <2>5 DEF LeftOver
<1>8. ASSUME NEW p \in Uprocs, TerminalDone(p) PROVE OK(c)
  <2>1. /\ pc[c] = "terminate" /\ UNCHANGED <<pc, left, line, ran>>
        /\ ready' = Append(ready, p) /\ p \in Processes
    BY <1>8 DEF TerminalDone
  <2>2. /\ Range(ready') = Range(ready) \cup {p} /\ Head(ready') = Head(ready)
        /\ c \in Range(ready)
    BY <1>0, <1>queued, <2>1, AppendLists
  <2>3. CASE Fresh
    BY <2>1, <2>2, <2>3 DEF Fresh
  <2>4. CASE Behind(c)
    <3>1. ASSUME shell \in Range(ready') PROVE Ahead(ready', c, shell)
      <4>1. CASE shell = p
        BY <1>0, <2>1, <2>2, <4>1, AheadAppend
      <4>2. CASE shell # p
        BY <1>0, <2>1, <2>2, <2>4, <3>1, <4>2, AheadAppend DEF Behind
      <4> QED
        BY <4>1, <4>2
    <3> QED
      BY <2>1, <2>2, <2>4, <3>1 DEF Behind
  <2> QED
    BY <2>1, <2>3, <2>4 DEF LeftOver
<1>9. CASE UNCHANGED vars
  BY <1>9 DEF vars, LeftOver, Fresh, Behind
<1> QED
  BY <1>2, <1>3, <1>4, <1>5, <1>6, <1>7, <1>8, <1>9, StepCases

LEMMA CreateSucceedsStep ==
  ASSUME TypeInv, AloneInv, LeftOver, CreateSucceeds, [Next]_vars
  PROVE  CreateSucceeds'
<1> USE Processors
<1> SUFFICES ASSUME pc'[shell] = "create", NEW c \in Programs PROVE pc'[c] = "none"
  BY DEF CreateSucceeds
<1>1. ASSUME RunsOn(shell) PROVE pc'[c] = "none"
  <2>1. /\ pc[shell] = "user" /\ line = "execute"
        /\ pc' = [pc EXCEPT ![shell] = "create"]
    BY <1>1, OnlyCallCreates DEF RunsOn
  <2>2. pc'[c] = pc[c]
    BY <2>1, ProcessesAssumption DEF TypeInv, RestTypeOK
  <2>3. ~Active(c)
    BY <2>1 DEF AloneInv, ProgramsRunAlone
  <2>4. ~Fresh
    BY <2>1 DEF Fresh
  <2>5. pc[c] # "terminate"
    BY <1>1, <2>4, ShellRunsOn, ShellRunsFresh
  <2> QED
    BY <2>2, <2>3, <2>5 DEF Active
<1>2. ASSUME NEW d \in Programs, RunsOn(d) PROVE FALSE
  BY <1>2, ProgramRunsOn
<1>3. ASSUME NEW p \in Processes, TermProcess(p) PROVE pc'[c] = "none"
  <2>1. p \in Programs /\ pc[shell] = "create"
    BY <1>3, TermEffect, ProcessesAssumption DEF Processes, Uprocs
  <2>2. pc[p] = "none"
    BY <2>1 DEF CreateSucceeds
  <2> QED
    BY <1>3, <2>2 DEF TermProcess, At
<1>4. ASSUME LaunchUproc PROVE FALSE
  BY <1>4 DEF LaunchUproc, TypeInv, RestTypeOK
<1>5. ASSUME WaitForShell PROVE pc'[c] = "none"
  BY <1>5, ProcessesAssumption DEF WaitForShell, Moves, CreateSucceeds, TypeInv, RestTypeOK
<1>6. ASSUME UNCHANGED pc PROVE pc'[c] = "none"
  BY <1>6 DEF CreateSucceeds
<1> QED
  BY <1>1, <1>2, <1>3, <1>4, <1>5, <1>6, StepCases
  DEF TimeSliceEnds, TerminalDone, vars

-----------------------------------------------------------------------------

SupportInv == TypeInv /\ AloneInv /\ LeftOver /\ CreateSucceeds

LEMMA SupportInvInit == Init => SupportInv
<1> SUFFICES ASSUME Init PROVE SupportInv
  OBVIOUS
<1> USE Processors
<1>1. /\ ready \in Seq(Processes) /\ IsInjective(ready) /\ Range(ready) = {test}
  BY ShortOut, SMTT(30) DEF Init
<1>2. \A s \in Semaphores :
        /\ waiting[s] = <<>> /\ waiting[s] \in Seq(Processes)
        /\ Range(waiting[s]) = {} /\ IsInjective(waiting[s])
  BY EmptyLists, EmptySeq DEF Init
<1>3. Queues
  <2>1. QueueTypeOK
    BY <1>1, <1>2 DEF Init, QueueTypeOK
  <2> QED
    BY <1>1, <1>2, <2>1 DEF Init, Queues
<1>4. pc[test] = "launch" /\ \A p \in Uprocs : pc[p] = "none"
  BY DEF Init
<1>5. RestTypeOK
  <2>1. "none" \in Locations /\ "launch" \in Locations
    BY DEF Locations, UserAt, TestAt
  <2>2. 0 \in 0..MaxLen
    BY ProcessesAssumption
  <2>3. "banner" \in ShellLines
    BY DEF ShellLines, Prints
  <2> QED
    BY <2>1, <2>2, <2>3 DEF Init, RestTypeOK
<1>6. Living /\ Counted
  BY <1>1, <1>2, <1>4 DEF Init, Living, Residents, Counted, InIO
<1>7. AloneInv
  BY <1>2, <1>4
  DEF Init, AloneInv, Launching, Descendants, Unit, ProgramsRunAlone, Active
<1>8. LeftOver /\ CreateSucceeds
  BY <1>4 DEF LeftOver, CreateSucceeds
<1> QED
  BY <1>3, <1>5, <1>6, <1>7, <1>8 DEF SupportInv, TypeInv

LEMMA SupportInvStep == SupportInv /\ [Next]_vars => SupportInv'
<1> SUFFICES ASSUME SupportInv, [Next]_vars PROVE SupportInv'
  OBVIOUS
<1>1. TypeInv /\ AloneInv /\ LeftOver /\ CreateSucceeds
  BY DEF SupportInv
<1>2. TypeInv'
  <2>1. pc[test] = "launch" => pc[shell] = "none"
    BY <1>1, Processors DEF AloneInv, Launching
  <2> QED
    BY <1>1, <2>1, TypeStep
<1> QED
  BY <1>1, <1>2, AloneStep, LeftOverStep, CreateSucceedsStep DEF SupportInv

LEMMA SupportInvariant == Spec => []SupportInv
BY SupportInvInit, SupportInvStep, PTL DEF Spec

(* The types; among them, no call writes or reads more than it was given.   *)
THEOREM TypesOK == Spec => []TypeOK
<1>1. SupportInv => TypeOK
  BY TypeParts DEF SupportInv, TypeInv, Queues
<1> QED
  BY <1>1, SupportInvariant, PTL

(* A U-proc has the support structures of its ASID to itself: while a       *)
(* program is between its creation and its V, the shell is in sys6_execute  *)
(* and there is no other (sysSupport.c:284).                                *)
THEOREM RunAlone == Spec => []ProgramsRunAlone
<1>1. SupportInv => ProgramsRunAlone
  BY DEF SupportInv, AloneInv
<1> QED
  BY <1>1, SupportInvariant, PTL

(* Every program has ended, not only signalled its end, when the shell      *)
(* starts the next: CREATEPROCESS finds a free PCB (sysSupport.c:296).      *)
THEOREM CreatesSucceed == Spec => []CreateSucceeds
<1>1. SupportInv => CreateSucceeds
  BY DEF SupportInv
<1> QED
  BY <1>1, SupportInvariant, PTL
=============================================================================

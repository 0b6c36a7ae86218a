----------------------------- MODULE CountProofs -----------------------------
(****************************************************************************)
(* The counters of the nucleus count: processCount and softBlockCount       *)
(* (CountsExact), and the values of the semaphores (UserSemaphoresExact,    *)
(* DeviceSemaphoresLow).  From them, that the scheduler halts, waits and    *)
(* panics when it should (HonestStop), and that a waiter for a device has   *)
(* an interrupt coming (WaitersAwaited).                                    *)
(****************************************************************************)
EXTENDS NucleusProofs

-----------------------------------------------------------------------------
(* The processes softBlockCount counts.                                     *)
Soft == {p \in Pcbs : semAdd[p] \in DeviceSems}

Sums == CountsExact /\ UserSemaphoresExact /\ DeviceSemaphoresLow

Counted == Placed /\ Sums

LEMMA CountsParts ==
  /\ CountsExact <=> /\ processCount = Cardinality(Live)
                     /\ softBlockCount = Cardinality(Soft)
  /\ CountsExact' <=> /\ processCount' = Cardinality(Live')
                      /\ softBlockCount' = Cardinality(Soft')
BY DEF CountsExact, Soft

LEMMA Taken ==
  ASSUME NEW S, S \subseteq Pcbs, NEW T
  PROVE  /\ Cardinality(S) \in Nat /\ Cardinality(S \cap T) \in Nat
         /\ Cardinality(S \ T) = Cardinality(S) - Cardinality(S \cap T)
<1>1. /\ S \ T \subseteq Pcbs /\ S \cap T \subseteq Pcbs
      /\ (S \ T) \cup (S \cap T) = S /\ (S \ T) \cap (S \cap T) = {}
  OBVIOUS
<1>2. /\ IsFiniteSet(S \ T) /\ IsFiniteSet(S \cap T)
      /\ Cardinality(S) \in Nat /\ Cardinality(S \ T) \in Nat
      /\ Cardinality(S \cap T) \in Nat
  BY <1>1, FinitePcbs
<1>3. Cardinality((S \ T) \cup (S \cap T))
        = Cardinality(S \ T) + Cardinality(S \cap T)
            - Cardinality((S \ T) \cap (S \cap T))
  BY <1>2, FS_Union
<1>4. Cardinality({}) = 0
  BY FS_EmptySet
<1>5. Cardinality(S) = Cardinality(S \ T) + Cardinality(S \cap T) - 0
  BY <1>1, <1>3, <1>4
<1> HIDE <1>1, <1>3
<1> QED
  BY <1>2, <1>5

(* One more, or one less.                                                   *)
LEMMA OneMore ==
  ASSUME NEW S, S \subseteq Pcbs, NEW x, x \notin S
  PROVE  /\ Cardinality(S) \in Nat
         /\ Cardinality(S \cup {x}) = Cardinality(S) + 1
BY FinitePcbs, FS_AddElement

LEMMA OneLess ==
  ASSUME NEW S, S \subseteq Pcbs, NEW x \in S
  PROVE  /\ Cardinality(S) \in Nat \ {0}
         /\ Cardinality(S \ {x}) = Cardinality(S) - 1
<1>1. IsFiniteSet(S) /\ Cardinality(S) \in Nat
  BY FinitePcbs
<1>2. Cardinality(S \ {x}) = Cardinality(S) - 1
  BY <1>1, FS_RemoveElement
<1>3. Cardinality(S) # 0
  BY <1>1, FS_EmptySet
<1> QED
  BY <1>1, <1>2, <1>3

-----------------------------------------------------------------------------
(* What the helpers of the handlers do to the counters.                     *)

LEMMA BlockCounts ==
  ASSUME Counted, Running, NEW s \in Semaphores, BlockCurrentProcess(s),
         UNCHANGED procVars, sem' = [sem EXCEPT ![s] = @ - 1],
         s \in UserSems => sem[s] <= 0
  PROVE  Sums'
<1> DEFINE c == currentProcess
<1>1. /\ c \in Pcbs /\ semAdd[c] = NULL /\ NULL \notin Semaphores
      /\ \A t \in Semaphores : c \notin Waiters(t) /\ Waiters(t) \subseteq Pcbs
      /\ c \notin Soft /\ Soft \subseteq Pcbs
  BY Places DEF Counted, Placed, CpuPlaced, ModeOK, Running, Unblocked,
                Waiters, Live, Soft, Semaphores
<1>2. /\ semAdd \in [Pcbs -> Semaphores \cup {NULL}]
      /\ sem \in [Semaphores -> Int]
      /\ softBlockCount \in Int
  BY DEF Counted, Placed, TypeInv, TypeOK
<1>3. /\ semAdd' = [semAdd EXCEPT ![c] = s]
      /\ softBlockCount' = IF s \in DeviceSems THEN softBlockCount + 1
                                               ELSE softBlockCount
      /\ pcbFree' = pcbFree /\ processCount' = processCount
  BY DEF BlockCurrentProcess, procVars
<1>4. /\ \A t \in Semaphores :
           Waiters(t)' = IF t = s THEN Waiters(t) \cup {c} ELSE Waiters(t)
      /\ Soft' = IF s \in DeviceSems THEN Soft \cup {c} ELSE Soft
  BY <1>1, <1>2, <1>3 DEF Waiters, Soft
<1> HIDE DEF c
<1>5. /\ Cardinality(Waiters(s)) \in Nat
      /\ Cardinality(Waiters(s) \cup {c}) = Cardinality(Waiters(s)) + 1
      /\ Cardinality(Soft) \in Nat
      /\ Cardinality(Soft \cup {c}) = Cardinality(Soft) + 1
  BY <1>1, OneMore
<1>6. /\ Cardinality(Waiters(s)') = Cardinality(Waiters(s)) + 1
      /\ sem'[s] = sem[s] - 1 /\ sem[s] \in Int
      /\ \A t \in Semaphores \ {s} :
           sem'[t] = sem[t] /\ Waiters(t)' = Waiters(t)
  BY <1>2, <1>4, <1>5
<1>7. CountsExact'
  BY <1>3, <1>4, <1>5, CountsParts DEF Counted, Sums, Live
<1>8. UserSemaphoresExact'
  <2> SUFFICES ASSUME NEW t \in UserSems
               PROVE  Cardinality(Waiters(t)')
                        = IF sem'[t] < 0 THEN -sem'[t] ELSE 0
    BY DEF UserSemaphoresExact
  <2>1. Cardinality(Waiters(t)) = IF sem[t] < 0 THEN -sem[t] ELSE 0
    BY DEF Counted, Sums, UserSemaphoresExact
  <2> QED
    BY <1>5, <1>6, <2>1 DEF Semaphores
<1>9. DeviceSemaphoresLow'
  <2> SUFFICES ASSUME NEW t \in DeviceSems
               PROVE  sem'[t] <= -Cardinality(Waiters(t)')
    BY DEF DeviceSemaphoresLow
  <2>1. sem[t] <= -Cardinality(Waiters(t))
    BY DEF Counted, Sums, DeviceSemaphoresLow
  <2> QED
    BY <1>5, <1>6, <2>1 DEF Semaphores
<1> QED
  BY <1>7, <1>8, <1>9 DEF Sums

(* A subtree D of the live processes is terminated: what the recursion adds *)
(* to the semaphores and takes from the counters is what leaves the queues. *)
LEMMA TerminateCounts ==
  ASSUME Counted, NEW D, D \subseteq Live, Terminate(D)
  PROVE  Sums'
<1>1. /\ semAdd \in [Pcbs -> Semaphores \cup {NULL}]
      /\ sem \in [Semaphores -> Int]
      /\ NULL \notin Semaphores
      /\ D \subseteq Pcbs /\ Live \subseteq Pcbs /\ Soft \subseteq Pcbs
      /\ \A s \in Semaphores : Waiters(s) \subseteq Pcbs
  BY Places DEF Counted, Placed, TypeInv, TypeOK, Live, Soft, Waiters
<1>2. /\ pcbFree' = pcbFree \cup D
      /\ \A p \in Pcbs : semAdd'[p] = IF p \in D THEN NULL ELSE semAdd[p]
      /\ \A s \in Semaphores :
           sem'[s] = IF s \in UserSems THEN sem[s] + Cardinality(Removed(D, s))
                                       ELSE sem[s]
      /\ softBlockCount' = softBlockCount
           - Cardinality(UNION {Removed(D, s) : s \in DeviceSems})
      /\ processCount' = processCount - Cardinality(D)
  BY DEF Terminate
<1>3. /\ Live' = Live \ D
      /\ Soft' = Soft \ D
      /\ \A s \in Semaphores : Waiters(s)' = Waiters(s) \ D
  BY <1>1, <1>2 DEF Live, Soft, Waiters, Semaphores
<1>4. \A s \in Semaphores : Removed(D, s) = Waiters(s) \cap D
  BY RemovedWaiters DEF Counted
<1>5. UNION {Removed(D, s) : s \in DeviceSems} = Soft \cap D
  BY <1>4 DEF Soft, Waiters, Semaphores
<1>6. CountsExact'
  <2>1. Live \cap D = D
    OBVIOUS
  <2>2. /\ Cardinality(Live \ D) = Cardinality(Live) - Cardinality(D)
        /\ Cardinality(Soft \ D) = Cardinality(Soft) - Cardinality(Soft \cap D)
    BY <1>1, <2>1, Taken
  <2> QED
    BY <1>2, <1>3, <1>5, <2>2, CountsParts DEF Counted, Sums
<1>7. ASSUME NEW s \in Semaphores
      PROVE  /\ sem[s] \in Int
             /\ Cardinality(Waiters(s)) \in Nat
             /\ Cardinality(Removed(D, s)) \in Nat
             /\ Cardinality(Waiters(s)')
                  = Cardinality(Waiters(s)) - Cardinality(Removed(D, s))
             /\ Cardinality(Waiters(s)') \in Nat
  <2>1. Waiters(s)' \subseteq Pcbs
    BY <1>1, <1>3
  <2>2. Cardinality(Waiters(s)') \in Nat
    BY <2>1, FinitePcbs
  <2> QED
    BY <1>1, <1>3, <1>4, <2>2, Taken
<1>8. UserSemaphoresExact'
  <2> SUFFICES ASSUME NEW s \in UserSems
               PROVE  Cardinality(Waiters(s)')
                        = IF sem'[s] < 0 THEN -sem'[s] ELSE 0
    BY DEF UserSemaphoresExact
  <2>1. Cardinality(Waiters(s)) = IF sem[s] < 0 THEN -sem[s] ELSE 0
    BY DEF Counted, Sums, UserSemaphoresExact
  <2>2. sem'[s] = sem[s] + Cardinality(Removed(D, s)) /\ s \in Semaphores
    BY <1>2 DEF Semaphores
  <2> QED
    BY <1>7, <2>1, <2>2
<1>9. DeviceSemaphoresLow'
  <2> SUFFICES ASSUME NEW s \in DeviceSems
               PROVE  sem'[s] <= -Cardinality(Waiters(s)')
    BY DEF DeviceSemaphoresLow
  <2>1. sem[s] <= -Cardinality(Waiters(s))
    BY DEF Counted, Sums, DeviceSemaphoresLow
  <2>2. sem'[s] = sem[s] /\ s \in Semaphores
    BY <1>2, SemaphoresAssumption DEF Semaphores
  <2> QED
    BY <1>7, <2>1, <2>2
<1> QED
  BY <1>6, <1>8, <1>9 DEF Sums

(* Who leaves when removeBlocked is called for the semaphores of S.         *)
LEMMA RemoveBlockedWaiters ==
  ASSUME Placed, NEW S \in SUBSET Semaphores, RemoveBlocked(S)
  PROVE  /\ FirstBlocked(S) \subseteq Pcbs
         /\ \A p \in FirstBlocked(S) : \E s \in S : p \in Waiters(s)
         /\ Soft' = Soft \ FirstBlocked(S)
         /\ \A s \in Semaphores :
              \/ Waiters(s)' = Waiters(s) /\ (s \in S => Waiters(s) = {})
              \/ /\ s \in S
                 /\ \E p \in Waiters(s) : Waiters(s)' = Waiters(s) \ {p}
<1> DEFINE First == FirstBlocked(S)
<1>1. /\ semAdd \in [Pcbs -> Semaphores \cup {NULL}]
      /\ blocked \in [Semaphores -> Seq(Pcbs)]
      /\ NULL \notin Semaphores
      /\ \A s, t \in Semaphores : s # t => Waiters(s) \cap Waiters(t) = {}
      /\ \A s \in Semaphores : Waiters(s) \subseteq Pcbs
  BY Places DEF Placed, TypeInv, TypeOK, Waiters
<1>2. \A p \in Pcbs : semAdd'[p] = IF p \in First THEN NULL ELSE semAdd[p]
  BY DEF RemoveBlocked
<1>3. ASSUME NEW s \in Semaphores
      PROVE  /\ blocked[s] # <<>> => Head(blocked[s]) \in Waiters(s)
             /\ blocked[s] = <<>> => Waiters(s) = {}
  <2>1. /\ blocked[s] \in Seq(Pcbs) /\ Range(blocked[s]) = Waiters(s)
        /\ IsInjective(blocked[s])
    BY <1>1 DEF Placed, QueuesPlaced, QueuePlaced
  <2>2. blocked[s] # <<>> => Head(blocked[s]) \in Range(blocked[s])
    BY <2>1, TailLists
  <2> QED
    BY <2>1, <2>2, EmptyLists
<1>4. /\ \A p \in First : \E s \in S : blocked[s] # <<>> /\ p = Head(blocked[s])
      /\ \A s \in S : blocked[s] # <<>> => Head(blocked[s]) \in First
  BY DEF FirstBlocked
<1> HIDE DEF First
<1>5. /\ \A p \in First : \E s \in S : p \in Waiters(s)
      /\ First \subseteq Pcbs
  BY <1>1, <1>3, <1>4
<1>6. \A s \in Semaphores : Waiters(s)' = Waiters(s) \ First
  BY <1>1, <1>2, <1>5 DEF Waiters
<1>7. Soft' = Soft \ First
  BY <1>1, <1>2, <1>5 DEF Soft, Semaphores
<1>8. ASSUME NEW s \in Semaphores, NEW p \in Waiters(s), p \in First
      PROVE  s \in S /\ blocked[s] # <<>> /\ p = Head(blocked[s])
  <2>1. PICK t \in S : blocked[t] # <<>> /\ p = Head(blocked[t])
    BY <1>4, <1>8
  <2>2. p \in Waiters(t) /\ t \in Semaphores
    BY <1>3, <2>1
  <2> QED
    BY <1>1, <1>8, <2>1, <2>2
<1>9. ASSUME NEW s \in Semaphores
      PROVE  \/ Waiters(s)' = Waiters(s) /\ (s \in S => Waiters(s) = {})
             \/ /\ s \in S
                /\ \E p \in Waiters(s) : Waiters(s)' = Waiters(s) \ {p}
  <2>1. CASE s \in S /\ blocked[s] # <<>>
    <3>1. Waiters(s)' = Waiters(s) \ {Head(blocked[s])}
      BY <1>4, <1>6, <1>8, <2>1
    <3> QED
      BY <1>3, <2>1, <3>1
  <2>2. CASE ~(s \in S /\ blocked[s] # <<>>)
    BY <1>3, <1>6, <1>8, <2>2
  <2> QED
    BY <2>1, <2>2
<1> QED
  BY <1>5, <1>7, <1>9 DEF First

(* The V of a process.                                                      *)
LEMMA VerhogenCounts ==
  ASSUME Counted, NEW s \in UserSems, Verhogen(s)
  PROVE  Sums'
<1>1. /\ sem \in [Semaphores -> Int] /\ s \in Semaphores
      /\ {s} \in SUBSET Semaphores /\ s \notin DeviceSems
      /\ \A t \in Semaphores : Waiters(t) \subseteq Pcbs
  BY SemaphoresAssumption
  DEF Counted, Placed, TypeInv, TypeOK, Semaphores, Waiters
<1>2. /\ sem' = [sem EXCEPT ![s] = @ + 1]
      /\ UNCHANGED <<pcbFree, processCount, softBlockCount>>
      /\ \/ sem'[s] <= 0 /\ RemoveBlocked({s})
         \/ ~(sem'[s] <= 0) /\ semAdd' = semAdd
  BY DEF Verhogen, procVars
<1>3. /\ sem'[s] = sem[s] + 1 /\ sem[s] \in Int
      /\ Cardinality(Waiters(s)) = IF sem[s] < 0 THEN -sem[s] ELSE 0
  BY <1>1, <1>2 DEF Counted, Sums, UserSemaphoresExact
<1>4. CASE ~(sem'[s] <= 0) /\ semAdd' = semAdd
  <2>1. /\ Soft' = Soft /\ Live' = Live
        /\ \A t \in Semaphores : Waiters(t)' = Waiters(t)
    BY <1>2, <1>4 DEF Soft, Live, Waiters
  <2>2. CountsExact'
    BY <1>2, <2>1, CountsParts DEF Counted, Sums
  <2>3. UserSemaphoresExact'
    BY <1>1, <1>2, <1>3, <1>4, <2>1
    DEF Counted, Sums, UserSemaphoresExact, Semaphores
  <2>4. DeviceSemaphoresLow'
    BY <1>1, <1>2, <2>1 DEF Counted, Sums, DeviceSemaphoresLow, Semaphores
  <2> QED
    BY <2>2, <2>3, <2>4 DEF Sums
<1>5. CASE sem'[s] <= 0 /\ RemoveBlocked({s})
  <2>1. /\ \A p \in FirstBlocked({s}) : p \in Waiters(s)
        /\ Soft' = Soft \ FirstBlocked({s})
        /\ \A t \in Semaphores :
             \/ Waiters(t)' = Waiters(t) /\ (t = s => Waiters(t) = {})
             \/ t = s /\ \E p \in Waiters(t) : Waiters(t)' = Waiters(t) \ {p}
    BY <1>1, <1>5, RemoveBlockedWaiters DEF Counted
  <2>2. Soft' = Soft /\ Live' = Live
    BY <1>1, <1>2, <2>1 DEF Soft, Live, Waiters
  <2>3. CountsExact'
    BY <1>2, <2>2, CountsParts DEF Counted, Sums
  <2>4. Cardinality(Waiters(s)') = -sem'[s]
    <3>1. sem[s] < 0 /\ Cardinality(Waiters(s)) = -sem[s]
      BY <1>3, <1>5
    <3>2. Waiters(s) # {}
      BY <3>1, <1>3, FS_EmptySet
    <3>3. PICK p \in Waiters(s) : Waiters(s)' = Waiters(s) \ {p}
      BY <1>1, <2>1, <3>2
    <3>4. Cardinality(Waiters(s)') = Cardinality(Waiters(s)) - 1
      BY <1>1, <3>3, OneLess
    <3> QED
      BY <1>3, <3>1, <3>4
  <2>5. \A t \in Semaphores \ {s} : Waiters(t)' = Waiters(t) /\ sem'[t] = sem[t]
    BY <1>1, <1>2, <2>1
  <2>6. UserSemaphoresExact'
    <3> SUFFICES ASSUME NEW t \in UserSems
                 PROVE  Cardinality(Waiters(t)')
                          = IF sem'[t] < 0 THEN -sem'[t] ELSE 0
      BY DEF UserSemaphoresExact
    <3>1. CASE t = s
      BY <1>3, <1>5, <2>4, <3>1
    <3>2. CASE t # s
      BY <2>5, <3>2 DEF Counted, Sums, UserSemaphoresExact, Semaphores
    <3> QED
      BY <3>1, <3>2
  <2>7. DeviceSemaphoresLow'
    BY <1>1, <2>5 DEF Counted, Sums, DeviceSemaphoresLow, Semaphores
  <2> QED
    BY <2>3, <2>6, <2>7 DEF Sums
<1> QED
  BY <1>2, <1>4, <1>5

(* The V of the interrupt handler on the device semaphores S.               *)
LEMMA SignalCounts ==
  ASSUME Counted, NEW S \in SUBSET DeviceSems, NEW rq, SignalDevices(S, rq)
  PROVE  Sums'
<1> DEFINE V == Signalled(S)
           First == FirstBlocked(V)
<1>1. /\ sem \in [Semaphores -> Int] /\ softBlockCount \in Int
      /\ V \in SUBSET DeviceSems /\ V \in SUBSET Semaphores
      /\ \A s \in V : sem[s] < 0
      /\ \A s \in Semaphores : Waiters(s) \subseteq Pcbs
      /\ Soft \subseteq Pcbs /\ UserSems \cap DeviceSems = {}
  BY SemaphoresAssumption
  DEF Counted, Placed, TypeInv, TypeOK, Signalled, Semaphores, Waiters, Soft
<1>2. /\ \A s \in Semaphores :
           sem'[s] = IF s \in V THEN sem[s] + 1 ELSE sem[s]
      /\ softBlockCount' = softBlockCount - Cardinality(First)
      /\ pcbFree' = pcbFree /\ processCount' = processCount
      /\ RemoveBlocked(V)
  BY DEF SignalDevices, procVars
<1> HIDE DEF V
<1>3. /\ First \subseteq Pcbs
      /\ \A p \in First : \E s \in V : p \in Waiters(s)
      /\ Soft' = Soft \ First
      /\ \A s \in Semaphores :
           \/ Waiters(s)' = Waiters(s) /\ (s \in V => Waiters(s) = {})
           \/ s \in V /\ \E p \in Waiters(s) : Waiters(s)' = Waiters(s) \ {p}
  BY <1>1, <1>2, RemoveBlockedWaiters DEF Counted
<1> HIDE DEF First
<1>4. CountsExact'
  <2>1. Soft \cap First = First
    BY <1>1, <1>3 DEF Soft, Waiters
  <2>2. Cardinality(Soft \ First) = Cardinality(Soft) - Cardinality(First)
    BY <1>1, <2>1, Taken
  <2> QED
    BY <1>2, <1>3, <2>2, CountsParts DEF Counted, Sums, Live
<1>5. UserSemaphoresExact'
  <2>1. \A s \in UserSems : Waiters(s)' = Waiters(s) /\ sem'[s] = sem[s]
    BY <1>1, <1>2, <1>3 DEF Semaphores
  <2> QED
    BY <2>1 DEF Counted, Sums, UserSemaphoresExact
<1>6. DeviceSemaphoresLow'
  <2> SUFFICES ASSUME NEW s \in DeviceSems
               PROVE  sem'[s] <= -Cardinality(Waiters(s)')
    BY DEF DeviceSemaphoresLow
  <2>1. /\ sem[s] <= -Cardinality(Waiters(s)) /\ s \in Semaphores
        /\ sem[s] \in Int /\ Waiters(s) \subseteq Pcbs
    BY <1>1 DEF Counted, Sums, DeviceSemaphoresLow, Semaphores
  <2>2. CASE Waiters(s)' = Waiters(s) /\ (s \in V => Waiters(s) = {})
    <3>1. CASE s \in V
      <4>1. Cardinality(Waiters(s)') = 0
        BY <2>2, <3>1, FS_EmptySet
      <4>2. sem'[s] = sem[s] + 1 /\ sem[s] < 0
        BY <1>1, <1>2, <2>1, <3>1
      <4> QED
        BY <2>1, <4>1, <4>2
    <3>2. CASE s \notin V
      <4>1. sem'[s] = sem[s]
        BY <1>2, <2>1, <3>2
      <4> QED
        BY <2>1, <2>2, <4>1
    <3> QED
      BY <3>1, <3>2
  <2>3. CASE s \in V /\ \E p \in Waiters(s) : Waiters(s)' = Waiters(s) \ {p}
    <3>1. /\ Cardinality(Waiters(s)') = Cardinality(Waiters(s)) - 1
          /\ Cardinality(Waiters(s)) \in Nat
      BY <2>1, <2>3, OneLess
    <3>2. sem'[s] = sem[s] + 1
      BY <1>2, <2>1, <2>3
    <3> QED
      BY <2>1, <3>1, <3>2
  <2> QED
    BY <1>3, <2>1, <2>2, <2>3
<1> QED
  BY <1>4, <1>5, <1>6 DEF Sums

LEMMA ClockTickCounts ==
  ASSUME Counted, ClockTick
  PROVE  Sums'
<1> DEFINE woken == blocked[Clock]
           W == Waiters(Clock)
<1>1. /\ semAdd \in [Pcbs -> Semaphores \cup {NULL}]
      /\ sem \in [Semaphores -> Int]
      /\ Clock \in DeviceSems /\ Clock \in Semaphores /\ Clock \notin UserSems
      /\ NULL \notin Semaphores /\ Soft \subseteq Pcbs /\ W \subseteq Pcbs
      /\ W \subseteq Soft
  BY SemaphoresAssumption
  DEF Counted, Placed, TypeInv, TypeOK, Semaphores, Soft, Waiters
<1>2. Len(woken) = Cardinality(W) /\ Range(woken) = W
  <2>1. woken \in Seq(Pcbs) /\ IsInjective(woken) /\ Range(woken) = W
    BY <1>1 DEF Counted, Placed, TypeInv, TypeOK, QueuesPlaced, QueuePlaced
  <2> HIDE DEF woken
  <2> QED
    BY <2>1, LengthCounts
<1>3. /\ \A p \in Pcbs : semAdd'[p] = IF p \in W THEN NULL ELSE semAdd[p]
      /\ sem' = [sem EXCEPT ![Clock] = 0]
      /\ softBlockCount' = softBlockCount - Cardinality(W)
      /\ pcbFree' = pcbFree /\ processCount' = processCount
  BY <1>2 DEF ClockTick, procVars
<1>4. /\ Soft' = Soft \ W /\ Live' = Live
      /\ Waiters(Clock)' = {}
      /\ \A s \in Semaphores \ {Clock} : Waiters(s)' = Waiters(s)
  BY <1>1, <1>3 DEF Soft, Live, Waiters, Semaphores
<1> HIDE DEF W
<1>5. CountsExact'
  <2>1. Soft \cap W = W
    BY <1>1
  <2>2. Cardinality(Soft \ W) = Cardinality(Soft) - Cardinality(W)
    BY <1>1, <2>1, Taken
  <2> QED
    BY <1>3, <1>4, <2>2, CountsParts DEF Counted, Sums
<1>6. UserSemaphoresExact'
  <2>1. \A s \in UserSems : Waiters(s)' = Waiters(s) /\ sem'[s] = sem[s]
    BY <1>1, <1>3, <1>4 DEF Semaphores
  <2> QED
    BY <2>1 DEF Counted, Sums, UserSemaphoresExact
<1>7. DeviceSemaphoresLow'
  <2>1. sem'[Clock] = 0 /\ Cardinality(Waiters(Clock)') = 0
    BY <1>1, <1>3, <1>4, FS_EmptySet
  <2>2. \A s \in DeviceSems \ {Clock} :
          Waiters(s)' = Waiters(s) /\ sem'[s] = sem[s]
    BY <1>1, <1>3, <1>4 DEF Semaphores
  <2> QED
    BY <2>1, <2>2 DEF Counted, Sums, DeviceSemaphoresLow
<1> QED
  BY <1>5, <1>6, <1>7 DEF Sums

-----------------------------------------------------------------------------
(* Every handler keeps the sums.                                            *)

LEMMA CountedInit == Init => Counted
<1> SUFFICES ASSUME Init PROVE Sums
  BY PlacedInit DEF Counted
<1>1. rootProcess \in Pcbs /\ NULL \notin Semaphores
  BY PcbsAssumption, SemaphoresAssumption
<1>2. /\ Live = {rootProcess} /\ Soft = {}
      /\ \A s \in Semaphores : Waiters(s) = {} /\ sem[s] = 0
  BY <1>1 DEF Init, Live, Soft, Waiters, Semaphores
<1>3. Cardinality({}) = 0 /\ Cardinality({rootProcess}) = 1
  BY FS_EmptySet, FS_Singleton
<1>4. CountsExact
  BY <1>2, <1>3, CountsParts DEF Init
<1>5. UserSemaphoresExact /\ DeviceSemaphoresLow
  BY <1>2, <1>3, SMTT(30) DEF UserSemaphoresExact, DeviceSemaphoresLow, Semaphores
<1> QED
  BY <1>4, <1>5 DEF Sums

LEMMA UnchangedCounts ==
  ASSUME Counted, UNCHANGED <<pcbFree, processCount, sem, semAdd, softBlockCount>>
  PROVE  Sums'
BY DEF Counted, Sums, CountsExact, UserSemaphoresExact, DeviceSemaphoresLow,
       Live, Waiters

LEMMA CreateCounts ==
  ASSUME Counted, NEW p \in Pcbs, NEW k \in Prios, CreateProcess(p, k)
  PROVE  Sums'
<1>1. /\ p \in pcbFree /\ pcbFree' = pcbFree \ {p}
      /\ processCount' = processCount + 1
      /\ UNCHANGED <<sem, semAdd, softBlockCount>>
  BY DEF CreateProcess, semVars
<1>2. Live' = Live \cup {p} /\ p \notin Live /\ Live \subseteq Pcbs
  BY <1>1 DEF Live
<1>3. Cardinality(Live') = Cardinality(Live) + 1
  BY <1>2, OneMore
<1>4. CountsExact'
  BY <1>1, <1>3, CountsParts DEF Counted, Sums, Soft
<1> QED
  BY <1>1, <1>4
  DEF Counted, Sums, UserSemaphoresExact, DeviceSemaphoresLow, Waiters

LEMMA CountedStep ==
  ASSUME DescriptorsSuffice
  PROVE  Counted /\ [Next]_vars => Counted'
<1> SUFFICES ASSUME Counted, [Next]_vars PROVE Sums'
  BY PlacedStep DEF Counted
<1>1. ASSUME NEW p \in Pcbs, NEW k \in Prios, CreateProcess(p, k) PROVE Sums'
  BY <1>1, CreateCounts
<1>2. ASSUME NEW t \in Pcbs, TerminateProcess(t) PROVE Sums'
  BY <1>2, DescendantsAreLive, TerminateCounts DEF TerminateProcess
<1>3. CASE Die
  BY <1>3, DescendantsAreLive, TerminateCounts DEF Die
<1>4. ASSUME NEW s \in UserSems, Passeren(s) PROVE Sums'
  <2>1. /\ s \in Semaphores /\ Running /\ UNCHANGED procVars
        /\ sem' = [sem EXCEPT ![s] = @ - 1]
        /\ sem \in [Semaphores -> Int]
    BY <1>4 DEF Semaphores, Passeren, Counted, Placed, TypeInv, TypeOK
  <2>2. CASE sem'[s] < 0 /\ BlockCurrentProcess(s)
    <3>1. sem[s] <= 0
      BY <2>1, <2>2
    <3> QED
      BY <2>1, <2>2, <3>1, BlockCounts
  <2>3. CASE /\ ~(sem'[s] < 0)
             /\ UNCHANGED <<cpuVars, blocked, active, semAdd, softBlockCount>>
    <3>1. /\ sem'[s] >= 0 /\ sem[s] >= 0 /\ s \notin DeviceSems
          /\ \A t \in Semaphores \ {s} : sem'[t] = sem[t]
          /\ sem'[s] \in Int /\ sem[s] \in Int
      <4>1. sem'[s] = sem[s] - 1 /\ sem[s] \in Int
        BY <2>1
      <4>2. s \notin DeviceSems
        BY SemaphoresAssumption
      <4>3. \A t \in Semaphores \ {s} : sem'[t] = sem[t]
        BY <2>1
      <4> QED
        BY <2>3, <4>1, <4>2, <4>3
    <3>2. /\ \A t \in Semaphores : Waiters(t)' = Waiters(t)
          /\ Live' = Live /\ Soft' = Soft /\ processCount' = processCount
      BY <2>1, <2>3 DEF Waiters, Live, Soft, procVars
    <3>3. CountsExact'
      BY <2>3, <3>2, CountsParts DEF Counted, Sums
    <3>4. UserSemaphoresExact'
      BY <3>1, <3>2 DEF Counted, Sums, UserSemaphoresExact, Semaphores
    <3>5. DeviceSemaphoresLow'
      BY <3>1, <3>2 DEF Counted, Sums, DeviceSemaphoresLow, Semaphores
    <3> QED
      BY <3>3, <3>4, <3>5 DEF Sums
  <2> QED
    BY <1>4, <2>2, <2>3 DEF Passeren
<1>5. ASSUME NEW s \in UserSems, Verhogen(s) PROVE Sums'
  BY <1>5, VerhogenCounts
<1>6. ASSUME NEW i \in IoDevices, DoIO(i) PROVE Sums'
  <2>1. i \in Semaphores /\ i \notin UserSems
    BY SemaphoresAssumption DEF IoDevices, Semaphores
  <2> QED
    BY <1>6, <2>1, BlockCounts DEF DoIO
<1>7. CASE WaitForClock
  <2>1. Clock \in Semaphores /\ Clock \notin UserSems
    BY SemaphoresAssumption DEF Semaphores
  <2> QED
    BY <1>7, <2>1, BlockCounts DEF WaitForClock
<1>8. CASE Yield \/ TimerInterrupt
  BY <1>8, UnchangedCounts DEF Yield, TimerInterrupt, procVars, semVars
<1>9. CASE ClockTick
  BY <1>9, ClockTickCounts
<1>10. ASSUME NEW i \in PlainDevices, DeviceInterrupt(i) PROVE Sums'
  <2>1. {i} \in SUBSET DeviceSems
    BY DEF PlainDevices
  <2> QED
    BY <1>10, <2>1, SignalCounts DEF DeviceInterrupt
<1>11. ASSUME NEW d \in Terminals, TerminalInterrupt(d) PROVE Sums'
  <2>1. {40 + d, 32 + d} \in SUBSET DeviceSems
    BY SemaphoresAssumption DEF Terminals
  <2> QED
    BY <1>11, <2>1, SignalCounts DEF TerminalInterrupt
<1>12. ASSUME NEW i \in IoDevices, DeviceFinishes(i) PROVE Sums'
  BY <1>12, UnchangedCounts DEF DeviceFinishes, procVars, semVars
<1>13. CASE UNCHANGED vars
  BY <1>13, UnchangedCounts DEF vars, procVars, semVars
<1>14. CASE Stopped
  BY <1>13, <1>14 DEF Stopped
<1> QED
  BY <1>1, <1>2, <1>3, <1>4, <1>5, <1>6, <1>7, <1>8, <1>9, <1>10, <1>11,
     <1>12, <1>13, <1>14 DEF Next

(* processCount is the number of live processes and softBlockCount that of  *)
(* the processes that wait for the hardware, however many handlers changed  *)
(* either, while the semaphores are no more than the descriptors.           *)
THEOREM CountsCorrect ==
  ASSUME DescriptorsSuffice
  PROVE  Spec => []CountsExact
<1>1. Counted => CountsExact
  BY DEF Counted, Sums
<1>2. Counted /\ [Next]_vars => Counted'
  BY CountedStep
<1> QED
  BY <1>1, <1>2, CountedInit, PTL DEF Spec

(* The value of a user semaphore counts its waiters when it is negative,    *)
(* and there is none when it is not: no V is spent on nobody, and no waiter *)
(* is forgotten, under the same assumption.                                 *)
THEOREM UserSemaphoresCorrect ==
  ASSUME DescriptorsSuffice
  PROVE  Spec => []UserSemaphoresExact
<1>1. Counted => UserSemaphoresExact
  BY DEF Counted, Sums
<1>2. Counted /\ [Next]_vars => Counted'
  BY CountedStep
<1> QED
  BY <1>1, <1>2, CountedInit, PTL DEF Spec

(* A device semaphore is low enough for the interrupt handler to wake every *)
(* one of its waiters, under the same assumption.                           *)
THEOREM DeviceSemaphoresCorrect ==
  ASSUME DescriptorsSuffice
  PROVE  Spec => []DeviceSemaphoresLow
<1>1. Counted => DeviceSemaphoresLow
  BY DEF Counted, Sums
<1>2. Counted /\ [Next]_vars => Counted'
  BY CountedStep
<1> QED
  BY <1>1, <1>2, CountedInit, PTL DEF Spec

-----------------------------------------------------------------------------
(* What the scheduler decides by the counters.                              *)

LEMMA RunningIsHonest ==
  ASSUME Placed', mode' = "run"
  PROVE  HonestStop'
<1>1. currentProcess' # NULL
  BY DEF Placed, CpuPlaced, ModeOK
<1>2. currentProcess' \in Unblocked'
  BY <1>1 DEF Placed, CpuPlaced
<1>3. Live' # {}
  BY <1>2 DEF Unblocked
<1> QED
  BY <1>3 DEF HonestStop

LEMMA ScheduleIsHonest ==
  ASSUME Placed', CountsExact', NEW rq,
         Schedule(rq, processCount', softBlockCount')
  PROVE  HonestStop'
<1>1. CASE rq # <<>>
  BY <1>1, RunningIsHonest DEF Schedule
<1>2. CASE rq = <<>>
  <2>1. /\ readyQueue' = <<>> /\ currentProcess' = NULL
        /\ mode' = StopMode(processCount', softBlockCount')
    BY <1>2 DEF Schedule
  <2>2. Unblocked' = {}
    <3>1. <<>> \in Seq(Pcbs)
      BY EmptySeq
    <3>2. Range(readyQueue') = {}
      BY <2>1, <3>1, EmptyLists
    <3>3. Range(readyQueue') = Unblocked' \ {NULL} /\ NULL \notin Pcbs
      BY <2>1, PcbsAssumption DEF Placed, CpuPlaced
    <3> QED
      BY <3>2, <3>3 DEF Unblocked, Live
  <2>3. /\ semAdd' \in [Pcbs -> Semaphores \cup {NULL}]
        /\ Live' \subseteq Pcbs /\ Soft' \subseteq Pcbs
        /\ FreePlaced' /\ NULL \notin Semaphores
    BY SemaphoresAssumption DEF Placed, TypeInv, TypeOK, Live, Soft
  <2>4. \A p \in Live' : semAdd'[p] \in Semaphores
    BY <2>2, <2>3 DEF Unblocked
  <2>5. Soft' \subseteq Live'
    BY <2>3 DEF Soft, Live, FreePlaced, Semaphores
  <2>6. /\ processCount' = Cardinality(Live') /\ processCount' \in Nat
        /\ softBlockCount' = Cardinality(Soft') /\ softBlockCount' \in Nat
        /\ processCount' = 0 <=> Live' = {}
        /\ softBlockCount' = 0 <=> Soft' = {}
    <3>1. IsFiniteSet(Live') /\ IsFiniteSet(Soft')
      BY <2>3, FinitePcbs
    <3> QED
      BY <2>3, <3>1, CountsParts, FinitePcbs, FS_EmptySet
  <2>7. CASE processCount' = 0
    <3>1. mode' = "halt"
      BY <2>1, <2>7 DEF StopMode
    <3> QED
      BY <2>6, <2>7, <3>1 DEF HonestStop
  <2>8. CASE processCount' > 0 /\ softBlockCount' > 0
    <3>1. mode' = "wait"
      BY <2>1, <2>6, <2>8 DEF StopMode
    <3>2. \E p \in Live' : semAdd'[p] \in DeviceSems
      BY <2>5, <2>6, <2>8 DEF Soft
    <3> QED
      BY <2>3, <2>4, <2>6, <2>8, <3>1, <3>2 DEF HonestStop
  <2>9. CASE processCount' > 0 /\ softBlockCount' = 0
    <3>1. mode' = "panic"
      BY <2>1, <2>6, <2>9 DEF StopMode
    <3>2. \A p \in Live' : semAdd'[p] \in UserSems
      BY <2>3, <2>4, <2>6, <2>9 DEF Soft, Semaphores
    <3> QED
      BY <2>6, <2>9, <3>1, <3>2 DEF HonestStop
  <2> QED
    BY <2>6, <2>7, <2>8, <2>9
<1> QED
  BY <1>1, <1>2

LEMMA ResumeOrScheduleIsHonest ==
  ASSUME Placed, Placed', CountsExact', processCount' = processCount, NEW rq,
         ResumeOrSchedule(rq, softBlockCount')
  PROVE  HonestStop'
<1>1. CASE currentProcess # NULL
  BY <1>1, RunningIsHonest DEF ResumeOrSchedule, Placed, CpuPlaced, ModeOK
<1>2. CASE currentProcess = NULL
  BY <1>2, ScheduleIsHonest DEF ResumeOrSchedule
<1> QED
  BY <1>1, <1>2

LEMMA TerminateIsHonest ==
  ASSUME Running, Placed', CountsExact', NEW D, Terminate(D)
  PROVE  HonestStop'
<1>1. CASE currentProcess \in D
  BY <1>1, ScheduleIsHonest DEF Terminate
<1>2. CASE currentProcess \notin D
  BY <1>2, RunningIsHonest DEF Terminate, Running
<1> QED
  BY <1>1, <1>2

(* The machine halts exactly when no process is left, panics only when      *)
(* every process waits for another's V, waits only when the hardware will   *)
(* wake somebody, and the scheduler always decides, under the same          *)
(* assumption.                                                              *)
THEOREM HonestCorrect ==
  ASSUME DescriptorsSuffice
  PROVE  Spec => []HonestStop
<1> DEFINE Honest == Counted /\ HonestStop
<1>1. Init => Honest
  <2> SUFFICES ASSUME Init PROVE HonestStop
    BY CountedInit
  <2>1. rootProcess \in Live /\ mode = "run"
    BY PcbsAssumption DEF Init, Live
  <2> QED
    BY <2>1 DEF HonestStop
<1>2. Honest /\ [Next]_vars => Honest'
  <2> SUFFICES ASSUME Counted, HonestStop, [Next]_vars, Counted'
               PROVE  HonestStop'
    BY CountedStep
  <2>0. Placed /\ Placed' /\ CountsExact'
    BY DEF Counted, Sums
  <2>1. ASSUME NEW p \in Pcbs, NEW k \in Prios, CreateProcess(p, k)
        PROVE  HonestStop'
    BY <2>0, <2>1, RunningIsHonest DEF CreateProcess, Running
  <2>2. ASSUME NEW t \in Pcbs, TerminateProcess(t) PROVE HonestStop'
    BY <2>0, <2>2, TerminateIsHonest DEF TerminateProcess
  <2>3. CASE Die
    BY <2>0, <2>3, TerminateIsHonest DEF Die
  <2>4. ASSUME NEW s \in Semaphores, Running, UNCHANGED procVars,
               BlockCurrentProcess(s)
        PROVE  HonestStop'
    <3>1. Schedule(readyQueue, processCount', softBlockCount')
      BY <2>4 DEF BlockCurrentProcess, procVars
    <3> QED
      BY <2>0, <3>1, ScheduleIsHonest
  <2>5. ASSUME NEW s \in UserSems, Passeren(s) PROVE HonestStop'
    <3>1. CASE BlockCurrentProcess(s)
      BY <2>4, <2>5, <3>1 DEF Passeren, Semaphores
    <3>2. CASE UNCHANGED cpuVars
      BY <2>0, <2>5, <3>2, RunningIsHonest DEF Passeren, Running, cpuVars
    <3> QED
      BY <2>5, <3>1, <3>2 DEF Passeren
  <2>6. ASSUME NEW s \in UserSems, Verhogen(s) PROVE HonestStop'
    BY <2>0, <2>6, RunningIsHonest DEF Verhogen, Running
  <2>7. ASSUME NEW i \in IoDevices, DoIO(i) PROVE HonestStop'
    BY <2>4, <2>7 DEF DoIO, IoDevices, Semaphores
  <2>8. CASE WaitForClock
    <3>1. Clock \in Semaphores
      BY SemaphoresAssumption DEF Semaphores
    <3> QED
      BY <2>4, <2>8, <3>1 DEF WaitForClock
  <2>9. CASE Yield \/ TimerInterrupt
    <3>1. Schedule(InsertProcQ(readyQueue, currentProcess, prio),
                   processCount', softBlockCount')
      BY <2>9 DEF Yield, TimerInterrupt, Requeue, procVars, semVars
    <3> QED
      BY <2>0, <3>1, ScheduleIsHonest
  <2>10. CASE ClockTick
    BY <2>0, <2>10, ResumeOrScheduleIsHonest DEF ClockTick, procVars
  <2>11. ASSUME NEW S, NEW rq, SignalDevices(S, rq) PROVE HonestStop'
    BY <2>0, <2>11, ResumeOrScheduleIsHonest DEF SignalDevices, procVars
  <2>12. ASSUME NEW i \in PlainDevices, DeviceInterrupt(i) PROVE HonestStop'
    BY <2>11, <2>12 DEF DeviceInterrupt
  <2>13. ASSUME NEW d \in Terminals, TerminalInterrupt(d) PROVE HonestStop'
    BY <2>11, <2>13 DEF TerminalInterrupt
  <2>14. CASE UNCHANGED <<procVars, cpuVars, semVars>>
    BY <2>14 DEF procVars, cpuVars, semVars, HonestStop, Live
  <2>15. ASSUME NEW i \in IoDevices, DeviceFinishes(i) PROVE HonestStop'
    BY <2>14, <2>15 DEF DeviceFinishes
  <2>16. CASE Stopped \/ UNCHANGED vars
    BY <2>14, <2>16 DEF Stopped, vars
  <2> QED
    BY <2>1, <2>2, <2>3, <2>5, <2>6, <2>7, <2>8, <2>9, <2>10, <2>12, <2>13,
       <2>15, <2>16 DEF Next
<1>3. Honest => HonestStop
  OBVIOUS
<1> HIDE DEF Honest
<1> QED
  BY <1>1, <1>2, <1>3, PTL DEF Spec

-----------------------------------------------------------------------------
(* Who waits for a device.                                                  *)

OneWaiter == \A i \in IoDevices : \A p, q \in Waiters(i) : p = q

Awaited == Counted /\ WaitersAwaited /\ OneWaiter

(* The interrupt handler acknowledges a device only with its waiter woken.  *)
LEMMA SignalAwaited ==
  ASSUME Awaited, NEW S \in SUBSET DeviceSems, NEW rq, SignalDevices(S, rq)
  PROVE  WaitersAwaited' /\ OneWaiter'
<1> SUFFICES ASSUME NEW i \in IoDevices
             PROVE  /\ Waiters(i)' # {} => device'[i].status # "ready"
                    /\ \A p, q \in Waiters(i)' : p = q
  BY DEF WaitersAwaited, OneWaiter
<1>1. /\ i \in DeviceSems /\ i \in Semaphores
      /\ Signalled(S) \in SUBSET Semaphores
      /\ Waiters(i) \subseteq Pcbs
  BY DEF IoDevices, Semaphores, Signalled, Waiters
<1>2. /\ RemoveBlocked(Signalled(S))
      /\ device'[i] = IF i \in S /\ device[i].status # "busy" THEN Idle
                                                              ELSE device[i]
  BY DEF SignalDevices, Acknowledge
<1>3. /\ Waiters(i) # {} => device[i].status # "ready"
      /\ \A p, q \in Waiters(i) : p = q
  BY DEF Awaited, WaitersAwaited, OneWaiter
<1>4. \/ /\ Waiters(i)' = Waiters(i)
         /\ i \in Signalled(S) => Waiters(i) = {}
      \/ /\ i \in Signalled(S)
         /\ \E p \in Waiters(i) : Waiters(i)' = Waiters(i) \ {p}
  BY <1>1, <1>2, RemoveBlockedWaiters DEF Awaited, Counted
<1>5. i \in S /\ Waiters(i) # {} => i \in Signalled(S)
  <2> SUFFICES ASSUME i \in S, Waiters(i) # {} PROVE sem[i] < 0
    BY DEF Signalled
  <2>1. /\ Cardinality(Waiters(i)) \in Nat /\ Cardinality(Waiters(i)) # 0
    BY <1>1, FinitePcbs, FS_EmptySet
  <2>2. sem[i] <= -Cardinality(Waiters(i)) /\ sem[i] \in Int
    BY <1>1 DEF Awaited, Counted, Sums, DeviceSemaphoresLow, Placed, TypeInv,
                TypeOK
  <2> QED
    BY <2>1, <2>2
<1> QED
  BY <1>2, <1>3, <1>4, <1>5

LEMMA BlockAwaited ==
  ASSUME Awaited, Running, NEW s \in Semaphores, BlockCurrentProcess(s)
  PROVE  \A t \in Semaphores :
           Waiters(t)' = IF t = s THEN Waiters(t) \cup {currentProcess}
                                  ELSE Waiters(t)
<1>1. /\ currentProcess \in Pcbs /\ NULL \notin Semaphores
      /\ semAdd[currentProcess] = NULL
      /\ semAdd \in [Pcbs -> Semaphores \cup {NULL}]
  BY Places DEF Awaited, Counted, Placed, CpuPlaced, ModeOK, Running,
                Unblocked, TypeInv, TypeOK
<1> QED
  BY <1>1 DEF BlockCurrentProcess, Waiters

LEMMA FewerAwaited ==
  ASSUME Awaited, UNCHANGED device,
         \A i \in IoDevices : Waiters(i)' \subseteq Waiters(i)
  PROVE  WaitersAwaited' /\ OneWaiter'
BY DEF Awaited, WaitersAwaited, OneWaiter

(* No interrupt is spent on someone else while a process waits for it: a    *)
(* waiter's device is busy or shows a result not acknowledged, even when    *)
(* the interrupt of one side of a terminal serves both.                     *)
THEOREM AwaitedCorrect ==
  ASSUME DescriptorsSuffice
  PROVE  Spec => []WaitersAwaited
<1>1. Init => Awaited
  <2> SUFFICES ASSUME Init PROVE WaitersAwaited /\ OneWaiter
    BY CountedInit DEF Awaited
  <2>1. \A i \in IoDevices : Waiters(i) = {}
    BY SemaphoresAssumption DEF Init, Waiters, IoDevices, Semaphores
  <2> QED
    BY <2>1 DEF WaitersAwaited, OneWaiter
<1>2. Awaited /\ [Next]_vars => Awaited'
  <2> SUFFICES ASSUME Awaited, [Next]_vars
               PROVE  WaitersAwaited' /\ OneWaiter'
    BY CountedStep DEF Awaited
  <2>0. /\ semAdd \in [Pcbs -> Semaphores \cup {NULL}]
        /\ blocked \in [Semaphores -> Seq(Pcbs)]
        /\ NULL \notin Semaphores /\ NULL \notin IoDevices
        /\ IoDevices \subseteq Semaphores /\ Clock \notin IoDevices
        /\ UserSems \cap IoDevices = {} /\ UserSems \subseteq Semaphores
        /\ Clock \in Semaphores
    BY SemaphoresAssumption
    DEF Awaited, Counted, Placed, TypeInv, TypeOK, IoDevices, Semaphores
  <2>1. CASE UNCHANGED <<semAdd, device>>
    BY <2>1, FewerAwaited DEF Waiters
  <2>2. ASSUME NEW D, Terminate(D) PROVE WaitersAwaited' /\ OneWaiter'
    <3>1. /\ \A p \in Pcbs : semAdd'[p] = IF p \in D THEN NULL ELSE semAdd[p]
          /\ device' = device
      BY <2>2 DEF Terminate
    <3>2. \A i \in IoDevices : Waiters(i)' \subseteq Waiters(i)
      BY <2>0, <3>1 DEF Waiters
    <3> QED
      BY <3>1, <3>2, FewerAwaited
  <2>3. ASSUME NEW s \in Semaphores \ IoDevices, Running, device' = device,
               BlockCurrentProcess(s)
        PROVE  WaitersAwaited' /\ OneWaiter'
    <3>1. \A i \in IoDevices : Waiters(i)' = Waiters(i)
      BY <2>0, <2>3, BlockAwaited
    <3> QED
      BY <2>3, <3>1, FewerAwaited
  <2>4. ASSUME NEW s \in UserSems, Passeren(s)
        PROVE  WaitersAwaited' /\ OneWaiter'
    <3>1. CASE BlockCurrentProcess(s)
      BY <2>0, <2>3, <2>4, <3>1 DEF Passeren
    <3>2. CASE UNCHANGED semAdd
      BY <2>1, <2>4, <3>2 DEF Passeren
    <3> QED
      BY <2>4, <3>1, <3>2 DEF Passeren
  <2>5. ASSUME NEW s \in UserSems, Verhogen(s)
        PROVE  WaitersAwaited' /\ OneWaiter'
    <3>1. CASE RemoveBlocked({s})
      <4>1. \A i \in IoDevices : Waiters(i)' = Waiters(i)
        BY <2>0, <3>1, RemoveBlockedWaiters, SMTT(30) DEF Awaited, Counted
      <4> QED
        BY <2>5, <4>1, FewerAwaited DEF Verhogen
    <3>2. CASE UNCHANGED semAdd
      BY <2>1, <2>5, <3>2 DEF Verhogen
    <3> QED
      BY <2>5, <3>1, <3>2 DEF Verhogen
  <2>6. ASSUME NEW i \in IoDevices, DoIO(i)
        PROVE  WaitersAwaited' /\ OneWaiter'
    <3>1. /\ Waiters(i) = {} /\ BlockCurrentProcess(i) /\ Running
          /\ device' = CommandWritten(i) /\ i \in Semaphores
          /\ device \in [IoDevices -> DeviceState]
      BY <2>0, <2>6 DEF DoIO, Awaited, Counted, Placed, TypeInv, TypeOK
    <3>2. \A j \in IoDevices :
            Waiters(j)' = IF j = i THEN {currentProcess} ELSE Waiters(j)
      BY <2>0, <3>1, BlockAwaited
    <3>3. /\ device'[i].status = "busy"
          /\ \A j \in IoDevices : j # i => device'[j] = device[j]
      BY <3>1 DEF CommandWritten
    <3> QED
      BY <3>2, <3>3 DEF Awaited, WaitersAwaited, OneWaiter
  <2>7. CASE ClockTick
    <3>1. /\ \A p \in Pcbs : semAdd'[p] = NULL \/ semAdd'[p] = semAdd[p]
          /\ device' = device
      BY <2>7 DEF ClockTick
    <3>2. \A i \in IoDevices : Waiters(i)' \subseteq Waiters(i)
      BY <2>0, <3>1 DEF Waiters
    <3> QED
      BY <3>1, <3>2, FewerAwaited
  <2>8. ASSUME NEW i \in PlainDevices, DeviceInterrupt(i)
        PROVE  WaitersAwaited' /\ OneWaiter'
    <3>1. {i} \in SUBSET DeviceSems
      BY DEF PlainDevices
    <3> QED
      BY <2>8, <3>1, SignalAwaited DEF DeviceInterrupt
  <2>9. ASSUME NEW d \in Terminals, TerminalInterrupt(d)
        PROVE  WaitersAwaited' /\ OneWaiter'
    <3>1. {40 + d, 32 + d} \in SUBSET DeviceSems
      BY SemaphoresAssumption DEF Terminals
    <3> QED
      BY <2>9, <3>1, SignalAwaited DEF TerminalInterrupt
  <2>10. ASSUME NEW i \in IoDevices, DeviceFinishes(i)
         PROVE  WaitersAwaited' /\ OneWaiter'
    <3>1. /\ device \in [IoDevices -> DeviceState]
          /\ device' = [device EXCEPT ![i].status = "done"]
          /\ semAdd' = semAdd
      BY <2>10 DEF DeviceFinishes, semVars, Awaited, Counted, Placed, TypeInv,
                   TypeOK
    <3>2. \A j \in IoDevices :
            device'[j].status = IF j = i THEN "done" ELSE device[j].status
      BY <3>1 DEF DeviceState
    <3> QED
      BY <3>1, <3>2 DEF Awaited, WaitersAwaited, OneWaiter, Waiters
  <2>11. ASSUME NEW p \in Pcbs, NEW k \in Prios, CreateProcess(p, k)
         PROVE  WaitersAwaited' /\ OneWaiter'
    BY <2>1, <2>11 DEF CreateProcess, semVars
  <2>12. CASE Yield \/ TimerInterrupt \/ Stopped \/ UNCHANGED vars
    BY <2>1, <2>12 DEF Yield, TimerInterrupt, Stopped, semVars, vars
  <2>13. CASE WaitForClock
    BY <2>0, <2>3, <2>13 DEF WaitForClock
  <2>14. ASSUME NEW t \in Pcbs, TerminateProcess(t)
         PROVE  WaitersAwaited' /\ OneWaiter'
    BY <2>2, <2>14 DEF TerminateProcess
  <2>15. CASE Die
    BY <2>2, <2>15 DEF Die
  <2> QED
    BY <2>4, <2>5, <2>6, <2>7, <2>8, <2>9, <2>10, <2>11, <2>12, <2>13,
       <2>14, <2>15 DEF Next
<1>3. Awaited => WaitersAwaited
  BY DEF Awaited
<1> QED
  BY <1>1, <1>2, <1>3, PTL DEF Spec
=============================================================================

----------------------------- MODULE ProcessLists -----------------------------
(****************************************************************************)
(* What phase1/ promises the nucleus: a list of free PCBs, the ready queue, *)
(* a queue for every semaphore, and the children of every process, all of   *)
(* them sequences, with at most Descriptors semaphores that have a          *)
(* descriptor.  Nucleus is built on these promises; LinkedLists keeps them  *)
(* with list heads and descriptors.                                         *)
(****************************************************************************)
EXTENDS ProcessQueues

CONSTANTS
  Pcbs,
  Sems,          \* the keys of the semaphores
  Descriptors,   \* how many of them can have a descriptor at once
  prio,          \* p_prio of every PCB, fixed here
  NULL

VARIABLES
  free,       \* the free PCBs, the next one to be given first
  ready,      \* the ready queue
  blocked,    \* the queue of every semaphore
  active,     \* the semaphores that have a descriptor
  semAdd,     \* p_semAdd
  children,   \* the children of every PCB
  parent      \* p_parent

vars == <<free, ready, blocked, active, semAdd, children, parent>>

(* All PCBs are free; in which order is left open.                          *)
Init ==
  /\ free \in {s \in [1..Cardinality(Pcbs) -> Pcbs] : Range(s) = Pcbs}
  /\ ready = <<>>
  /\ blocked = [s \in Sems |-> <<>>]
  /\ active = {}
  /\ semAdd = [p \in Pcbs |-> NULL]
  /\ children = [p \in Pcbs |-> <<>>]
  /\ parent = [p \in Pcbs |-> NULL]

Used == Pcbs \ Range(free)

(* In use and in no queue: on the processor, or taken out of a queue.       *)
Held == {p \in Used : /\ p \notin Range(ready)
                      /\ \A s \in Sems : p \notin Range(blocked[s])}

(* A process is created under q, or the first one, under nobody.            *)
Create(q) ==
  /\ free # <<>> /\ free' = Tail(free)
  /\ ready' = InsertProcQ(ready, Head(free), prio)
  /\ parent' = [parent EXCEPT ![Head(free)] = q]
  /\ children' = IF q = NULL THEN children
                 ELSE [children EXCEPT ![q] = Append(@, Head(free))]
  /\ semAdd' = [semAdd EXCEPT ![Head(free)] = NULL]
  /\ UNCHANGED <<blocked, active>>

Enqueue(p) ==
  /\ UNCHANGED <<semAdd, parent, free>>
  /\ p \in Held
  /\ ready' = InsertProcQ(ready, p, prio)
  /\ UNCHANGED <<active, children, blocked>>

Dequeue ==
  /\ UNCHANGED <<semAdd, parent, free>>
  /\ ready # <<>>
  /\ ready' = Tail(ready)
  /\ UNCHANGED <<active, children, blocked>>

Block(s, p) ==
  /\ semAdd' = [semAdd EXCEPT ![p] = s]
  /\ UNCHANGED <<parent, free, ready, children>>
  /\ p \in Held
  /\ s \in active \/ Cardinality(active) < Descriptors
  /\ active' = active \cup {s}
  /\ blocked' = [blocked EXCEPT ![s] = InsertProcQ(@, p, prio)]

(* The first waiter becomes ready; a descriptor without waiters is freed.   *)
Unblock(s) ==
  /\ UNCHANGED <<parent, free, children>>
  /\ active' = IF Len(blocked[s]) <= 1 THEN active \ {s} ELSE active
  /\ IF blocked[s] = <<>> THEN UNCHANGED <<blocked, ready, semAdd>>
     ELSE /\ blocked' = [blocked EXCEPT ![s] = Tail(@)]
          /\ ready' = InsertProcQ(ready, Head(blocked[s]), prio)
          /\ semAdd' = [semAdd EXCEPT ![Head(blocked[s])] = NULL]

(* A child leaves its parent.                                               *)
Orphan(q) ==
  /\ UNCHANGED <<semAdd, free, ready>>
  /\ children[q] # <<>>
  /\ children' = [children EXCEPT ![q] = Tail(@)]
  /\ parent' = [parent EXCEPT ![Head(children[q])] = NULL]
  /\ UNCHANGED <<active, blocked>>

(* A process without children ends, wherever it is.                         *)
Retire(p) ==
  /\ UNCHANGED semAdd
  /\ free' = <<p>> \o free
  /\ p \in Used /\ children[p] = <<>>
  /\ ready' = OutAllProcQ(ready, {p})
  /\ blocked' = [s \in Sems |-> OutAllProcQ(blocked[s], {p})]
  /\ children' = [q \in Pcbs |-> OutAllProcQ(children[q], {p})]
  /\ parent' = [parent EXCEPT ![p] = NULL]
  /\ UNCHANGED active

Next ==
  \/ \E q \in Used \cup {NULL} : Create(q)
  \/ \E p \in Pcbs : Enqueue(p) \/ Retire(p) \/ Orphan(p)
  \/ \E p \in Pcbs, s \in Sems : Block(s, p)
  \/ \E s \in Sems : Unblock(s)
  \/ Dequeue

Spec == Init /\ [][Next]_vars
=============================================================================

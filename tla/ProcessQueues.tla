---------------------------- MODULE ProcessQueues ----------------------------
(****************************************************************************)
(* The process queues of phase1/pcb.c.  A queue is the sequence of the PCBs *)
(* linked on one list head, first element first; prio is the function from  *)
(* PCBs to p_prio.  The same operators serve the ready queue and the queue  *)
(* of every semaphore descriptor (phase1/asl.c).                            *)
(*                                                                          *)
(* The loops of the kernel that move or drop several PCBs (the pseudo-clock *)
(* tick, the termination of a subtree) are InsertEach and OutEach.  What    *)
(* they come to is given in closed form, by the place every element ends up *)
(* at, because that is what invariants can be stated of; ClosedFormsAreLoops*)
(* of Nucleus says that the two are the same.                               *)
(****************************************************************************)
EXTENDS Integers, Sequences, FiniteSets, SequencesExt

(* The elements of the finite set S in the order of the strict total order  *)
(* R on it: x comes n-th when n-1 elements come before it.                  *)
Arrange(S, R) ==
  [n \in 1..Cardinality(S) |->
     CHOOSE x \in S : Cardinality({y \in S : <<y, x>> \in R}) = n - 1]

(* The elements of q at the positions places lists.                         *)
Listed(q, places) == [n \in DOMAIN places |-> q[places[n]]]

(* Mutant of InsertProcQ: the priority is not looked at.                    *)
InsertLast(q, p, prio) == Append(q, p)

(* insertProcQ: before the first PCB of strictly lower priority, else last. *)
InsertProcQ(q, p, prio) ==
  LET lower == {i \in DOMAIN q : prio[p] > prio[q[i]]}
  IN  IF lower = {} THEN Append(q, p) ELSE InsertAt(q, Min(lower), p)

(* Mutant of InsertAllProcQ: the queue is spliced in as it is.              *)
AppendAllProcQ(q, b, prio) == q \o b

(* insertProcQ of every PCB of the queue b, in the order of b, into the     *)
(* queue q: by decreasing priority and, within one, those of q before those *)
(* of b, each in its own order.                                             *)
InsertAllProcQ(q, b, prio) ==
  LET all == q \o b
      Before == {r \in (DOMAIN all) \X (DOMAIN all) :
                   \/ prio[all[r[1]]] > prio[all[r[2]]]
                   \/ /\ prio[all[r[1]]] = prio[all[r[2]]]
                      /\ r[1] < r[2]}
  IN  Listed(all, Arrange(DOMAIN all, Before))

(* The loop of the tick: removeBlocked and insertProcQ until none is left.  *)
InsertEach(q, b, prio) ==
  LET after[n \in 0..Len(b)] ==
        IF n = 0 THEN q ELSE InsertProcQ(after[n - 1], b[n], prio)
  IN  after[Len(b)]

(* outProcQ: the first element that is p leaves the queue, if there is one. *)
OutProcQ(q, p) ==
  LET at == {i \in DOMAIN q : q[i] = p}
  IN  IF at = {} THEN q ELSE RemoveAt(q, Min(at))

(* outProcQ of every PCB of the set D: the others keep their order.         *)
OutAllProcQ(q, D) ==
  LET kept   == {i \in DOMAIN q : q[i] \notin D}
      Before == {r \in kept \X kept : r[1] < r[2]}
  IN  Listed(q, Arrange(kept, Before))

(* A termination takes one process after the other out of a queue, in the   *)
(* order d it meets them in.                                                *)
OutEach(q, d) ==
  LET after[n \in 0..Len(d)] == IF n = 0 THEN q ELSE OutProcQ(after[n - 1], d[n])
  IN  after[Len(d)]

(* A queue in the order insertProcQ keeps.                                  *)
Ordered(q, prio) == \A i, j \in DOMAIN q : i < j => prio[q[i]] >= prio[q[j]]
=============================================================================

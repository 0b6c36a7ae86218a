----------------------------- MODULE LinkedLists -----------------------------
(****************************************************************************)
(* The data structures of phase1/ as they are in memory: the doubly linked  *)
(* circular lists of listx.h, the table of PCBs (pcb.c) and the table of    *)
(* semaphore descriptors with the ASL (asl.c).                              *)
(*                                                                          *)
(* A node is one struct list_head: a list head that is a variable, or a     *)
(* field of a PCB or a descriptor; its second component is the structure it *)
(* is contained in.  links is the contents of all of them, and the operators*)
(* from INIT_LIST_HEAD to insertProcQ are functions on it.  An action is    *)
(* what a handler of the nucleus does with the lists in one go: it inserts  *)
(* only PCBs that are in no queue (Nucleus shows that for the nucleus).     *)
(****************************************************************************)
EXTENDS Integers, Sequences, FiniteSets, Functions

CONSTANTS
  Pcbs,     \* pcbFree_table
  Semds,    \* semd_table; a table of its own size, so that either may run out
  Sems,     \* the addresses of the semaphores, the keys of the descriptors
  prio,     \* p_prio of every PCB
  NULL

ASSUME ListsAssumption ==
  /\ IsFiniteSet(Pcbs) /\ IsFiniteSet(Semds) /\ Sems \subseteq Int
  /\ prio \in [Pcbs -> Int]
  /\ NULL \notin Pcbs /\ NULL \notin Sems

p_list(p)  == <<"p_list", p>>
p_child(p) == <<"p_child", p>>
p_sib(p)   == <<"p_sib", p>>
s_link(d)  == <<"s_link", d>>
s_procq(d) == <<"s_procq", d>>
pcbFree_h  == <<"pcbFree_h", NULL>>
semdFree_h == <<"semdFree_h", NULL>>
semd_h     == <<"semd_h", NULL>>
readyQueue == <<"readyQueue", NULL>>

Nodes ==
  ({"p_list", "p_child", "p_sib"} \X Pcbs) \cup ({"s_link", "s_procq"} \X Semds)
  \cup {pcbFree_h, semdFree_h, semd_h, readyQueue}

VARIABLES
  links,     \* next and prev of every node
  s_key,     \* of every descriptor
  p_semAdd,
  p_parent

vars == <<links, s_key, p_semAdd, p_parent>>

-----------------------------------------------------------------------------
(* listx.h.                                                                 *)

INIT_LIST_HEAD(l, n) ==
  [next |-> [l.next EXCEPT ![n] = n], prev |-> [l.prev EXCEPT ![n] = n]]

(* __list_add: new comes between before and after.                          *)
ListInsert(l, new, before, after) ==
  [next |-> [l.next EXCEPT ![new] = after, ![before] = new],
   prev |-> [l.prev EXCEPT ![after] = new, ![new] = before]]

list_add(l, new, head)      == ListInsert(l, new, head, l.next[head])
list_add_tail(l, new, head) == ListInsert(l, new, l.prev[head], head)

(* Mutant of list_del: the entry keeps its links.                           *)
list_del_keep(l, n) ==
  [next |-> [l.next EXCEPT ![l.prev[n]] = l.next[n]],
   prev |-> [l.prev EXCEPT ![l.next[n]] = l.prev[n]]]

list_del(l, n) ==
  [next |-> [l.next EXCEPT ![l.prev[n]] = l.next[n], ![n] = n],
   prev |-> [l.prev EXCEPT ![l.next[n]] = l.prev[n], ![n] = n]]

list_empty(l, head) == l.next[head] = head

(* list_for_each: the nodes it visits.  No list has more nodes than there   *)
(* are PCBs and descriptors; one that does not come back to its head is     *)
(* followed that far.                                                       *)
Chain(l, head) ==
  LET most == Cardinality(Pcbs) + Cardinality(Semds)
      at[i \in 0..most + 1] == IF i = 0 THEN head ELSE l.next[at[i - 1]]
      len == CHOOSE i \in 0..most : /\ i = most \/ at[i + 1] = head
                                    /\ \A j \in 1..i : at[j] # head
  IN  [i \in 1..len |-> at[i]]

-----------------------------------------------------------------------------
(* pcb.c.                                                                   *)

(* insertProcQ: before the first PCB of lower priority, else last.          *)
insertProcQ(l, head, p) ==
  LET c == Chain(l, head)
      first == {n \in Nodes :
                  \E i \in DOMAIN c :
                    /\ c[i] = n /\ prio[p] > prio[n[2]]
                    /\ \A j \in 1..i - 1 : prio[p] <= prio[c[j][2]]}
      pos == CHOOSE n \in first : TRUE
  IN  IF first = {} THEN list_add_tail(l, p_list(p), head)
      ELSE ListInsert(l, p_list(p), l.prev[pos], pos)

(* outProcQ: p leaves the queue, if it is in it.                            *)
outProcQ(l, head, p) ==
  IF p_list(p) \in Range(Chain(l, head)) THEN list_del(l, p_list(p)) ELSE l

(* allocPcb, for the PCB p that is the first free one.                      *)
AllocPcb(l, p) ==
  INIT_LIST_HEAD(INIT_LIST_HEAD(list_del(l, p_list(p)), p_child(p)), p_sib(p))

(* The PCBs of a queue of p_list.                                           *)
Queue(head) == LET c == Chain(links, head) IN [i \in DOMAIN c |-> c[i][2]]

(* In use, and in no queue.                                                 *)
Used == Pcbs \ Range(Queue(pcbFree_h))
Held == {p \in Used : links.next[p_list(p)] = p_list(p)}

-----------------------------------------------------------------------------
(* asl.c.                                                                   *)

(* The search all functions start with: the descriptor of s, if any.        *)
Found(s) == {d \in Semds : s_key[d] = s /\ s_link(d) \in Range(Chain(links, semd_h))}

(* Where insertBlocked puts the descriptor of s: in front of insert_pos, the*)
(* last node before the keys greater than s, or the head.                   *)
InsertPos(l, s) ==
  LET c == Chain(l, semd_h)
      last == {n \in Nodes :
                 \E i \in DOMAIN c :
                   /\ c[i] = n
                   /\ \A j \in 1..i : s_key[c[j][2]] <= s
                   /\ i = Len(c) \/ s_key[c[i + 1][2]] > s}
  IN  IF last = {} THEN semd_h ELSE CHOOSE n \in last : TRUE

(* A free descriptor d becomes that of s.                                   *)
AllocSemd(l, d, s) ==
  LET m == INIT_LIST_HEAD(list_del(l, s_link(d)), s_procq(d))
  IN  list_add(m, s_link(d), m.prev[InsertPos(m, s)])

(* Mutant of FreeSemd: a descriptor is freed with PCBs still in its queue.  *)
FreeSemdBusy(l, d) == list_add(list_del(l, s_link(d)), s_link(d), semdFree_h)

(* removeBlocked gives a descriptor without waiters back.                   *)
FreeSemd(l, d) ==
  IF list_empty(l, s_procq(d))
  THEN list_add(list_del(l, s_link(d)), s_link(d), semdFree_h) ELSE l

-----------------------------------------------------------------------------
(* initPcbs and initASL: the tables in any order, and no other field set.   *)
(* The fields that allocPcb and insertBlocked will initialise are not       *)
(* looked at before; here they are empty lists from the start.              *)

(* Which node is followed by which in the list of the nodes of c.           *)
Linked(head, c) ==
  LET ring == [i \in 0..Len(c) + 1 |-> IF i \in DOMAIN c THEN c[i] ELSE head]
  IN  {<<ring[i], ring[i + 1]>> : i \in 0..Len(c)}

(* The same for all nodes, with the tables in the orders ps and ds.         *)
Followed(ps, ds) ==
  LET rings  == Linked(pcbFree_h, [i \in DOMAIN ps |-> p_list(ps[i])])
                \cup Linked(semdFree_h, [i \in DOMAIN ds |-> s_link(ds[i])])
      others == Nodes \ {r[1] : r \in rings}
  IN  rings \cup {<<n, n>> : n \in others}

Orders(S) == {c \in [1..Cardinality(S) -> S] : Range(c) = S}

Init ==
  /\ \E ps \in Orders(Pcbs), ds \in Orders(Semds) :
       LET pairs == Followed(ps, ds)
       IN  links = [next |-> [n \in Nodes |-> (CHOOSE r \in pairs : r[1] = n)[2]],
                    prev |-> [n \in Nodes |-> (CHOOSE r \in pairs : r[2] = n)[1]]]
  /\ s_key = [d \in Semds |-> NULL]
  /\ p_semAdd = [p \in Pcbs |-> NULL]
  /\ p_parent = [p \in Pcbs |-> NULL]

-----------------------------------------------------------------------------
(* What the handlers of the nucleus do.                                     *)

(* insertChild(q, p).                                                       *)
InsertChild(l, q, p) == IF q = NULL THEN l ELSE list_add_tail(l, p_sib(p), p_child(q))

(* createProcess by q, and initKernel for the first process.                *)
CreateProcess(q) ==
  LET p == links.next[pcbFree_h][2]
  IN  /\ ~list_empty(links, pcbFree_h)
      /\ links' = insertProcQ(InsertChild(AllocPcb(links, p), q, p), readyQueue, p)
      /\ p_parent' = [p_parent EXCEPT ![p] = q]
      /\ p_semAdd' = [p_semAdd EXCEPT ![p] = NULL]
      /\ UNCHANGED s_key

(* yield and the end of a time slice.                                       *)
Enqueue(p) ==
  /\ p \in Held
  /\ links' = insertProcQ(links, readyQueue, p)
  /\ UNCHANGED <<s_key, p_semAdd, p_parent>>

(* scheduler: removeProcQ.                                                  *)
Dequeue ==
  /\ ~list_empty(links, readyQueue)
  /\ links' = list_del(links, links.next[readyQueue])
  /\ UNCHANGED <<s_key, p_semAdd, p_parent>>

(* insertBlocked.  Without a free descriptor nothing happens.               *)
InsertBlocked(s, p) ==
  LET old == CHOOSE d \in Found(s) : TRUE
      new == links.next[semdFree_h][2]
  IN  /\ p \in Held
      /\ IF Found(s) # {}
         THEN /\ links' = insertProcQ(links, s_procq(old), p)
              /\ UNCHANGED s_key
         ELSE /\ ~list_empty(links, semdFree_h)
              /\ s_key' = [s_key EXCEPT ![new] = s]
              /\ links' = insertProcQ(AllocSemd(links, new, s), s_procq(new), p)
      /\ p_semAdd' = [p_semAdd EXCEPT ![p] = s]
      /\ UNCHANGED p_parent

(* removeBlocked, then the PCB joins the ready queue.                       *)
RemoveBlocked(s) ==
  LET d == CHOOSE e \in Found(s) : TRUE
      p == links.next[s_procq(d)][2]
  IN  /\ Found(s) # {}
      /\ IF list_empty(links, s_procq(d))
         THEN links' = FreeSemd(links, d) /\ UNCHANGED p_semAdd
         ELSE /\ links' = insertProcQ(FreeSemd(list_del(links, p_list(p)), d), readyQueue, p)
              /\ p_semAdd' = [p_semAdd EXCEPT ![p] = NULL]
      /\ UNCHANGED <<s_key, p_parent>>

(* removeChild, in the loop of recursiveTerminateProcess.                   *)
RemoveChild(q) ==
  LET child == links.next[p_child(q)][2]
  IN  /\ ~list_empty(links, p_child(q))
      /\ links' = list_del(links, links.next[p_child(q)])
      /\ p_parent' = [p_parent EXCEPT ![child] = NULL]
      /\ UNCHANGED <<s_key, p_semAdd>>

(* Mutant of OutBlocked: a look at the first of the queue only.             *)
OutBlockedFirst(l, p) ==
  LET d == CHOOSE e \in Found(p_semAdd[p]) : TRUE
  IN  IF p_semAdd[p] = NULL \/ Found(p_semAdd[p]) = {} THEN l
      ELSE IF l.next[s_procq(d)] = p_list(p) THEN list_del(l, p_list(p)) ELSE l

(* outBlocked, called for a PCB with a p_semAdd.                            *)
OutBlocked(l, p) ==
  LET d == CHOOSE e \in Found(p_semAdd[p]) : TRUE
  IN  IF p_semAdd[p] = NULL \/ Found(p_semAdd[p]) = {} THEN l
      ELSE outProcQ(l, s_procq(d), p)

OutChild(l, p) == IF p_parent[p] = NULL THEN l ELSE list_del(l, p_sib(p))

(* The rest of recursiveTerminateProcess, with freePcb.                     *)
Retire(p) ==
  LET out == OutChild(outProcQ(OutBlocked(links, p), readyQueue, p), p)
  IN  /\ p \in Used /\ list_empty(links, p_child(p))
      /\ links' = list_add(out, p_list(p), pcbFree_h)
      /\ p_parent' = [p_parent EXCEPT ![p] = NULL]
      /\ UNCHANGED <<s_key, p_semAdd>>

Next ==
  \/ Used = {} /\ CreateProcess(NULL)
  \/ \E q \in Held : CreateProcess(q)
  \/ Dequeue
  \/ \E p \in Pcbs : Enqueue(p) \/ RemoveChild(p) \/ Retire(p)
  \/ \E p \in Pcbs, s \in Sems : InsertBlocked(s, p)
  \/ \E s \in Sems : RemoveBlocked(s)

Spec == Init /\ [][Next]_vars

-----------------------------------------------------------------------------
(* Properties.                                                              *)

(* Every list is a ring in both directions, whatever PCBs and descriptors   *)
(* go from list to list by the links they are in (listx.h:104, 155).        *)
DoublyLinked ==
  \A n \in Nodes : links.prev[links.next[n]] = n /\ links.next[links.prev[n]] = n

(* outBlocked and removeBlocked find who they look for: a descriptor is in  *)
(* the ASL or free, no two in the ASL have one key, and the PCBs in the     *)
(* queue of a descriptor have its key as p_semAdd.                          *)
DescriptorsFound ==
  LET asl == Range(Chain(links, semd_h))
  IN  /\ \A d \in Semds : s_link(d) \in asl <=> s_link(d) \notin Range(Chain(links, semdFree_h))
      /\ \A d, e \in Semds :
           s_link(d) \in asl /\ s_link(e) \in asl /\ s_key[d] = s_key[e] => d = e
      /\ \A d \in Semds : \A p \in Range(Queue(s_procq(d))) :
           s_link(d) \in asl /\ p_semAdd[p] = s_key[d]

(* Behind the pointers are the sequences Nucleus works with.                *)
Blocked == [s \in Sems |-> IF Found(s) = {} THEN <<>>
                           ELSE Queue(s_procq(CHOOSE d \in Found(s) : TRUE))]
Active   == {s \in Sems : Found(s) # {}}
Children == [p \in Pcbs |-> Queue(p_child(p))]

Lists == INSTANCE ProcessLists WITH
  Descriptors <- Cardinality(Semds),
  free     <- Queue(pcbFree_h),
  ready    <- Queue(readyQueue),
  blocked  <- Blocked,
  active   <- Active,
  semAdd   <- p_semAdd,
  children <- Children,
  parent   <- p_parent
ListsSpec == Lists!Spec
=============================================================================

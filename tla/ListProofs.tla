----------------------------- MODULE ListProofs -----------------------------
(****************************************************************************)
(* The lists of phase1/ keep what they promise, for tables of any size.     *)
(*                                                                          *)
(*   1. Laid(l, c): the nodes of l are the lists c, a sequence of entries    *)
(*      for every head, and what is in no list points to itself.  list_add, *)
(*      list_del, INIT_LIST_HEAD, insertProcQ and outProcQ go from one such *)
(*      layout to another, and list_for_each visits the sequence.           *)
(*   2. Holds(l, v): the same for the structures behind the entries.        *)
(*   3. ListsInv: the nodes hold sequences, the descriptors in the ASL have *)
(*      a key each, and the PCBs in their queues have it as p_semAdd; the   *)
(*      lists of children are the inverse of p_parent.                      *)
(*   4. Every handler keeps ListsInv and is an action of ProcessLists; and  *)
(*      initPcbs and initASL establish it.                                  *)
(****************************************************************************)
EXTENDS LinkedLists, ProcessQueueProofs

Rings(l) ==
  /\ l.next \in [Nodes -> Nodes] /\ l.prev \in [Nodes -> Nodes]
  /\ \A n \in Nodes : l.prev[l.next[n]] = n /\ l.next[l.prev[n]] = n

(* An entry that is in no list.                                             *)
Single(l, n) == l.next[n] = n

(* list_del leaves two lists: the rest, and the entry by itself, which      *)
(* makes a second list_del of it harmless (listx.h:150-159).                *)
THEOREM DelKeepsRings ==
  ASSUME NEW l, Rings(l), NEW n \in Nodes
  PROVE  Rings(list_del(l, n)) /\ Single(list_del(l, n), n)
<1> DEFINE before == l.prev[n]
           after  == l.next[n]
           next   == [l.next EXCEPT ![before] = after, ![n] = n]
           prev   == [l.prev EXCEPT ![after] = before, ![n] = n]
<1>1. /\ before \in Nodes /\ after \in Nodes
      /\ l.next[before] = n /\ l.prev[after] = n
      /\ before = n <=> after = n
  BY DEF Rings
<1>2. /\ next \in [Nodes -> Nodes] /\ prev \in [Nodes -> Nodes]
      /\ \A m \in Nodes : next[m] = IF m = n THEN n ELSE IF m = before THEN after ELSE l.next[m]
      /\ \A m \in Nodes : prev[m] = IF m = n THEN n ELSE IF m = after THEN before ELSE l.prev[m]
  BY <1>1 DEF Rings
<1>3. ASSUME NEW m \in Nodes PROVE prev[next[m]] = m /\ next[prev[m]] = m
  <2>1. /\ l.next[m] \in Nodes /\ l.prev[m] \in Nodes
        /\ l.prev[l.next[m]] = m /\ l.next[l.prev[m]] = m
    BY DEF Rings
  <2>2. CASE m = n
    BY <1>2, <2>2
  <2>3. CASE m # n
    <3>1. prev[next[m]] = m
      BY <1>1, <1>2, <2>1, <2>3
    <3>2. next[prev[m]] = m
      BY <1>1, <1>2, <2>1, <2>3
    <3> QED
      BY <3>1, <3>2
  <2> QED
    BY <2>2, <2>3
<1>4. list_del(l, n).next = next /\ list_del(l, n).prev = prev
  BY DEF list_del
<1> HIDE DEF next, prev, before, after
<1> QED
  BY <1>2, <1>3, <1>4 DEF Rings, Single

(* __list_add (listx.h:97-109) joins a ring and an entry by itself.         *)
THEOREM InsertKeepsRings ==
  ASSUME NEW l, Rings(l), NEW new \in Nodes, Single(l, new),
         NEW before \in Nodes, before # new
  PROVE  Rings(ListInsert(l, new, before, l.next[before]))
<1> DEFINE after == l.next[before]
           next  == [l.next EXCEPT ![new] = after, ![before] = new]
           prev  == [l.prev EXCEPT ![after] = new, ![new] = before]
<1>1. /\ after \in Nodes /\ l.prev[after] = before /\ l.prev[new] = new
      /\ after # new
  BY DEF Rings, Single
<1>2. /\ next \in [Nodes -> Nodes] /\ prev \in [Nodes -> Nodes]
      /\ \A m \in Nodes : next[m] = IF m = before THEN new ELSE IF m = new THEN after ELSE l.next[m]
      /\ \A m \in Nodes : prev[m] = IF m = new THEN before ELSE IF m = after THEN new ELSE l.prev[m]
  BY <1>1 DEF Rings
<1>3. ASSUME NEW m \in Nodes PROVE prev[next[m]] = m /\ next[prev[m]] = m
  <2>1. /\ l.next[m] \in Nodes /\ l.prev[m] \in Nodes
        /\ l.prev[l.next[m]] = m /\ l.next[l.prev[m]] = m
    BY DEF Rings
  <2>2. prev[next[m]] = m
    BY <1>1, <1>2, <2>1 DEF Single
  <2>3. next[prev[m]] = m
    BY <1>1, <1>2, <2>1 DEF Single
  <2> QED
    BY <2>2, <2>3
<1>4. /\ ListInsert(l, new, before, l.next[before]).next = next
      /\ ListInsert(l, new, before, l.next[before]).prev = prev
  BY DEF ListInsert
<1> HIDE DEF next, prev, after
<1> QED
  BY <1>2, <1>3, <1>4 DEF Rings

-----------------------------------------------------------------------------
(* The lists in the nodes.                                                  *)

Heads ==
  {pcbFree_h, semdFree_h, semd_h, readyQueue}
  \cup ({"s_procq"} \X Semds) \cup ({"p_child"} \X Pcbs)

Entries == ({"p_list", "p_sib"} \X Pcbs) \cup ({"s_link"} \X Semds)

(* The structures a list is of, by which field, and so the entries it has.  *)
Field(h) == IF h \in {semdFree_h, semd_h} THEN "s_link"
            ELSE IF h[1] = "p_child" THEN "p_sib" ELSE "p_list"
Members(h) == IF Field(h) = "s_link" THEN Semds ELSE Pcbs
Fits(h)    == {Field(h)} \X Members(h)

(* A node is a head or an entry, never both.                                *)
LEMMA NodeNames ==
  /\ Heads \cup Entries = Nodes /\ Heads \cap Entries = {}
  /\ pcbFree_h \in Heads /\ semdFree_h \in Heads /\ semd_h \in Heads /\ readyQueue \in Heads
  /\ \A p \in Pcbs : p_list(p) \in Entries /\ p_sib(p) \in Entries /\ p_child(p) \in Heads
  /\ \A d \in Semds : s_link(d) \in Entries /\ s_procq(d) \in Heads
<1> USE DEF Heads, Entries, Nodes, pcbFree_h, semdFree_h, semd_h, readyQueue,
            p_list, p_sib, p_child, s_link, s_procq
<1>1. Heads \cup Entries = Nodes
  OBVIOUS
<1>2. Heads \cap Entries = {}
  OBVIOUS
<1>3. /\ pcbFree_h \in Heads /\ semdFree_h \in Heads /\ semd_h \in Heads /\ readyQueue \in Heads
      /\ \A p \in Pcbs : p_list(p) \in Entries /\ p_sib(p) \in Entries /\ p_child(p) \in Heads
      /\ \A d \in Semds : s_link(d) \in Entries /\ s_procq(d) \in Heads
  OBVIOUS
<1> QED
  BY <1>1, <1>2, <1>3

(* The entries the list at each head is of.                                 *)
LEMMA WhatFits ==
  /\ \A h \in Heads : Fits(h) \subseteq Entries
  /\ Fits(pcbFree_h) = {"p_list"} \X Pcbs /\ Fits(readyQueue) = {"p_list"} \X Pcbs
  /\ Fits(semd_h) = {"s_link"} \X Semds /\ Fits(semdFree_h) = {"s_link"} \X Semds
  /\ \A d \in Semds : Fits(s_procq(d)) = {"p_list"} \X Pcbs
  /\ \A p \in Pcbs : Fits(p_child(p)) = {"p_sib"} \X Pcbs
  /\ \A h \in Heads : \/ Fits(h) = {"p_list"} \X Pcbs \/ Fits(h) = {"p_sib"} \X Pcbs
                      \/ Fits(h) = {"s_link"} \X Semds
<1> USE DEF Heads, Entries, Fits, Field, Members, pcbFree_h, semdFree_h, semd_h, readyQueue,
            p_child, s_procq
<1>1. \A h \in Heads : Fits(h) \subseteq Entries
  OBVIOUS
<1>2. /\ Fits(pcbFree_h) = {"p_list"} \X Pcbs /\ Fits(readyQueue) = {"p_list"} \X Pcbs
      /\ Fits(semd_h) = {"s_link"} \X Semds /\ Fits(semdFree_h) = {"s_link"} \X Semds
  OBVIOUS
<1>3. /\ \A d \in Semds : Fits(s_procq(d)) = {"p_list"} \X Pcbs
      /\ \A p \in Pcbs : Fits(p_child(p)) = {"p_sib"} \X Pcbs
  OBVIOUS
<1> QED
  BY <1>1, <1>2, <1>3

(* From head on, next leads through q and back.                             *)
Spot(head, q, i) == IF i = 0 THEN head ELSE q[i]

Ring(l, head, q) ==
  \A i \in 0..Len(q) :
    l.next[Spot(head, q, i)] = IF i = Len(q) THEN head ELSE q[i + 1]

List(l, head, q) == q \in Seq(Fits(head)) /\ IsInjective(q) /\ Ring(l, head, q)

(* No list is longer than Chain goes.                                       *)
LEMMA ListBound ==
  ASSUME NEW h \in Heads, NEW q \in Seq(Fits(h)), IsInjective(q)
  PROVE  Len(q) \in Nat /\ Len(q) <= Cardinality(Pcbs) + Cardinality(Semds)
<1>1. IsFiniteSet(Pcbs) /\ IsFiniteSet(Semds)
  BY ListsAssumption
<1>2. Cardinality(Pcbs) \in Nat /\ Cardinality(Semds) \in Nat
  BY <1>1, FS_CardinalityType
<1>3. ASSUME NEW t, NEW S, IsFiniteSet(S)
      PROVE  IsFiniteSet({t} \X S) /\ Cardinality({t} \X S) = Cardinality(S)
  <2>1. IsFiniteSet({t}) /\ Cardinality({t}) = 1
    BY FS_Singleton
  <2>2. /\ IsFiniteSet({t} \X S)
        /\ Cardinality({t} \X S) = Cardinality({t}) * Cardinality(S)
    BY <1>3, <2>1, FS_Product
  <2>3. Cardinality(S) \in Nat
    BY <1>3, FS_CardinalityType
  <2> QED
    BY <2>1, <2>2, <2>3
<1>4. /\ IsFiniteSet(Fits(h))
      /\ Cardinality(Fits(h)) <= Cardinality(Pcbs) + Cardinality(Semds)
  <2> DEFINE Small(S) == /\ IsFiniteSet(S)
                         /\ Cardinality(S) <= Cardinality(Pcbs) + Cardinality(Semds)
  <2>1. ASSUME NEW t PROVE Small({t} \X Semds)
    <3>1. /\ IsFiniteSet({t} \X Semds)
          /\ Cardinality({t} \X Semds) = Cardinality(Semds)
      BY <1>1, <1>3
    <3> QED
      BY <1>2, <3>1
  <2>2. ASSUME NEW t PROVE Small({t} \X Pcbs)
    <3>1. /\ IsFiniteSet({t} \X Pcbs)
          /\ Cardinality({t} \X Pcbs) = Cardinality(Pcbs)
      BY <1>1, <1>3
    <3> QED
      BY <1>2, <3>1
  <2> HIDE DEF Small
  <2>3. Small(Fits(h))
    BY <2>1, <2>2, WhatFits
  <2> QED
    BY <2>3 DEF Small
<1>5. Range(q) \subseteq Fits(h) /\ Len(q) \in Nat
  BY SequenceShape
<1>6. Len(q) = Cardinality(Range(q))
  BY LengthCounts
<1>7. Cardinality(Range(q)) <= Cardinality(Fits(h)) /\ Cardinality(Fits(h)) \in Nat
  BY <1>4, <1>5, FS_Subset, FS_CardinalityType
<1> QED
  BY <1>2, <1>4, <1>5, <1>6, <1>7

(* A function can be applied again and again.                               *)
Iterates(f, g, h, m) == f = [i \in 0..m |-> IF i = 0 THEN h ELSE g[f[i - 1]]]

(* Such a function exists for every number of steps.                        *)
LEMMA Iterated ==
  ASSUME NEW g, NEW h, NEW m \in Nat
  PROVE  \E f : Iterates(f, g, h, m)
<1> DEFINE S == {k \in 0..m :
                   \E f : f = [i \in 0..k |-> IF i = 0 THEN h ELSE g[f[i - 1]]]}
<1>1. 0 \in S
  <2> DEFINE f == [i \in 0..0 |-> h]
  <2>1. f = [i \in 0..0 |-> IF i = 0 THEN h ELSE g[f[i - 1]]]
    OBVIOUS
  <2> HIDE DEF f
  <2> QED
    BY <2>1
<1>2. ASSUME NEW k \in 0..m - 1, k \in S PROVE k + 1 \in S
  <2>1. PICK f : f = [i \in 0..k |-> IF i = 0 THEN h ELSE g[f[i - 1]]]
    BY <1>2
  <2> DEFINE e == [i \in 0..k + 1 |-> IF i <= k THEN f[i] ELSE g[f[k]]]
  <2>2. ASSUME NEW i \in 0..k + 1
        PROVE  e[i] = IF i = 0 THEN h ELSE g[e[i - 1]]
    <3>1. CASE i = 0
      BY <2>1, <3>1
    <3>2. CASE i \in 1..k
      <4>1. i - 1 \in 0..k + 1 /\ i - 1 <= k /\ i \in 0..k /\ i # 0 /\ i <= k
        BY <3>2
      <4>2. f[i] = g[f[i - 1]]
        BY <2>1, <4>1
      <4> QED
        BY <4>1, <4>2
    <3>3. CASE i = k + 1
      <4>1. i - 1 = k /\ k \in 0..k + 1 /\ k <= k /\ ~(i <= k) /\ i # 0
        BY <3>3
      <4> QED
        BY <4>1
    <3> QED
      BY <3>1, <3>2, <3>3
  <2>3. e = [i \in 0..k + 1 |-> e[i]]
    OBVIOUS
  <2> HIDE DEF e
  <2>4. e = [i \in 0..k + 1 |-> IF i = 0 THEN h ELSE g[e[i - 1]]]
    BY <2>2, <2>3
  <2>5. k + 1 \in 0..m
    OBVIOUS
  <2> QED
    BY <2>4, <2>5
<1> HIDE DEF S
<1>3. m \in S
  <2>1. 0..m \subseteq S
    BY <1>1, <1>2, CountUp
  <2> QED
    BY <2>1
<1> QED
  BY <1>3 DEF S, Iterates

(* Chain is that list.                                                      *)
LEMMA ChainIs ==
  ASSUME NEW l, NEW h \in Heads, NEW q, List(l, h, q)
  PROVE  Chain(l, h) = q
<1> DEFINE most == Cardinality(Pcbs) + Cardinality(Semds)
           n == Len(q)
           at == CHOOSE f : Iterates(f, l.next, h, most + 1)
           Whole(i) == /\ i = most \/ at[i + 1] = h
                       /\ \A j \in 1..i : at[j] # h
           len == CHOOSE i \in 0..most : /\ i = most \/ at[i + 1] = h
                                         /\ \A j \in 1..i : at[j] # h
<1>1. Chain(l, h) = [i \in 1..len |-> at[i]]
  BY Zenon DEF Chain, Iterates
<1>2. /\ q \in Seq(Fits(h)) /\ IsInjective(q) /\ n \in Nat /\ n <= most
      /\ \A i \in 1..n : q[i] \in Fits(h) /\ q[i] \in Entries /\ q[i] # h
  <2>1. q \in Seq(Fits(h)) /\ IsInjective(q)
    BY DEF List
  <2>2. \A i \in 1..n : q[i] \in Fits(h)
    BY <2>1, SequenceShape
  <2> HIDE DEF n
  <2> QED
    BY <2>1, <2>2, ListBound, WhatFits, NodeNames DEF n
<1>3. \A i \in 0..n : l.next[IF i = 0 THEN h ELSE q[i]] = IF i = n THEN h ELSE q[i + 1]
  BY DEF List, Ring, Spot
<1>4. most \in Nat
  BY ListsAssumption, FS_CardinalityType
<1> HIDE DEF most, n
<1>5. \E f : Iterates(f, l.next, h, most + 1)
  <2>1. most + 1 \in Nat
    BY <1>4
  <2> QED
    BY <2>1, Iterated
<1>6. \A i \in 0..most + 1 : at[i] = IF i = 0 THEN h ELSE l.next[at[i - 1]]
  <2>1. Iterates(at, l.next, h, most + 1)
    BY <1>5
  <2> QED
    BY <2>1 DEF Iterates
<1> HIDE DEF at
<1>7. \A i \in 0..n : at[i] = IF i = 0 THEN h ELSE q[i]
  <2> DEFINE S == {i \in 0..n : at[i] = IF i = 0 THEN h ELSE q[i]}
  <2>1. \A i \in 0..n : i \in 0..most + 1 /\ i + 1 \in 0..most + 1
    BY <1>2, <1>4
  <2>2. at[0] = h /\ \A i \in 0..n - 1 : at[i + 1] = l.next[at[i]]
    BY <1>2, <1>4, <1>6, <2>1
  <2>3. 0 \in S
    BY <1>2, <2>2
  <2>4. ASSUME NEW i \in 0..n - 1, i \in S PROVE i + 1 \in S
    <3>1. at[i + 1] = q[i + 1]
      BY <1>2, <1>3, <2>2, <2>4
    <3> QED
      BY <1>2, <3>1
  <2> HIDE DEF S
  <2>5. 0..n \subseteq S
    BY <1>2, <2>3, <2>4, CountUp
  <2> QED
    BY <2>5 DEF S
<1>8. at[n + 1] = h
  <2>1. n \in 0..n /\ n + 1 \in 0..most + 1 /\ n + 1 # 0
    BY <1>2, <1>4
  <2>2. at[n + 1] = l.next[at[n + 1 - 1]]
    BY <1>6, <2>1
  <2>3. n + 1 - 1 = n
    BY <1>2
  <2> QED
    BY <1>3, <1>7, <2>1, <2>2, <2>3
<1>9. \A i \in 0..most : Whole(i) <=> i = n
  <2>1. \A i \in 1..n : at[i] # h
    BY <1>2, <1>7
  <2> QED
    BY <1>2, <1>4, <1>8, <2>1
<1>10. len = n
  <2>1. n \in 0..most
    BY <1>2, <1>4
  <2> QED
    BY <1>9, <2>1
<1>11. q = [i \in 1..n |-> q[i]]
  BY <1>2, SequenceShape DEF n
<1>12. [i \in 1..n |-> at[i]] = [i \in 1..n |-> q[i]]
  <2>1. \A i \in 1..n : at[i] = q[i]
    BY <1>2, <1>7
  <2> QED
    BY <2>1
<1> HIDE DEF len
<1> QED
  BY <1>1, <1>10, <1>11, <1>12

-----------------------------------------------------------------------------
(* All lists together.                                                      *)

Listing(c) == UNION {Range(c[h]) : h \in Heads}

Laid(l, c) ==
  /\ Rings(l) /\ c \in [Heads -> Seq(Entries)]
  /\ \A h \in Heads : List(l, h, c[h])
  /\ \A h, g \in Heads : h # g => Range(c[h]) \cap Range(c[g]) = {}
  /\ \A n \in Entries : n \notin Listing(c) => Single(l, n)

Chains(l) == [h \in Heads |-> Chain(l, h)]

(* list_for_each finds the lists that are laid out.                         *)
LEMMA ChainsAre ==
  ASSUME NEW l, NEW c, Laid(l, c)
  PROVE  Chains(l) = c
<1>1. c = [h \in Heads |-> c[h]]
  BY DEF Laid
<1>2. \A h \in Heads : Chain(l, h) = c[h]
  BY ChainIs DEF Laid
<1> QED
  BY <1>1, <1>2 DEF Chains

(* No node is in two places.                                                *)
LEMMA Spots ==
  ASSUME NEW l, NEW c, Laid(l, c), NEW h \in Heads, NEW i \in 0..Len(c[h])
  PROVE  /\ Spot(h, c[h], i) \in Nodes
         /\ l.next[Spot(h, c[h], i)] = IF i = Len(c[h]) THEN h ELSE c[h][i + 1]
         /\ \A n \in Entries \ Listing(c) : n # Spot(h, c[h], i)
         /\ \A g \in Heads : \A j \in 0..Len(c[g]) :
              Spot(h, c[h], i) = Spot(g, c[g], j) => h = g /\ i = j
<1>1. ASSUME NEW g \in Heads
      PROVE  /\ c[g] \in Seq(Fits(g)) /\ Len(c[g]) \in Nat
             /\ \A j \in 1..Len(c[g]) : c[g][j] \in Range(c[g]) /\ c[g][j] \in Entries
             /\ \A j, k \in 1..Len(c[g]) : c[g][j] = c[g][k] => j = k
  <2>1. c[g] \in Seq(Fits(g)) /\ IsInjective(c[g])
    BY DEF Laid, List
  <2>2. /\ Len(c[g]) \in Nat
        /\ \A j \in 1..Len(c[g]) : c[g][j] \in Range(c[g]) /\ c[g][j] \in Fits(g)
        /\ \A j, k \in 1..Len(c[g]) : c[g][j] = c[g][k] => j = k
    BY <2>1, SequenceShape
  <2> QED
    BY <2>1, <2>2, WhatFits
<1>2. ASSUME NEW g \in Heads, NEW j \in 0..Len(c[g])
      PROVE  \/ j = 0 /\ Spot(g, c[g], j) = g
             \/ /\ j \in 1..Len(c[g]) /\ Spot(g, c[g], j) = c[g][j]
                /\ c[g][j] \in Entries /\ c[g][j] \in Range(c[g])
  BY <1>1 DEF Spot
<1>3. Spot(h, c[h], i) \in Nodes
  BY <1>2, NodeNames
<1>4. l.next[Spot(h, c[h], i)] = IF i = Len(c[h]) THEN h ELSE c[h][i + 1]
  BY DEF Laid, List, Ring
<1>5. \A n \in Entries \ Listing(c) : n # Spot(h, c[h], i)
  BY <1>2, NodeNames DEF Listing
<1>6. ASSUME NEW g \in Heads, NEW j \in 0..Len(c[g]), Spot(h, c[h], i) = Spot(g, c[g], j)
      PROVE  h = g /\ i = j
  <2>1. i = 0 <=> j = 0
    BY <1>2, <1>6, NodeNames
  <2>2. CASE i = 0
    BY <1>2, <1>6, <2>1, <2>2
  <2>3. CASE i # 0
    <3>1. c[h][i] = c[g][j] /\ c[h][i] \in Range(c[h]) /\ c[g][j] \in Range(c[g])
          /\ i \in 1..Len(c[h]) /\ j \in 1..Len(c[g])
      BY <1>2, <1>6, <2>1, <2>3
    <3>2. h = g
      BY <3>1 DEF Laid
    <3> QED
      BY <1>1, <3>1, <3>2
  <2> QED
    BY <2>2, <2>3
<1> QED
  BY <1>3, <1>4, <1>5, <1>6

(* list_del takes the entry out of the list it is in.                       *)
LEMMA DelLaid ==
  ASSUME NEW l, NEW c, Laid(l, c), NEW h \in Heads, NEW k \in 1..Len(c[h])
  PROVE  Laid(list_del(l, c[h][k]), [c EXCEPT ![h] = Dropped(c[h], k)])
<1> DEFINE q == c[h]
           n == q[k]
           r == Dropped(q, k)
           m == list_del(l, n)
           d == [c EXCEPT ![h] = r]
           before == Spot(h, q, k - 1)
<1>1. /\ q \in Seq(Fits(h)) /\ q \in Seq(Entries) /\ IsInjective(q) /\ Len(q) \in Nat \ {0}
      /\ c \in [Heads -> Seq(Entries)] /\ Rings(l)
  <2>1. q \in Seq(Fits(h)) /\ q \in Seq(Entries) /\ IsInjective(q)
        /\ c \in [Heads -> Seq(Entries)] /\ Rings(l)
    BY DEF Laid, List
  <2> QED
    BY <2>1, SequenceShape
<1>2. /\ k - 1 \in 0..Len(q) /\ k \in 0..Len(q) /\ k # 0 /\ k - 1 # Len(q)
      /\ k - 1 + 1 = k /\ k \in 1..Len(q)
  BY <1>1
<1>3. n = Spot(h, q, k) /\ n \in Nodes /\ before \in Nodes /\ before # n
  BY <1>2, Spots, SMTT(30) DEF Spot
<1>4. l.next[before] = n /\ l.next[n] = IF k = Len(q) THEN h ELSE q[k + 1]
  BY <1>2, <1>3, Spots
<1>5. l.prev[n] = before
  BY <1>1, <1>3, <1>4 DEF Rings
<1>6. Rings(m) /\ Single(m, n)
  BY <1>1, <1>3, DelKeepsRings
<1>7. \A x \in Nodes : m.next[x] = IF x = n THEN n
                                   ELSE IF x = before THEN l.next[n] ELSE l.next[x]
  BY <1>1, <1>3, <1>5 DEF list_del, Rings
<1>8. /\ r \in Seq(Fits(h)) /\ r \in Seq(Entries) /\ Len(r) = Len(q) - 1 /\ IsInjective(r)
      /\ Range(r) = Range(q) \ {n}
  BY <1>1, TakenLists
<1>9. \A g \in Heads : d[g] = IF g = h THEN r ELSE c[g]
  BY <1>1
<1>10. Ring(m, h, r)
  <2> SUFFICES ASSUME NEW i \in 0..Len(r)
               PROVE  m.next[Spot(h, r, i)] = IF i = Len(r) THEN h ELSE r[i + 1]
    BY DEF Ring
  <2>0. \A j \in 1..Len(q) - 1 : r[j] = IF j < k THEN q[j] ELSE q[j + 1]
    BY DEF Dropped
  <2>1. CASE i < k - 1
    <3>1. /\ i \in 0..Len(q) /\ i + 1 \in 1..Len(q) - 1 /\ i + 1 < k /\ i # k /\ i # k - 1
          /\ i # Len(q) /\ i # Len(r) /\ (i # 0 => i \in 1..Len(q) - 1 /\ i < k)
      BY <1>1, <1>8, <2>1
    <3>2. Spot(h, r, i) = Spot(h, q, i) /\ r[i + 1] = q[i + 1]
      BY <2>0, <3>1 DEF Spot
    <3>3. Spot(h, q, i) # n /\ Spot(h, q, i) # before /\ Spot(h, q, i) \in Nodes
      BY <1>2, <1>3, <3>1, Spots
    <3> QED
      BY <1>7, <3>1, <3>2, <3>3, Spots
  <2>2. CASE i = k - 1
    <3>1. /\ i \in 0..Len(q) /\ (i # 0 => i \in 1..Len(q) - 1 /\ i < k)
          /\ (i = Len(r) <=> k = Len(q))
          /\ (i # Len(r) => i + 1 \in 1..Len(q) - 1 /\ ~(i + 1 < k) /\ i + 1 + 1 = k + 1)
      BY <1>1, <1>2, <1>8, <2>2
    <3>2. Spot(h, r, i) = before /\ (i # Len(r) => r[i + 1] = q[k + 1])
      BY <2>0, <2>2, <3>1 DEF Spot
    <3> QED
      BY <1>3, <1>4, <1>7, <3>1, <3>2
  <2>3. CASE i >= k
    <3>1. /\ i \in 1..Len(q) - 1 /\ ~(i < k) /\ i + 1 \in 0..Len(q) /\ i # 0 /\ i + 1 # 0
          /\ i + 1 # k /\ i + 1 # k - 1 /\ (i = Len(r) <=> i + 1 = Len(q))
          /\ (i # Len(r) => i + 1 \in 1..Len(q) - 1 /\ ~(i + 1 < k))
      <4> DEFINE a == Len(q)
                 b == Len(r)
      <4>1. a \in Nat \ {0} /\ b = a - 1 /\ k \in 1..a /\ i \in 0..b
        BY <1>1, <1>8
      <4> HIDE DEF a, b
      <4>2. /\ i \in 1..a - 1 /\ ~(i < k) /\ i + 1 \in 0..a /\ i # 0 /\ i + 1 # 0
            /\ i + 1 # k /\ i + 1 # k - 1 /\ (i = b <=> i + 1 = a)
            /\ (i # b => i + 1 \in 1..a - 1 /\ ~(i + 1 < k))
        BY <2>3, <4>1
      <4> QED
        BY <4>2 DEF a, b
    <3>2. Spot(h, r, i) = Spot(h, q, i + 1) /\ (i # Len(r) => r[i + 1] = q[i + 1 + 1])
      BY <2>0, <3>1 DEF Spot
    <3>3. Spot(h, q, i + 1) # n /\ Spot(h, q, i + 1) # before /\ Spot(h, q, i + 1) \in Nodes
      BY <1>2, <1>3, <3>1, Spots
    <3>4. l.next[Spot(h, q, i + 1)] = IF i + 1 = Len(q) THEN h ELSE q[i + 1 + 1]
      BY <3>1, Spots
    <3> QED
      BY <1>7, <3>1, <3>2, <3>3, <3>4
  <2> QED
    BY <1>1, <1>8, <2>1, <2>2, <2>3
<1>11. ASSUME NEW g \in Heads, g # h PROVE List(m, g, c[g])
  <2>1. ASSUME NEW i \in 0..Len(c[g])
        PROVE  m.next[Spot(g, c[g], i)] = IF i = Len(c[g]) THEN g ELSE c[g][i + 1]
    <3>1. Spot(g, c[g], i) # n /\ Spot(g, c[g], i) # before /\ Spot(g, c[g], i) \in Nodes
      BY <1>2, <1>3, <1>11, Spots
    <3> QED
      BY <1>7, <3>1, Spots
  <2> QED
    BY <2>1 DEF Laid, List, Ring
<1> HIDE DEF q, n, r, m, before
<1>12. d \in [Heads -> Seq(Entries)]
  BY <1>1, <1>8
<1> HIDE DEF d
<1>13. \A g \in Heads : List(m, g, d[g])
  BY <1>8, <1>9, <1>10, <1>11 DEF List
<1>14. \A g \in Heads : Range(d[g]) \subseteq Range(c[g])
  BY <1>8, <1>9 DEF q
<1>15. \A g, f \in Heads : g # f => Range(d[g]) \cap Range(d[f]) = {}
  BY <1>14 DEF Laid
<1>16. ASSUME NEW x \in Entries, x \notin Listing(d) PROVE Single(m, x)
  <2>1. CASE x = n
    BY <1>6, <2>1
  <2>2. CASE x # n
    <3>1. x \notin Listing(c)
      BY <1>8, <1>9, <1>16, <2>2 DEF Listing, q
    <3>2. x # before /\ x \in Nodes /\ l.next[x] = x
      <4>1. x # Spot(h, c[h], k - 1)
        BY <1>2, <3>1, Spots DEF q
      <4>2. x \in Nodes /\ Single(l, x)
        BY <3>1, NodeNames DEF Laid
      <4> QED
        BY <4>1, <4>2 DEF Single, before, q
    <3> QED
      BY <1>7, <2>2, <3>2 DEF Single
  <2> QED
    BY <2>1, <2>2
<1>17. Laid(m, d)
  BY <1>6, <1>12, <1>13, <1>15, <1>16 DEF Laid
<1> QED
  BY <1>17 DEF m, d, n, r, q

(* __list_add puts an entry that is in no list between two nodes of one.    *)
LEMMA InsertLaid ==
  ASSUME NEW l, NEW c, Laid(l, c), NEW h \in Heads, NEW k \in 1..Len(c[h]) + 1,
         NEW n \in Fits(h), n \notin Listing(c)
  PROVE  LET before == Spot(h, c[h], k - 1)
         IN  Laid(ListInsert(l, n, before, l.next[before]), [c EXCEPT ![h] = Put(c[h], k, n)])
<1> DEFINE q == c[h]
           r == Put(q, k, n)
           before == Spot(h, q, k - 1)
           m == ListInsert(l, n, before, l.next[before])
           d == [c EXCEPT ![h] = r]
<1>1. /\ q \in Seq(Fits(h)) /\ q \in Seq(Entries) /\ IsInjective(q) /\ Len(q) \in Nat
      /\ c \in [Heads -> Seq(Entries)] /\ Rings(l)
  <2>1. q \in Seq(Fits(h)) /\ q \in Seq(Entries) /\ IsInjective(q)
        /\ c \in [Heads -> Seq(Entries)] /\ Rings(l)
    BY DEF Laid, List
  <2> QED
    BY <2>1, SequenceShape
<1>2. k - 1 \in 0..Len(q) /\ k \in 1..Len(q) + 1
  BY <1>1
<1>3. /\ n \in Entries /\ n \in Nodes /\ n # h /\ l.next[n] = n /\ Single(l, n)
      /\ before \in Nodes /\ before # n
  <2>1. n \in Entries /\ n \in Nodes /\ n # h
    BY WhatFits, NodeNames
  <2>2. Single(l, n)
    BY <2>1 DEF Laid
  <2>3. before \in Nodes /\ n # before
    BY <1>2, <2>1, Spots
  <2> QED
    BY <2>1, <2>2, <2>3 DEF Single
<1>4. l.next[before] = IF k - 1 = Len(q) THEN h ELSE q[k - 1 + 1]
  BY <1>2, Spots
<1>5. Rings(m)
  BY <1>1, <1>3, InsertKeepsRings
<1>6. \A x \in Nodes : m.next[x] = IF x = before THEN n
                                   ELSE IF x = n THEN l.next[before] ELSE l.next[x]
  BY <1>1, <1>3 DEF ListInsert, Rings
<1>7. n \notin Range(q)
  BY DEF Listing
<1>8. /\ r \in Seq(Fits(h)) /\ Len(r) = Len(q) + 1 /\ IsInjective(r)
      /\ Range(r) = Range(q) \cup {n}
  BY <1>1, <1>7, PutLists
<1>9. r \in Seq(Entries)
  BY <1>1, <1>3, PutLists
<1>10. \A g \in Heads : d[g] = IF g = h THEN r ELSE c[g]
  BY <1>1
<1>11. Ring(m, h, r)
  <2> SUFFICES ASSUME NEW i \in 0..Len(r)
               PROVE  m.next[Spot(h, r, i)] = IF i = Len(r) THEN h ELSE r[i + 1]
    BY DEF Ring
  <2> DEFINE a == Len(q)
             b == Len(r)
  <2>1. a \in Nat /\ b = a + 1 /\ k \in 1..a + 1 /\ i \in 0..b
    BY <1>1, <1>8
  <2>2. \A j \in 1..a + 1 : r[j] = IF j < k THEN q[j] ELSE IF j = k THEN n ELSE q[j - 1]
    BY DEF Put
  <2>3. ASSUME NEW j \in 0..a, j # k - 1
        PROVE  /\ m.next[Spot(h, q, j)] = IF j = a THEN h ELSE q[j + 1]
    <3>1. Spot(h, q, j) # n /\ Spot(h, q, j) # before /\ Spot(h, q, j) \in Nodes
      BY <1>2, <1>3, <2>3, Spots
    <3>2. l.next[Spot(h, q, j)] = IF j = a THEN h ELSE q[j + 1]
      BY Spots
    <3> QED
      BY <1>6, <3>1, <3>2
  <2>4. CASE i < k - 1
    <3>1. /\ i \in 0..a /\ i # k - 1 /\ i # a /\ i # b
          /\ (i # 0 => i \in 1..a + 1 /\ i < k)
          /\ i + 1 \in 1..a + 1 /\ i + 1 < k
      <4> HIDE DEF a, b
      <4> QED
        BY <2>1, <2>4
    <3>2. Spot(h, r, i) = Spot(h, q, i) /\ r[i + 1] = q[i + 1]
      BY <2>2, <3>1 DEF Spot
    <3> QED
      BY <2>3, <3>1, <3>2
  <2>5. CASE i = k - 1
    <3>1. /\ i # b /\ i + 1 \in 1..a + 1 /\ i + 1 = k
          /\ (i # 0 => i \in 1..a + 1 /\ i < k)
      <4> HIDE DEF a, b
      <4> QED
        BY <2>1, <2>5
    <3>2. ~(k < k)
      BY <1>2
    <3>3. Spot(h, r, i) = before /\ r[i + 1] = n
      BY <2>2, <2>5, <3>1, <3>2 DEF Spot
    <3> QED
      BY <1>3, <1>6, <3>1, <3>3
  <2>6. CASE i = k
    <3>1. /\ i # 0 /\ i \in 1..a + 1 /\ ~(i < k) /\ (i = b <=> k - 1 = a)
          /\ (i # b => i + 1 \in 1..a + 1 /\ ~(i + 1 < k) /\ i + 1 # k /\ i + 1 - 1 = k
                       /\ k - 1 + 1 = k)
      <4> HIDE DEF a, b
      <4> QED
        BY <2>1, <2>6
    <3>2. Spot(h, r, i) = n /\ (i # b => r[i + 1] = q[k])
      BY <2>2, <2>6, <3>1 DEF Spot
    <3> QED
      BY <1>3, <1>4, <1>6, <3>1, <3>2
  <2>7. CASE i > k
    <3>1. /\ i # 0 /\ i \in 1..a + 1 /\ ~(i < k) /\ i # k /\ i - 1 \in 0..a /\ i - 1 # 0
          /\ i - 1 # k - 1 /\ (i = b <=> i - 1 = a) /\ i - 1 + 1 = i
          /\ (i # b => i + 1 \in 1..a + 1 /\ ~(i + 1 < k) /\ i + 1 # k /\ i + 1 - 1 = i)
      <4> HIDE DEF a, b
      <4> QED
        BY <2>1, <2>7
    <3>2. Spot(h, r, i) = Spot(h, q, i - 1) /\ (i # b => r[i + 1] = q[i])
      BY <2>2, <3>1 DEF Spot
    <3> QED
      BY <2>3, <3>1, <3>2
  <2> QED
    <3> HIDE DEF a, b
    <3> QED
      BY <2>1, <2>4, <2>5, <2>6, <2>7 DEF b
<1>12. ASSUME NEW g \in Heads, g # h PROVE List(m, g, c[g])
  <2>1. ASSUME NEW i \in 0..Len(c[g])
        PROVE  m.next[Spot(g, c[g], i)] = IF i = Len(c[g]) THEN g ELSE c[g][i + 1]
    <3>1. Spot(g, c[g], i) # before /\ Spot(g, c[g], i) \in Nodes
      BY <1>2, <1>12, Spots
    <3>2. Spot(g, c[g], i) # n
      BY <1>3, Spots
    <3> QED
      BY <1>6, <3>1, <3>2, Spots
  <2> QED
    BY <2>1 DEF Laid, List, Ring
<1> HIDE DEF q, r, m, before
<1>13. d \in [Heads -> Seq(Entries)]
  BY <1>1, <1>9
<1> HIDE DEF d
<1>14. \A g \in Heads : List(m, g, d[g])
  BY <1>8, <1>10, <1>11, <1>12 DEF List
<1>15. \A g \in Heads : Range(d[g]) = IF g = h THEN Range(c[g]) \cup {n} ELSE Range(c[g])
  BY <1>8, <1>10 DEF q
<1>16. \A g, f \in Heads : g # f => Range(d[g]) \cap Range(d[f]) = {}
  <2>1. \A g \in Heads : n \notin Range(c[g])
    BY DEF Listing
  <2>2. \A g, f \in Heads : g # f => Range(c[g]) \cap Range(c[f]) = {}
    BY DEF Laid
  <2> QED
    BY <1>15, <2>1, <2>2
<1>17. ASSUME NEW x \in Entries, x \notin Listing(d) PROVE Single(m, x)
  <2>1. x # n /\ x \notin Listing(c)
    BY <1>15, <1>17 DEF Listing
  <2>2. x # Spot(h, c[h], k - 1)
    BY <1>2, <2>1, Spots DEF q
  <2>3. x \in Nodes /\ Single(l, x)
    BY <2>1, NodeNames DEF Laid
  <2> QED
    BY <1>6, <2>1, <2>2, <2>3 DEF Single, before, q
<1>18. Laid(m, d)
  BY <1>5, <1>13, <1>14, <1>16, <1>17 DEF Laid
<1> QED
  BY <1>18 DEF m, d, r, q, before

(* What follows a node tells the node.                                      *)
LEMMA PrevSpot ==
  ASSUME NEW l, NEW c, Laid(l, c), NEW h \in Heads, NEW i \in 0..Len(c[h])
  PROVE  l.prev[IF i = Len(c[h]) THEN h ELSE c[h][i + 1]] = Spot(h, c[h], i)
<1>1. /\ Spot(h, c[h], i) \in Nodes
      /\ l.next[Spot(h, c[h], i)] = IF i = Len(c[h]) THEN h ELSE c[h][i + 1]
  BY Spots
<1>2. Rings(l)
  BY DEF Laid
<1> QED
  BY <1>1, <1>2 DEF Rings

(* A list that is laid out, as a sequence of different entries.             *)
LEMMA ListLength ==
  ASSUME NEW l, NEW c, Laid(l, c), NEW h \in Heads
  PROVE  /\ c[h] \in Seq(Fits(h)) /\ Len(c[h]) \in Nat /\ IsInjective(c[h])
         /\ Chain(l, h) = c[h]
         /\ DOMAIN c[h] = 1..Len(c[h])
         /\ \A n : n \in Range(c[h]) <=> \E i \in 1..Len(c[h]) : n = c[h][i]
<1>1. c[h] \in Seq(Fits(h)) /\ IsInjective(c[h]) /\ Chain(l, h) = c[h]
  BY ChainIs DEF Laid, List
<1> QED
  BY <1>1, SequenceShape

(* list_empty is true of the empty sequence.                                *)
LEMMA EmptyList ==
  ASSUME NEW l, NEW c, Laid(l, c), NEW h \in Heads
  PROVE  /\ list_empty(l, h) <=> Len(c[h]) = 0
         /\ Len(c[h]) = 0 <=> Range(c[h]) = {}
         /\ Len(c[h]) # 0 => l.next[h] = c[h][1] /\ 1 \in 1..Len(c[h])
<1>1. /\ Len(c[h]) \in Nat
      /\ \A n : n \in Range(c[h]) <=> \E i \in 1..Len(c[h]) : n = c[h][i]
  <2>1. c[h] \in Seq(Fits(h))
    BY ListLength
  <2> QED
    BY <2>1, SequenceShape
<1>2. 0 \in 0..Len(c[h])
  BY <1>1
<1>3. l.next[h] = IF 0 = Len(c[h]) THEN h ELSE c[h][1]
  BY <1>2, Spots DEF Spot
<1>4. CASE Len(c[h]) = 0
  BY <1>1, <1>3, <1>4 DEF list_empty
<1>5. CASE Len(c[h]) # 0
  <2>1. 1 \in 1..Len(c[h])
    BY <1>1, <1>5
  <2>2. c[h][1] \in Range(c[h]) /\ c[h][1] \in Fits(h)
    BY <1>1, <2>1, ListLength, SequenceShape
  <2>3. c[h][1] # h
    BY <2>2, WhatFits, NodeNames
  <2> QED
    BY <1>3, <1>5, <2>1, <2>2, <2>3 DEF list_empty
<1> QED
  BY <1>4, <1>5

(* Entries for the ends of a list and for the place before one of its nodes. *)
LEMMA AddLaid ==
  ASSUME NEW l, NEW c, Laid(l, c), NEW h \in Heads, NEW n \in Fits(h), n \notin Listing(c)
  PROVE  /\ Laid(list_add(l, n, h), [c EXCEPT ![h] = Put(c[h], 1, n)])
         /\ Laid(list_add_tail(l, n, h), [c EXCEPT ![h] = Put(c[h], Len(c[h]) + 1, n)])
         /\ \A k \in 1..Len(c[h]) :
              Laid(ListInsert(l, n, l.prev[c[h][k]], c[h][k]), [c EXCEPT ![h] = Put(c[h], k, n)])
         /\ \A pos \in {h} \cup Range(c[h]) :
              \E k \in 1..Len(c[h]) + 1 :
                Laid(list_add(l, n, l.prev[pos]), [c EXCEPT ![h] = Put(c[h], k, n)])
<1> DEFINE len == Len(c[h])
<1>1. len \in Nat /\ \A x : x \in Range(c[h]) <=> \E i \in 1..len : x = c[h][i]
  BY ListLength
<1> DEFINE Before(k) == Spot(h, c[h], k - 1)
           After(k) == IF k - 1 = len THEN h ELSE c[h][k - 1 + 1]
<1>2. ASSUME NEW k \in 1..len + 1
      PROVE  /\ Laid(ListInsert(l, n, Before(k), After(k)), [c EXCEPT ![h] = Put(c[h], k, n)])
             /\ l.next[Before(k)] = After(k) /\ l.prev[After(k)] = Before(k)
  <2>1. k - 1 \in 0..len
    BY <1>1
  <2>2. l.next[Before(k)] = After(k)
    BY <2>1, Spots
  <2>3. l.prev[After(k)] = Before(k)
    BY <2>1, PrevSpot
  <2>4. Laid(ListInsert(l, n, Before(k), l.next[Before(k)]), [c EXCEPT ![h] = Put(c[h], k, n)])
    BY InsertLaid
  <2> QED
    BY <2>2, <2>3, <2>4
<1>3. 1 \in 1..len + 1 /\ len + 1 \in 1..len + 1
  BY <1>1
<1>4. Before(1) = h
  BY DEF Spot
<1>5. After(len + 1) = h /\ \A k \in 1..len : After(k) = c[h][k] /\ k \in 1..len + 1
  BY <1>1
<1> HIDE DEF Before, After, len
<1>6. Laid(list_add(l, n, h), [c EXCEPT ![h] = Put(c[h], 1, n)])
  BY <1>2, <1>3, <1>4 DEF list_add
<1>7. Laid(list_add_tail(l, n, h), [c EXCEPT ![h] = Put(c[h], len + 1, n)])
  BY <1>2, <1>3, <1>5 DEF list_add_tail
<1>8. ASSUME NEW k \in 1..len
      PROVE  Laid(ListInsert(l, n, l.prev[c[h][k]], c[h][k]), [c EXCEPT ![h] = Put(c[h], k, n)])
  BY <1>2, <1>5
<1>9. ASSUME NEW pos \in {h} \cup Range(c[h])
      PROVE  \E k \in 1..len + 1 :
               Laid(list_add(l, n, l.prev[pos]), [c EXCEPT ![h] = Put(c[h], k, n)])
  <2>1. PICK k \in 1..len + 1 : After(k) = pos
    BY <1>1, <1>3, <1>5
  <2> QED
    BY <1>2, <2>1 DEF list_add
<1> QED
  BY <1>6, <1>7, <1>8, <1>9 DEF len

(* INIT_LIST_HEAD of a node that is alone changes nothing.                  *)
LEMMA InitLaid ==
  ASSUME NEW l, NEW c, Laid(l, c), NEW n \in Nodes, Single(l, n)
  PROVE  Laid(INIT_LIST_HEAD(l, n), c)
<1> DEFINE m == INIT_LIST_HEAD(l, n)
<1>1. Rings(l)
  BY DEF Laid
<1>2. l.next[n] = n /\ l.prev[n] = n
  BY <1>1 DEF Rings, Single
<1>3. m.next = l.next /\ m.prev = l.prev
  BY <1>1, <1>2 DEF INIT_LIST_HEAD, Rings
<1> HIDE DEF m
<1>4. /\ Rings(m)
      /\ \A h, q : List(l, h, q) => List(m, h, q)
      /\ \A x : Single(l, x) => Single(m, x)
  BY <1>1, <1>3 DEF Rings, List, Ring, Single
<1>5. Laid(m, c)
  BY <1>4 DEF Laid
<1> QED
  BY <1>5 DEF m

-----------------------------------------------------------------------------
(* The PCBs of a list.                                                      *)

Containers(q) == [i \in DOMAIN q |-> q[i][2]]

(* P is the set of the fields called t of the structures in S.              *)
Fields(P, t, S) == P = {t} \X S

(* The structures behind the entries of a list, in the same order.          *)
LEMMA ContainersLists ==
  ASSUME NEW t, NEW S, NEW P, Fields(P, t, S), NEW q \in Seq(P)
  PROVE  /\ Containers(q) \in Seq(S) /\ Len(Containers(q)) = Len(q)
         /\ \A i \in 1..Len(q) : Containers(q)[i] = q[i][2] /\ q[i] = <<t, q[i][2]>>
         /\ \A x \in S : x \in Range(Containers(q)) <=> <<t, x>> \in Range(q)
         /\ IsInjective(q) => IsInjective(Containers(q))
<1> DEFINE n == Len(q)
           r == Containers(q)
<1>1. n \in Nat /\ DOMAIN q = 1..n /\ q \in [1..n -> P]
      /\ Range(q) = {q[i] : i \in 1..n}
      /\ (IsInjective(q) <=> \A i, j \in 1..n : q[i] = q[j] => i = j)
  BY SequenceShape
<1>2. r = [i \in 1..n |-> q[i][2]]
  BY <1>1 DEF Containers
<1> HIDE DEF n, r
<1>3. \A i \in 1..n : q[i] \in P
  BY <1>1
<1>0. \A x \in P : x = <<t, x[2]>> /\ x[2] \in S
  BY DEF Fields
<1>4. \A i \in 1..n : r[i] = q[i][2] /\ q[i] = <<t, q[i][2]>> /\ q[i][2] \in S
  BY <1>0, <1>2, <1>3
<1>5. r \in [1..n -> S]
  BY <1>2, <1>4
<1>6. r \in Seq(S) /\ Len(r) = n /\ Range(r) = {r[i] : i \in 1..n}
      /\ (IsInjective(r) <=> \A i, j \in 1..n : r[i] = r[j] => i = j)
  BY <1>1, <1>5, SequenceShape
<1>7. ASSUME NEW x \in S PROVE x \in Range(r) <=> <<t, x>> \in Range(q)
  <2> DEFINE y == <<t, x>>
  <2>1. y[2] = x
    OBVIOUS
  <2>2. \A i \in 1..n : q[i] = y <=> r[i] = x
    BY <1>4, <2>1
  <2> HIDE DEF y
  <2>3. x \in Range(r) <=> y \in Range(q)
    BY <1>1, <1>6, <2>2
  <2> QED
    BY <2>3 DEF y
<1>8. ASSUME IsInjective(q) PROVE IsInjective(r)
  <2>1. ASSUME NEW i \in 1..n, NEW j \in 1..n, r[i] = r[j] PROVE i = j
    <3>1. q[i] = q[j]
      BY <1>4, <2>1
    <3> QED
      BY <1>1, <1>8, <3>1
  <2> QED
    BY <1>6, <2>1
<1> QED
  BY <1>4, <1>6, <1>7, <1>8 DEF n, r

(* Putting in and taking out is the same with entries and structures.       *)
LEMMA ContainersMoved ==
  ASSUME NEW t, NEW S, NEW P, Fields(P, t, S), NEW q \in Seq(P)
  PROVE  /\ \A k \in 1..Len(q) + 1, x \in S :
              Containers(Put(q, k, <<t, x>>)) = Put(Containers(q), k, x)
         /\ \A k \in 1..Len(q) : Containers(Dropped(q, k)) = Dropped(Containers(q), k)
<1> DEFINE n == Len(q)
           r == Containers(q)
<1>1. n \in Nat /\ r \in Seq(S) /\ Len(r) = n /\ \A i \in 1..n : r[i] = q[i][2]
  BY ContainersLists, SequenceShape
<1>2. ASSUME NEW k \in 1..n + 1, NEW x \in S
      PROVE  Containers(Put(q, k, <<t, x>>)) = Put(r, k, x)
  <2> DEFINE y == <<t, x>>
             u == Put(q, k, y)
             v == Put(r, k, x)
  <2>0. y \in P /\ y[2] = x
    BY DEF Fields
  <2> HIDE DEF y
  <2>1. u \in Seq(P) /\ Len(u) = n + 1
    BY <2>0, PutLists
  <2>2. /\ Containers(u) \in Seq(S) /\ Len(Containers(u)) = n + 1
        /\ \A i \in 1..n + 1 : Containers(u)[i] = u[i][2]
    <3> HIDE DEF u, n
    <3> QED
      BY <2>1, ContainersLists
  <2>3. v \in Seq(S) /\ Len(v) = n + 1
    BY <1>1, PutLists
  <2>4. ASSUME NEW i \in 1..n + 1 PROVE u[i][2] = v[i]
    <3>1. /\ u[i] = IF i < k THEN q[i] ELSE IF i = k THEN y ELSE q[i - 1]
          /\ v[i] = IF i < k THEN r[i] ELSE IF i = k THEN x ELSE r[i - 1]
      BY <1>1 DEF Put
    <3>2. (i < k => i \in 1..n) /\ (~(i < k) /\ i # k => i - 1 \in 1..n)
      <4> HIDE DEF n
      <4> QED
        BY <1>1
    <3> QED
      BY <1>1, <2>0, <3>1, <3>2
  <2> HIDE DEF u, v
  <2>5. Containers(u) = v
    BY <2>2, <2>3, <2>4, SameElements
  <2> QED
    BY <2>5 DEF u, v, y
<1>3. ASSUME NEW k \in 1..n PROVE Containers(Dropped(q, k)) = Dropped(r, k)
  <2> DEFINE u == Dropped(q, k)
             v == Dropped(r, k)
  <2>1. u \in Seq(P) /\ Len(u) = n - 1
    BY TakenLists
  <2>2. /\ Containers(u) \in Seq(S) /\ Len(Containers(u)) = n - 1
        /\ \A i \in 1..n - 1 : Containers(u)[i] = u[i][2]
    <3> HIDE DEF u, n
    <3> QED
      BY <2>1, ContainersLists
  <2>3. v \in Seq(S) /\ Len(v) = n - 1
    BY <1>1, TakenLists
  <2>4. ASSUME NEW i \in 1..n - 1 PROVE u[i][2] = v[i]
    <3>1. /\ u[i] = IF i < k THEN q[i] ELSE q[i + 1]
          /\ v[i] = IF i < k THEN r[i] ELSE r[i + 1]
      BY <1>1 DEF Dropped
    <3>2. i \in 1..n /\ i + 1 \in 1..n
      <4> HIDE DEF n
      <4> QED
        BY <1>1
    <3> QED
      BY <1>1, <3>1, <3>2
  <2> HIDE DEF u, v
  <2> QED
    BY <2>2, <2>3, <2>4, SameElements DEF u, v
<1> QED
  BY <1>2, <1>3

(* insertProcQ finds the place InsertProcQ names.                           *)
LEMMA insertProcQLaid ==
  ASSUME NEW l, NEW c, Laid(l, c), NEW h \in Heads, Fields(Fits(h), "p_list", Pcbs),
         NEW p \in Pcbs, p_list(p) \notin Listing(c)
  PROVE  \E r : /\ Laid(insertProcQ(l, h, p), [c EXCEPT ![h] = r])
                /\ Range(r) = Range(c[h]) \cup {p_list(p)}
                /\ Containers(r) = InsertProcQ(Containers(c[h]), p, prio)
<1> DEFINE q == c[h]
           n == Len(q)
           a == p_list(p)
           Lower(i) == prio[p] > prio[q[i][2]]
           first == {x \in Nodes :
                       \E i \in DOMAIN q :
                         /\ q[i] = x /\ prio[p] > prio[x[2]]
                         /\ \A j \in 1..i - 1 : prio[p] <= prio[q[j][2]]}
           pos == CHOOSE x \in first : TRUE
<1>1. q \in Seq(Fits(h)) /\ IsInjective(q) /\ Chain(l, h) = q
  BY ListLength
<1>2. n \in Nat /\ DOMAIN q = 1..n /\ \A i \in 1..n : q[i] \in Fits(h)
  BY <1>1, SequenceShape
<1>3. insertProcQ(l, h, p) = IF first = {} THEN list_add_tail(l, a, h)
                             ELSE ListInsert(l, a, l.prev[pos], pos)
  BY <1>1 DEF insertProcQ
<1>4. /\ Containers(q) \in Seq(Pcbs) /\ Len(Containers(q)) = n
      /\ \A i \in 1..n : Containers(q)[i] = q[i][2]
  BY <1>1, ContainersLists
<1>5. \A i \in 1..n : prio[q[i][2]] \in Int /\ prio[p] \in Int /\ q[i] \in Nodes
  <2>1. \A i \in 1..n : q[i] \in Entries /\ q[i] \in {"p_list"} \X Pcbs
    BY <1>2, WhatFits DEF Fields
  <2> HIDE DEF q, n
  <2> QED
    BY <2>1, NodeNames, ListsAssumption
<1>6. a \in Fits(h) /\ a = <<"p_list", p>>
  BY DEF Fields, p_list
<1>7. ASSUME NEW k \in 1..n + 1, \A i \in 1..n : i < k => ~Lower(i), k \in 1..n => Lower(k),
             Laid(insertProcQ(l, h, p), [c EXCEPT ![h] = Put(q, k, a)])
      PROVE  \E r : /\ Laid(insertProcQ(l, h, p), [c EXCEPT ![h] = r])
                    /\ Range(r) = Range(q) \cup {a}
                    /\ Containers(r) = InsertProcQ(Containers(q), p, prio)
  <2>1. Range(Put(q, k, a)) = Range(q) \cup {a}
    <3>1. q \in Seq(Fits(h)) /\ a \in Fits(h) /\ k \in 1..Len(q) + 1
      BY <1>1, <1>6
    <3> HIDE DEF q, a, n
    <3> QED
      BY <3>1, PutLists
  <2>2. Containers(Put(q, k, a)) = Put(Containers(q), k, p)
    BY <1>1, <1>6, ContainersMoved
  <2>3. InsertProcQ(Containers(q), p, prio) = Put(Containers(q), k, p)
    <3> DEFINE s == Containers(q)
    <3>1. /\ s \in Seq(Pcbs) /\ k \in 1..Len(s) + 1
          /\ \A i \in 1..Len(s) : i < k => ~(prio[p] > prio[s[i]])
          /\ k \in 1..Len(s) => prio[p] > prio[s[k]]
      BY <1>4, <1>7
    <3> HIDE DEF s
    <3> QED
      BY <3>1, InsertProcQPut DEF s
  <2> QED
    BY <1>7, <2>1, <2>2, <2>3
<1> HIDE DEF first
<1>8. CASE first = {}
  <2>1. Laid(insertProcQ(l, h, p), [c EXCEPT ![h] = Put(q, n + 1, a)])
    <3>1. Laid(list_add_tail(l, a, h), [c EXCEPT ![h] = Put(q, n + 1, a)])
      BY <1>6, AddLaid
    <3> QED
      BY <1>3, <1>8, <3>1
  <2>2. \A i \in 1..n : ~Lower(i)
    <3> DEFINE T == {i \in 1..n : Lower(i)}
    <3>1. SUFFICES ASSUME T # {} PROVE FALSE
      OBVIOUS
    <3>2. PICK m \in T : \A y \in T : m <= y
      <4>1. T \subseteq Nat
        OBVIOUS
      <4> HIDE DEF T
      <4> QED
        BY <3>1, <4>1, FirstPosition
    <3>3. m \in 1..n /\ Lower(m)
      BY <3>2
    <3>4. ASSUME NEW j \in 1..m - 1 PROVE prio[p] <= prio[q[j][2]]
      <4>1. j \in 1..n /\ j \notin T
        <5> HIDE DEF T, n
        <5> QED
          BY <1>2, <3>2, <3>3
      <4> QED
        BY <1>5, <4>1
    <3>5. q[m] \in first
      BY <1>2, <1>5, <3>3, <3>4 DEF first
    <3> QED
      BY <1>8, <3>5
  <2>3. n + 1 \in 1..n + 1 /\ n + 1 \notin 1..n
    <3> HIDE DEF n
    <3> QED
      BY <1>2
  <2> HIDE DEF n, Lower
  <2> QED
    BY <1>7, <2>1, <2>2, <2>3 DEF q
<1>9. CASE first # {}
  <2>1. pos \in first
    BY <1>9
  <2>2. PICK k \in 1..n : /\ q[k] = pos /\ Lower(k)
                          /\ \A j \in 1..k - 1 : prio[p] <= prio[q[j][2]]
    <3> HIDE DEF pos
    <3> QED
      BY <1>2, <2>1 DEF first
  <2>3. \A i \in 1..n : i < k => ~Lower(i)
    <3>1. \A i \in 1..n : i < k => i \in 1..k - 1
      BY <1>2
    <3> QED
      BY <1>5, <2>2, <3>1
  <2>4. Laid(ListInsert(l, a, l.prev[q[k]], q[k]), [c EXCEPT ![h] = Put(q, k, a)])
    BY <1>6, AddLaid
  <2>5. k \in 1..n + 1
    <3> HIDE DEF n
    <3> QED
      BY <1>2
  <2>6. Laid(insertProcQ(l, h, p), [c EXCEPT ![h] = Put(q, k, a)])
    BY <1>3, <1>9, <2>2, <2>4
  <2> HIDE DEF n, Lower
  <2> QED
    BY <1>7, <2>2, <2>3, <2>5, <2>6 DEF q
<1> QED
  BY <1>8, <1>9

Without(q, p) == OutAllProcQ(q, {p})
LaidOut(l, c, h, p, r) ==
  /\ Laid(outProcQ(l, h, p), [c EXCEPT ![h] = r])
  /\ Range(r) = Range(c[h]) \ {p_list(p)}
  /\ Containers(r) = Without(Containers(c[h]), p)

(* outProcQ takes a PCB out of the queue it is in, and changes no other.    *)
LEMMA outProcQLaid ==
  ASSUME NEW l, NEW c, Laid(l, c), NEW h \in Heads, Fields(Fits(h), "p_list", Pcbs),
         NEW p \in Pcbs
  PROVE  \E r : LaidOut(l, c, h, p, r)
<1> USE DEF LaidOut
<1> DEFINE q == c[h]
           n == Len(q)
           s == Containers(q)
<1>1. q \in Seq(Fits(h)) /\ IsInjective(q) /\ Chain(l, h) = q
  BY ListLength
<1>2. /\ s \in Seq(Pcbs) /\ Len(s) = n /\ IsInjective(s)
      /\ \A i \in 1..n : s[i] = q[i][2]
      /\ p \in Range(s) <=> p_list(p) \in Range(q)
  BY <1>1, ContainersLists DEF p_list
<1>3. CASE p_list(p) \in Range(q)
  <2>1. PICK k \in 1..n : q[k] = p_list(p)
    BY <1>3, ListLength
  <2>2. Laid(outProcQ(l, h, p), [c EXCEPT ![h] = Dropped(q, k)])
    BY <1>1, <1>3, <2>1, DelLaid DEF outProcQ
  <2>3. Range(Dropped(q, k)) = Range(q) \ {p_list(p)}
    BY <1>1, <2>1, TakenLists
  <2>4. Containers(Dropped(q, k)) = Dropped(s, k)
    BY <1>1, ContainersMoved
  <2>5. s[k] = p
    BY <1>2, <2>1 DEF p_list
  <2>6. Without(s, p) = Dropped(s, k)
    <3> HIDE DEF s
    <3> QED
      BY <1>2, <2>5, OutTaken DEF Without
  <2> QED
    BY <2>2, <2>3, <2>4, <2>6
<1>4. CASE p_list(p) \notin Range(q)
  <2>1. outProcQ(l, h, p) = l
    BY <1>1, <1>4 DEF outProcQ
  <2>2. [c EXCEPT ![h] = q] = c
    BY DEF Laid
  <2>3. Without(s, p) = s
    <3> HIDE DEF s
    <3> QED
      BY <1>2, <1>4, OutNobody DEF Without
  <2> QED
    BY <1>4, <2>1, <2>2, <2>3
<1> QED
  BY <1>3, <1>4

(* list_del of the first of a list.                                         *)
LEMMA FirstOut ==
  ASSUME NEW l, NEW c, Laid(l, c), NEW h \in Heads, ~list_empty(l, h)
  PROVE  \E r : /\ Laid(list_del(l, l.next[h]), [c EXCEPT ![h] = r])
                /\ l.next[h] \in Range(c[h]) /\ l.next[h] \in Fits(h)
                /\ Range(r) = Range(c[h]) \ {l.next[h]}
                /\ \A t, S : Fields(Fits(h), t, S) =>
                     /\ Containers(c[h]) # <<>>
                     /\ Head(Containers(c[h])) = l.next[h][2]
                     /\ Tail(Containers(c[h])) = Containers(r)
<1> DEFINE q == c[h]
<1>1. q \in Seq(Fits(h)) /\ IsInjective(q) /\ Len(q) \in Nat
  BY ListLength
<1>2. Len(q) # 0 /\ l.next[h] = q[1] /\ 1 \in 1..Len(q)
  BY EmptyList
<1>3. Laid(list_del(l, q[1]), [c EXCEPT ![h] = Dropped(q, 1)])
  BY <1>2, DelLaid
<1>4. Range(Dropped(q, 1)) = Range(q) \ {q[1]}
  BY <1>1, <1>2, TakenLists
<1>5. q[1] \in Range(q) /\ q[1] \in Fits(h)
  BY <1>1, <1>2, SequenceShape
<1>6. ASSUME NEW t, NEW S, Fields(Fits(h), t, S)
      PROVE  /\ Containers(q) # <<>> /\ Head(Containers(q)) = q[1][2]
             /\ Tail(Containers(q)) = Containers(Dropped(q, 1))
  <2> DEFINE s == Containers(q)
  <2>1. s \in Seq(S) /\ Len(s) = Len(q) /\ s[1] = q[1][2]
    BY <1>1, <1>2, <1>6, ContainersLists
  <2>2. Containers(Dropped(q, 1)) = Dropped(s, 1)
    BY <1>1, <1>2, <1>6, ContainersMoved
  <2> HIDE DEF s
  <2>3. s # <<>>
    BY <1>2, <2>1, EmptyLists
  <2>4. Tail(s) = Dropped(s, 1) /\ Head(s) = s[1]
    BY <2>1, <2>3, TailTaken
  <2> QED
    BY <2>1, <2>2, <2>3, <2>4 DEF s
<1> HIDE DEF q
<1> QED
  BY <1>2, <1>3, <1>4, <1>5, <1>6 DEF q

-----------------------------------------------------------------------------
(* The nodes of l make up the lists v: a sequence of structures for every   *)
(* list head.                                                               *)

View(c) == [h \in Heads |-> Containers(c[h])]
Holds(l, v) == \E c : Laid(l, c) /\ v = View(c)
InNoList(v, t, x) == \A h \in Heads : Field(h) = t => x \notin Range(v[h])

(* What the sequence of structures of a head has from that of entries.      *)
LEMMA ViewOf ==
  ASSUME NEW l, NEW c, Laid(l, c), NEW h \in Heads
  PROVE  /\ Fields(Fits(h), Field(h), Members(h)) /\ c[h] \in Seq(Fits(h))
         /\ View(c)[h] = Containers(c[h]) /\ View(c)[h] \in Seq(Members(h))
         /\ Len(View(c)[h]) = Len(c[h]) /\ IsInjective(View(c)[h])
         /\ \A x \in Members(h) : x \in Range(View(c)[h]) <=> <<Field(h), x>> \in Range(c[h])
<1>1. Fields(Fits(h), Field(h), Members(h))
  BY DEF Fields, Fits
<1>2. c[h] \in Seq(Fits(h)) /\ IsInjective(c[h])
  BY ListLength
<1>3. View(c)[h] = Containers(c[h])
  BY DEF View
<1> QED
  BY <1>1, <1>2, <1>3, ContainersLists

(* When one list changes, its sequence of structures changes.               *)
LEMMA ViewChanged ==
  ASSUME NEW l, NEW c, Laid(l, c), NEW h \in Heads, NEW m, NEW r, Laid(m, [c EXCEPT ![h] = r])
  PROVE  Holds(m, [View(c) EXCEPT ![h] = Containers(r)])
<1> DEFINE d == [c EXCEPT ![h] = r]
<1>1. DOMAIN c = Heads
  BY DEF Laid
<1>2. View(d) = [View(c) EXCEPT ![h] = Containers(r)]
  BY <1>1 DEF View
<1> HIDE DEF d
<1> QED
  BY <1>2 DEF Holds, d

(* The sequences are those the loops find, of different structures each, and *)
(* no structure is in two lists by the same field.                          *)
LEMMA HoldsShape ==
  ASSUME NEW l, NEW v, Holds(l, v)
  PROVE  /\ Rings(l) /\ v = [h \in Heads |-> Containers(Chain(l, h))]
         /\ \A h \in Heads :
              /\ v[h] \in Seq(Members(h)) /\ IsInjective(v[h])
              /\ \A x \in Members(h) :
                   <<Field(h), x>> \in Range(Chain(l, h)) <=> x \in Range(v[h])
         /\ \A h, g \in Heads :
              h # g /\ Field(h) = Field(g) => Range(v[h]) \cap Range(v[g]) = {}
<1>1. PICK c : Laid(l, c) /\ v = View(c)
  BY DEF Holds
<1>2. Rings(l)
  BY <1>1 DEF Laid
<1>3. \A h \in Heads : Chain(l, h) = c[h]
  BY <1>1, ListLength
<1>4. v = [h \in Heads |-> Containers(Chain(l, h))]
  BY <1>1, <1>3 DEF View
<1>5. \A h \in Heads :
        /\ v[h] \in Seq(Members(h)) /\ IsInjective(v[h])
        /\ \A x \in Members(h) :
             <<Field(h), x>> \in Range(Chain(l, h)) <=> x \in Range(v[h])
  BY <1>1, <1>3, ViewOf
<1>6. ASSUME NEW h \in Heads, NEW g \in Heads, h # g, Field(h) = Field(g),
             NEW x, x \in Range(v[h]), x \in Range(v[g])
      PROVE  FALSE
  <2>1. x \in Members(h) /\ x \in Members(g)
    BY <1>5, <1>6, SequenceShape DEF Members
  <2>2. <<Field(h), x>> \in Range(c[h]) /\ <<Field(h), x>> \in Range(c[g])
    BY <1>1, <1>6, <2>1, ViewOf
  <2> QED
    BY <1>1, <1>6, <2>2 DEF Laid
<1> QED
  BY <1>2, <1>4, <1>5, <1>6

(* Being in no list by a field is not being listed with that field.         *)
LEMMA NotListed ==
  ASSUME NEW l, NEW c, Laid(l, c), NEW t, NEW S, NEW x \in S,
         \A h \in Heads : Field(h) = t => Members(h) = S
  PROVE  InNoList(View(c), t, x) <=> <<t, x>> \notin Listing(c)
<1>1. ASSUME NEW h \in Heads, <<t, x>> \in Range(c[h]) PROVE Field(h) = t
  <2>1. <<t, x>> \in Fits(h)
    BY <1>1, ListLength, SequenceShape
  <2> QED
    BY <2>1 DEF Fits
<1>2. ASSUME NEW h \in Heads, Field(h) = t
      PROVE  x \in Range(View(c)[h]) <=> <<t, x>> \in Range(c[h])
  BY <1>2, ViewOf
<1> QED
  BY <1>1, <1>2 DEF InNoList, Listing

(* list_empty tells whether the sequence is empty.                          *)
LEMMA HeadEmpty ==
  ASSUME NEW l, NEW v, Holds(l, v), NEW h \in Heads
  PROVE  list_empty(l, h) <=> v[h] = <<>>
<1>1. PICK c : Laid(l, c) /\ v = View(c)
  BY DEF Holds
<1>2. list_empty(l, h) <=> Len(c[h]) = 0
  BY <1>1, EmptyList
<1>3. v[h] \in Seq(Members(h)) /\ Len(v[h]) = Len(c[h])
  BY <1>1, ViewOf
<1> QED
  BY <1>2, <1>3, EmptySeq

(* list_del of the first entry, as removeProcQ and removeChild do it.       *)
LEMMA HeadLeaves ==
  ASSUME NEW l, NEW v, Holds(l, v), NEW h \in Heads, ~list_empty(l, h)
  PROVE  /\ v[h] # <<>> /\ l.next[h] = <<Field(h), Head(v[h])>>
         /\ Head(v[h]) \in Range(v[h]) /\ Head(v[h]) \in Members(h)
         /\ Holds(list_del(l, l.next[h]), [v EXCEPT ![h] = Tail(v[h])])
<1>1. PICK c : Laid(l, c) /\ v = View(c)
  BY DEF Holds
<1>2. PICK r : /\ Laid(list_del(l, l.next[h]), [c EXCEPT ![h] = r])
               /\ l.next[h] \in Fits(h)
               /\ \A t, S : Fields(Fits(h), t, S) =>
                     /\ Containers(c[h]) # <<>>
                     /\ Head(Containers(c[h])) = l.next[h][2]
                     /\ Tail(Containers(c[h])) = Containers(r)
  BY <1>1, FirstOut
<1>3. Fields(Fits(h), Field(h), Members(h)) /\ v[h] = Containers(c[h])
      /\ v[h] \in Seq(Members(h))
  BY <1>1, ViewOf
<1>4. /\ v[h] # <<>> /\ Head(v[h]) = l.next[h][2] /\ Tail(v[h]) = Containers(r)
  BY <1>2, <1>3
<1>5. l.next[h] = <<Field(h), Head(v[h])>>
  BY <1>2, <1>4 DEF Fits
<1>6. Holds(list_del(l, l.next[h]), [v EXCEPT ![h] = Tail(v[h])])
  BY <1>1, <1>2, <1>4, ViewChanged
<1>7. Head(v[h]) \in Range(v[h]) /\ Head(v[h]) \in Members(h)
  BY <1>3, <1>4, TailLists
<1> QED
  BY <1>4, <1>5, <1>6, <1>7

(* list_del of an entry takes its structure out of the sequence.            *)
LEMMA MemberLeaves ==
  ASSUME NEW l, NEW v, Holds(l, v), NEW h \in Heads, NEW x \in Range(v[h])
  PROVE  Holds(list_del(l, <<Field(h), x>>), [v EXCEPT ![h] = Without(v[h], x)])
<1>1. PICK c : Laid(l, c) /\ v = View(c)
  BY DEF Holds
<1>2. Fields(Fits(h), Field(h), Members(h)) /\ c[h] \in Seq(Fits(h))
      /\ v[h] = Containers(c[h]) /\ v[h] \in Seq(Members(h)) /\ IsInjective(v[h])
      /\ Len(v[h]) = Len(c[h])
  BY <1>1, ViewOf
<1>3. PICK k \in 1..Len(c[h]) : v[h][k] = x
  BY <1>2, SequenceShape
<1>4. c[h][k] = <<Field(h), x>>
  BY <1>2, <1>3, ContainersLists
<1>5. Laid(list_del(l, <<Field(h), x>>), [c EXCEPT ![h] = Dropped(c[h], k)])
  BY <1>1, <1>4, DelLaid
<1>6. Containers(Dropped(c[h], k)) = Dropped(v[h], k)
  BY <1>2, ContainersMoved
<1>7. Without(v[h], x) = Dropped(v[h], k)
  BY <1>2, <1>3, OutTaken DEF Without
<1> QED
  BY <1>1, <1>5, <1>6, <1>7, ViewChanged

(* list_add in front, list_add_tail at the end, and list_add in the middle. *)
LEMMA MemberJoins ==
  ASSUME NEW l, NEW v, Holds(l, v), NEW h \in Heads, NEW x \in Members(h),
         InNoList(v, Field(h), x)
  PROVE  /\ Holds(list_add(l, <<Field(h), x>>, h), [v EXCEPT ![h] = <<x>> \o v[h]])
         /\ Holds(list_add_tail(l, <<Field(h), x>>, h), [v EXCEPT ![h] = Append(v[h], x)])
         /\ \A pos \in {h} \cup Range(Chain(l, h)) :
              \E r : /\ r \in Seq(Members(h)) /\ Range(r) = Range(v[h]) \cup {x}
                     /\ Holds(list_add(l, <<Field(h), x>>, l.prev[pos]), [v EXCEPT ![h] = r])
<1> DEFINE a == <<Field(h), x>>
<1>1. PICK c : Laid(l, c) /\ v = View(c)
  BY DEF Holds
<1>2. Fields(Fits(h), Field(h), Members(h)) /\ c[h] \in Seq(Fits(h))
      /\ v[h] = Containers(c[h]) /\ v[h] \in Seq(Members(h)) /\ Len(v[h]) = Len(c[h])
      /\ Chain(l, h) = c[h] /\ Len(c[h]) \in Nat
  BY <1>1, ViewOf, ListLength
<1>3. a \in Fits(h)
  BY DEF Fits
<1>4. a \notin Listing(c)
  <2>1. \A g \in Heads : Field(g) = Field(h) => Members(g) = Members(h)
    BY DEF Members
  <2> QED
    BY <1>1, <2>1, NotListed
<1>5. \A k \in 1..Len(c[h]) + 1 : Containers(Put(c[h], k, a)) = Put(v[h], k, x)
  BY <1>2, ContainersMoved
<1>6. /\ 1 \in 1..Len(c[h]) + 1 /\ Len(c[h]) + 1 \in 1..Len(c[h]) + 1
  BY <1>2
<1> HIDE DEF a
<1>7. Holds(list_add(l, a, h), [v EXCEPT ![h] = <<x>> \o v[h]])
  <2>1. Laid(list_add(l, a, h), [c EXCEPT ![h] = Put(c[h], 1, a)])
    BY <1>1, <1>3, <1>4, AddLaid
  <2>2. <<x>> \o v[h] = Containers(Put(c[h], 1, a))
    BY <1>2, <1>5, <1>6, AppendPut
  <2> QED
    BY <1>1, <2>1, <2>2, ViewChanged
<1>8. Holds(list_add_tail(l, a, h), [v EXCEPT ![h] = Append(v[h], x)])
  <2>1. Laid(list_add_tail(l, a, h), [c EXCEPT ![h] = Put(c[h], Len(c[h]) + 1, a)])
    BY <1>1, <1>3, <1>4, AddLaid
  <2>2. Append(v[h], x) = Containers(Put(c[h], Len(c[h]) + 1, a))
    BY <1>2, <1>5, <1>6, AppendPut
  <2> QED
    BY <1>1, <2>1, <2>2, ViewChanged
<1>9. ASSUME NEW pos \in {h} \cup Range(Chain(l, h))
      PROVE  \E r : /\ r \in Seq(Members(h)) /\ Range(r) = Range(v[h]) \cup {x}
                    /\ Holds(list_add(l, a, l.prev[pos]), [v EXCEPT ![h] = r])
  <2>1. PICK k \in 1..Len(c[h]) + 1 :
          Laid(list_add(l, a, l.prev[pos]), [c EXCEPT ![h] = Put(c[h], k, a)])
    BY <1>1, <1>2, <1>3, <1>4, AddLaid
  <2>2. Holds(list_add(l, a, l.prev[pos]), [v EXCEPT ![h] = Put(v[h], k, x)])
    BY <1>1, <1>5, <2>1, ViewChanged
  <2>3. Put(v[h], k, x) \in Seq(Members(h)) /\ Range(Put(v[h], k, x)) = Range(v[h]) \cup {x}
    BY <1>2, PutLists
  <2> QED
    BY <2>2, <2>3
<1> QED
  BY <1>7, <1>8, <1>9 DEF a

(* insertProcQ and outProcQ are those of ProcessQueues.                     *)
LEMMA PcbQueued ==
  ASSUME NEW l, NEW v, Holds(l, v), NEW h \in Heads, Field(h) = "p_list", NEW p \in Pcbs
  PROVE  /\ InNoList(v, "p_list", p)
              => Holds(insertProcQ(l, h, p), [v EXCEPT ![h] = InsertProcQ(v[h], p, prio)])
         /\ Holds(outProcQ(l, h, p), [v EXCEPT ![h] = Without(v[h], p)])
<1>1. PICK c : Laid(l, c) /\ v = View(c)
  BY DEF Holds
<1>2. Members(h) = Pcbs
  BY DEF Members
<1>3. Fields(Fits(h), "p_list", Pcbs) /\ v[h] = Containers(c[h])
  BY <1>1, <1>2, ViewOf
<1>4. ASSUME InNoList(v, "p_list", p)
      PROVE  Holds(insertProcQ(l, h, p), [v EXCEPT ![h] = InsertProcQ(v[h], p, prio)])
  <2>1. p_list(p) \notin Listing(c)
    <3>1. \A g \in Heads : Field(g) = "p_list" => Members(g) = Pcbs
      BY DEF Members
    <3> QED
      BY <1>1, <1>4, <3>1, NotListed DEF p_list
  <2>2. PICK r : /\ Laid(insertProcQ(l, h, p), [c EXCEPT ![h] = r])
                 /\ Containers(r) = InsertProcQ(Containers(c[h]), p, prio)
    BY <1>1, <1>3, <2>1, insertProcQLaid
  <2> QED
    BY <1>1, <1>3, <2>2, ViewChanged
<1>5. Holds(outProcQ(l, h, p), [v EXCEPT ![h] = Without(v[h], p)])
  <2>1. PICK r : LaidOut(l, c, h, p, r)
    BY <1>1, <1>3, outProcQLaid, Zenon
  <2> QED
    BY <1>1, <1>3, <2>1, ViewChanged DEF LaidOut
<1> QED
  BY <1>4, <1>5

(* A node that is alone: an empty list, or an entry that is in none.        *)
LEMMA Initialised ==
  ASSUME NEW l, NEW v, Holds(l, v)
  PROVE  /\ \A h \in Heads : v[h] = <<>> => Holds(INIT_LIST_HEAD(l, h), v)
         /\ \A p \in Pcbs : InNoList(v, "p_sib", p) => Holds(INIT_LIST_HEAD(l, p_sib(p)), v)
         /\ \A p \in Pcbs : InNoList(v, "p_list", p) <=> Single(l, p_list(p))
<1>1. PICK c : Laid(l, c) /\ v = View(c)
  BY DEF Holds
<1>2. ASSUME NEW n \in Nodes, Single(l, n) PROVE Holds(INIT_LIST_HEAD(l, n), v)
  BY <1>1, <1>2, InitLaid DEF Holds
<1>3. ASSUME NEW h \in Heads, v[h] = <<>> PROVE Holds(INIT_LIST_HEAD(l, h), v)
  BY <1>2, <1>3, HeadEmpty, NodeNames DEF list_empty, Single
<1>4. ASSUME NEW p \in Pcbs, InNoList(v, "p_sib", p)
      PROVE  Holds(INIT_LIST_HEAD(l, p_sib(p)), v)
  <2>1. \A g \in Heads : Field(g) = "p_sib" => Members(g) = Pcbs
    BY DEF Members
  <2>2. p_sib(p) \notin Listing(c)
    BY <1>1, <1>4, <2>1, NotListed DEF p_sib
  <2>3. p_sib(p) \in Entries /\ p_sib(p) \in Nodes
    BY NodeNames
  <2> QED
    BY <1>1, <1>2, <2>2, <2>3 DEF Laid
<1>5. ASSUME NEW p \in Pcbs PROVE InNoList(v, "p_list", p) <=> Single(l, p_list(p))
  <2>1. \A g \in Heads : Field(g) = "p_list" => Members(g) = Pcbs
    BY DEF Members
  <2>2. InNoList(v, "p_list", p) <=> p_list(p) \notin Listing(c)
    BY <1>1, <2>1, NotListed DEF p_list
  <2>3. p_list(p) \in Entries /\ p_list(p) \in Nodes
    BY NodeNames
  <2>4. ASSUME NEW h \in Heads, p_list(p) \in Range(c[h]) PROVE ~Single(l, p_list(p))
    <3>1. PICK k \in 1..Len(c[h]) : p_list(p) = c[h][k]
      BY <1>1, <2>4, ListLength
    <3>2. k \in 0..Len(c[h]) /\ k - 1 \in 0..Len(c[h]) /\ k # 0 /\ k - 1 # k
          /\ k - 1 # Len(c[h]) /\ k - 1 + 1 = k
      BY <1>1, ListLength
    <3>3. l.next[Spot(h, c[h], k - 1)] = p_list(p)
      BY <1>1, <3>1, <3>2, Spots
    <3>4. Spot(h, c[h], k) = p_list(p)
      BY <3>1, <3>2 DEF Spot
    <3>5. Spot(h, c[h], k - 1) # Spot(h, c[h], k) /\ Spot(h, c[h], k - 1) \in Nodes
      BY <1>1, <3>2, Spots
    <3>6. Rings(l)
      BY <1>1 DEF Laid
    <3> QED
      BY <2>3, <3>3, <3>4, <3>5, <3>6 DEF Rings, Single
  <2> QED
    BY <1>1, <2>2, <2>3, <2>4 DEF Laid, Listing
<1> QED
  BY <1>3, <1>4, <1>5

-----------------------------------------------------------------------------
(* The structures and the fields of them that matter.                       *)

(* No two heads are the same node.                                          *)
LEMMA HeadsApart ==
  /\ pcbFree_h # semdFree_h /\ pcbFree_h # semd_h /\ pcbFree_h # readyQueue
  /\ semdFree_h # semd_h /\ semdFree_h # readyQueue /\ semd_h # readyQueue
  /\ \A d \in Semds : s_procq(d) \notin {pcbFree_h, semdFree_h, semd_h, readyQueue}
  /\ \A p \in Pcbs : p_child(p) \notin {pcbFree_h, semdFree_h, semd_h, readyQueue}
  /\ \A d \in Semds, p \in Pcbs : s_procq(d) # p_child(p)
  /\ \A d, e \in Semds : s_procq(d) = s_procq(e) => d = e
  /\ \A p, q \in Pcbs : p_child(p) = p_child(q) => p = q
<1> USE DEF pcbFree_h, semdFree_h, semd_h, readyQueue, p_child, s_procq
<1>1. /\ pcbFree_h # semdFree_h /\ pcbFree_h # semd_h /\ pcbFree_h # readyQueue
      /\ semdFree_h # semd_h /\ semdFree_h # readyQueue /\ semd_h # readyQueue
  OBVIOUS
<1>2. /\ \A d \in Semds : s_procq(d) \notin {pcbFree_h, semdFree_h, semd_h, readyQueue}
      /\ \A p \in Pcbs : p_child(p) \notin {pcbFree_h, semdFree_h, semd_h, readyQueue}
      /\ \A d \in Semds, p \in Pcbs : s_procq(d) # p_child(p)
  OBVIOUS
<1>3. /\ \A d, e \in Semds : s_procq(d) = s_procq(e) => d = e
      /\ \A p, q \in Pcbs : p_child(p) = p_child(q) => p = q
  OBVIOUS
<1> QED
  BY <1>1, <1>2, <1>3

(* What each list is of.                                                    *)
LEMMA WhatLists ==
  /\ pcbFree_h \in Heads /\ semdFree_h \in Heads /\ semd_h \in Heads /\ readyQueue \in Heads
  /\ Field(pcbFree_h) = "p_list" /\ Members(pcbFree_h) = Pcbs
  /\ Field(readyQueue) = "p_list" /\ Members(readyQueue) = Pcbs
  /\ Field(semd_h) = "s_link" /\ Members(semd_h) = Semds
  /\ Field(semdFree_h) = "s_link" /\ Members(semdFree_h) = Semds
  /\ \A d \in Semds : /\ s_procq(d) \in Heads /\ Field(s_procq(d)) = "p_list"
                      /\ Members(s_procq(d)) = Pcbs
  /\ \A p \in Pcbs : /\ p_child(p) \in Heads /\ Field(p_child(p)) = "p_sib"
                     /\ Members(p_child(p)) = Pcbs
  /\ \A h \in Heads :
       \/ h \in {pcbFree_h, semdFree_h, semd_h, readyQueue}
       \/ \E d \in Semds : h = s_procq(d)
       \/ \E p \in Pcbs : h = p_child(p)
<1> USE DEF Heads, Field, Members, pcbFree_h, semdFree_h, semd_h, readyQueue, p_child, s_procq
<1>1. /\ Field(pcbFree_h) = "p_list" /\ Members(pcbFree_h) = Pcbs
      /\ Field(readyQueue) = "p_list" /\ Members(readyQueue) = Pcbs
      /\ Field(semd_h) = "s_link" /\ Members(semd_h) = Semds
      /\ Field(semdFree_h) = "s_link" /\ Members(semdFree_h) = Semds
  OBVIOUS
<1>2. /\ \A d \in Semds : Field(s_procq(d)) = "p_list" /\ Members(s_procq(d)) = Pcbs
      /\ \A p \in Pcbs : Field(p_child(p)) = "p_sib" /\ Members(p_child(p)) = Pcbs
  OBVIOUS
<1>3. \A h \in Heads :
       \/ h \in {pcbFree_h, semdFree_h, semd_h, readyQueue}
       \/ \E d \in Semds : h = s_procq(d)
       \/ \E p \in Pcbs : h = p_child(p)
  OBVIOUS
<1> HIDE DEF Heads, Field, Members, pcbFree_h, semdFree_h, semd_h, readyQueue, p_child, s_procq
<1> QED
  BY <1>1, <1>2, <1>3, NodeNames

(* A structure in no list of a field: what that says head by head.          *)
LEMMA NoListOf ==
  ASSUME NEW v, NEW x
  PROVE  /\ InNoList(v, "p_list", x) <=>
              /\ x \notin Range(v[pcbFree_h]) /\ x \notin Range(v[readyQueue])
              /\ \A d \in Semds : x \notin Range(v[s_procq(d)])
         /\ InNoList(v, "p_sib", x) <=> \A q \in Pcbs : x \notin Range(v[p_child(q)])
         /\ InNoList(v, "s_link", x) <=>
              x \notin Range(v[semd_h]) /\ x \notin Range(v[semdFree_h])
<1>1. InNoList(v, "p_list", x) <=>
         /\ x \notin Range(v[pcbFree_h]) /\ x \notin Range(v[readyQueue])
         /\ \A d \in Semds : x \notin Range(v[s_procq(d)])
  BY WhatLists DEF InNoList
<1>2. InNoList(v, "p_sib", x) <=> \A q \in Pcbs : x \notin Range(v[p_child(q)])
  BY WhatLists DEF InNoList
<1>3. InNoList(v, "s_link", x) <=>
        x \notin Range(v[semd_h]) /\ x \notin Range(v[semdFree_h])
  BY WhatLists DEF InNoList
<1> QED
  BY <1>1, <1>2, <1>3

(* Lists of one field have no structure in common.                          *)
LEMMA ListsApart ==
  ASSUME NEW l, NEW v, Holds(l, v)
  PROVE  /\ Range(v[pcbFree_h]) \cap Range(v[readyQueue]) = {}
         /\ \A d \in Semds : /\ Range(v[s_procq(d)]) \cap Range(v[pcbFree_h]) = {}
                             /\ Range(v[s_procq(d)]) \cap Range(v[readyQueue]) = {}
         /\ \A d, e \in Semds : d # e => Range(v[s_procq(d)]) \cap Range(v[s_procq(e)]) = {}
         /\ Range(v[semd_h]) \cap Range(v[semdFree_h]) = {}
         /\ \A p, q \in Pcbs : p # q => Range(v[p_child(p)]) \cap Range(v[p_child(q)]) = {}
         /\ /\ v[pcbFree_h] \in Seq(Pcbs) /\ IsInjective(v[pcbFree_h])
            /\ v[readyQueue] \in Seq(Pcbs) /\ IsInjective(v[readyQueue])
            /\ v[semd_h] \in Seq(Semds) /\ IsInjective(v[semd_h])
            /\ v[semdFree_h] \in Seq(Semds) /\ IsInjective(v[semdFree_h])
         /\ \A d \in Semds : v[s_procq(d)] \in Seq(Pcbs) /\ IsInjective(v[s_procq(d)])
         /\ \A p \in Pcbs : v[p_child(p)] \in Seq(Pcbs) /\ IsInjective(v[p_child(p)])
         /\ DOMAIN v = Heads
<1>1. /\ \A h, g \in Heads :
           h # g /\ Field(h) = Field(g) => Range(v[h]) \cap Range(v[g]) = {}
      /\ \A h \in Heads : v[h] \in Seq(Members(h)) /\ IsInjective(v[h])
      /\ DOMAIN v = Heads
  <2>1. v = [h \in Heads |-> Containers(Chain(l, h))]
    BY HoldsShape
  <2>2. DOMAIN v = Heads
    BY <2>1
  <2>3. \A h, g \in Heads :
           h # g /\ Field(h) = Field(g) => Range(v[h]) \cap Range(v[g]) = {}
    BY HoldsShape
  <2>4. \A h \in Heads : v[h] \in Seq(Members(h)) /\ IsInjective(v[h])
    BY HoldsShape
  <2> QED
    BY <2>2, <2>3, <2>4
<1>2. /\ Range(v[pcbFree_h]) \cap Range(v[readyQueue]) = {}
      /\ Range(v[semd_h]) \cap Range(v[semdFree_h]) = {}
  BY <1>1, HeadsApart, WhatLists
<1>3. \A d \in Semds : /\ Range(v[s_procq(d)]) \cap Range(v[pcbFree_h]) = {}
                       /\ Range(v[s_procq(d)]) \cap Range(v[readyQueue]) = {}
  BY <1>1, HeadsApart, WhatLists
<1>4. \A d, e \in Semds : d # e => Range(v[s_procq(d)]) \cap Range(v[s_procq(e)]) = {}
  BY <1>1, HeadsApart, WhatLists
<1>5. \A p, q \in Pcbs : p # q => Range(v[p_child(p)]) \cap Range(v[p_child(q)]) = {}
  BY <1>1, HeadsApart, WhatLists
<1>6. /\ v[pcbFree_h] \in Seq(Pcbs) /\ IsInjective(v[pcbFree_h])
      /\ v[readyQueue] \in Seq(Pcbs) /\ IsInjective(v[readyQueue])
      /\ v[semd_h] \in Seq(Semds) /\ IsInjective(v[semd_h])
      /\ v[semdFree_h] \in Seq(Semds) /\ IsInjective(v[semdFree_h])
      /\ \A d \in Semds : v[s_procq(d)] \in Seq(Pcbs) /\ IsInjective(v[s_procq(d)])
      /\ \A p \in Pcbs : v[p_child(p)] \in Seq(Pcbs) /\ IsInjective(v[p_child(p)])
  BY <1>1, WhatLists
<1> QED
  BY <1>1, <1>2, <1>3, <1>4, <1>5, <1>6

(* The descriptors of v: which semaphore each is for, and who waits there.  *)
SemdInv(v, key, add) ==
  /\ key \in [Semds -> Sems \cup {NULL}] /\ add \in [Pcbs -> Sems \cup {NULL}]
  /\ \A d \in Semds : d \in Range(v[semd_h]) \/ d \in Range(v[semdFree_h])
  /\ \A d \in Semds : d \in Range(v[semd_h]) => key[d] \in Sems
  /\ \A d, e \in Semds :
       d \in Range(v[semd_h]) /\ e \in Range(v[semd_h]) /\ key[d] = key[e] => d = e
  /\ \A d \in Semds, p \in Pcbs :
       p \in Range(v[s_procq(d)]) => d \in Range(v[semd_h]) /\ add[p] = key[d]

(* The tree: a PCB is in the list of the children of its parent only.       *)
TreeInv(v, par) ==
  /\ par \in [Pcbs -> Pcbs \cup {NULL}]
  /\ \A p, q \in Pcbs : p \in Range(v[p_child(q)]) <=> par[p] = q
  /\ \A p \in Pcbs : p \in Range(v[pcbFree_h]) => par[p] = NULL /\ v[p_child(p)] = <<>>

Now == [h \in Heads |-> Containers(Chain(links, h))]

ListsInv == Holds(links, Now) /\ SemdInv(Now, s_key, p_semAdd) /\ TreeInv(Now, p_parent)

(* There is one sequence for each head that the nodes hold.                 *)
LEMMA NowIs ==
  ASSUME NEW v, Holds(links, v) PROVE v = Now
BY HoldsShape DEF Now

(* The same after the step.                                                 *)
LEMMA NextIs ==
  ASSUME NEW v, Holds(links', v) PROVE v = Now'
BY HoldsShape DEF Now

(* The queue of a head is its sequence.                                     *)
LEMMA QueueIs ==
  ASSUME NEW h \in Heads PROVE Queue(h) = Now[h]
BY DEF Queue, Now, Containers

-----------------------------------------------------------------------------
(* What the handlers do to the lists.                                       *)

(* What leaves the one list it is in by a field is in none.                 *)
LEMMA LeavesAll ==
  ASSUME NEW l, NEW v, Holds(l, v), NEW h \in Heads, NEW x \in Range(v[h]),
         NEW r, x \notin Range(r)
  PROVE  InNoList([v EXCEPT ![h] = r], Field(h), x)
<1>1. \A g \in Heads : h # g /\ Field(h) = Field(g) => Range(v[h]) \cap Range(v[g]) = {}
  BY HoldsShape
<1>2. DOMAIN v = Heads
  BY ListsApart
<1> QED
  BY <1>1, <1>2 DEF InNoList

(* Leaving takes one away; who is not there need not leave.                 *)
LEMMA WithoutLists ==
  ASSUME NEW P, NEW q \in Seq(P), NEW x
  PROVE  /\ Without(q, x) \in Seq(P) /\ Range(Without(q, x)) = Range(q) \ {x}
         /\ x \notin Range(q) => Without(q, x) = q
BY OutAllProcQLists, OutNobody DEF Without

(* Joining at the end adds one.                                             *)
LEMMA AppendLists ==
  \A P : \A q \in Seq(P), x \in P : Range(Append(q, x)) = Range(q) \cup {x}
<1> TAKE P
<1> TAKE q \in Seq(P), x \in P
<1>1. Len(q) + 1 \in 1..Len(q) + 1
  BY SequenceShape
<1> DEFINE a == Append(q, x)
<1>2. a = Put(q, Len(q) + 1, x)
  BY AppendPut
<1> HIDE DEF a
<1>3. Range(a) = Range(q) \cup {x}
  BY <1>1, <1>2, PutLists
<1> QED
  BY <1>3 DEF a

(* Joining in front adds one.                                               *)
LEMMA FrontLists ==
  ASSUME NEW P, NEW q \in Seq(P), NEW x \in P, NEW one, one = <<x>>
  PROVE  Range(one \o q) = Range(q) \cup {x}
<1>1. 1 \in 1..Len(q) + 1
  BY SequenceShape
<1>2. one \o q = Put(q, 1, x)
  BY AppendPut
<1>3. Range(Put(q, 1, x)) = Range(q) \cup {x}
  BY <1>1, PutLists
<1> QED
  BY <1>2, <1>3

(* The first free PCB becomes a child of q and joins the ready queue.       *)
LEMMA CreateEffect ==
  ASSUME NEW l, NEW v, Holds(l, v), NEW par, TreeInv(v, par), ~list_empty(l, pcbFree_h),
         NEW q \in Pcbs \cup {NULL}, NEW p, p = l.next[pcbFree_h][2]
  PROVE  /\ p \in Pcbs /\ p = Head(v[pcbFree_h]) /\ v[pcbFree_h] # <<>>
         /\ p \in Range(v[pcbFree_h]) /\ p \notin Range(Tail(v[pcbFree_h]))
         /\ \E w : /\ Holds(insertProcQ(InsertChild(AllocPcb(l, p), q, p), readyQueue, p), w)
                   /\ w[pcbFree_h] = Tail(v[pcbFree_h])
                   /\ w[readyQueue] = InsertProcQ(v[readyQueue], p, prio)
                   /\ w[semd_h] = v[semd_h] /\ w[semdFree_h] = v[semdFree_h]
                   /\ \A d \in Semds : w[s_procq(d)] = v[s_procq(d)]
                   /\ \A x \in Pcbs : w[p_child(x)] = IF x = q THEN Append(v[p_child(x)], p)
                                                      ELSE v[p_child(x)]
<1> DEFINE l1 == list_del(l, p_list(p))
           v1 == [v EXCEPT ![pcbFree_h] = Tail(v[pcbFree_h])]
           l2 == INIT_LIST_HEAD(l1, p_child(p))
           l3 == INIT_LIST_HEAD(l2, p_sib(p))
           l4 == InsertChild(l3, q, p)
           v4 == IF q = NULL THEN v1
                 ELSE [v1 EXCEPT ![p_child(q)] = Append(v1[p_child(q)], p)]
           v5 == [v4 EXCEPT ![readyQueue] = InsertProcQ(v4[readyQueue], p, prio)]
<1>1. /\ v[pcbFree_h] # <<>> /\ l.next[pcbFree_h] = <<"p_list", Head(v[pcbFree_h])>>
      /\ Head(v[pcbFree_h]) \in Range(v[pcbFree_h]) /\ Head(v[pcbFree_h]) \in Pcbs
      /\ Holds(list_del(l, l.next[pcbFree_h]), v1)
  BY HeadLeaves, WhatLists
<1>2. p = Head(v[pcbFree_h]) /\ p \in Pcbs /\ p \in Range(v[pcbFree_h])
      /\ l.next[pcbFree_h] = p_list(p)
  BY <1>1 DEF p_list
<1>3. Holds(l1, v1)
  BY <1>1, <1>2
<1>4. p \notin Range(Tail(v[pcbFree_h]))
  BY <1>1, <1>2, ListsApart, TailLists
<1>5. DOMAIN v = Heads
  BY ListsApart
<1>6. /\ v1[pcbFree_h] = Tail(v[pcbFree_h])
      /\ \A h \in Heads : h # pcbFree_h => v1[h] = v[h]
      /\ DOMAIN v1 = Heads
  BY <1>5, WhatLists
<1>7. par[p] = NULL /\ v[p_child(p)] = <<>>
  BY <1>2 DEF TreeInv
<1>8. Holds(l2, v1)
  BY <1>2, <1>3, <1>6, <1>7, Initialised, HeadsApart, WhatLists
<1>9. InNoList(v1, "p_sib", p)
  <2>1. \A x \in Pcbs : v1[p_child(x)] = v[p_child(x)]
    BY <1>6, HeadsApart, WhatLists
  <2>2. \A x \in Pcbs : p \notin Range(v[p_child(x)])
    BY <1>2, <1>7, ListsAssumption DEF TreeInv
  <2> QED
    BY <2>1, <2>2, NoListOf
<1>10. Holds(l3, v1)
  BY <1>2, <1>8, <1>9, Initialised
<1>11. InNoList(v1, "p_list", p)
  <2>1. InNoList(v1, Field(pcbFree_h), p)
    BY <1>2, <1>4, LeavesAll, WhatLists
  <2> HIDE DEF v1
  <2> QED
    BY <2>1, WhatLists
<1>12. /\ Holds(l4, v4) /\ DOMAIN v4 = Heads
       /\ \A h \in Heads : (\A x \in Pcbs : h # p_child(x)) => v4[h] = v1[h]
       /\ \A x \in Pcbs : v4[p_child(x)] = IF x = q THEN Append(v1[p_child(x)], p)
                                           ELSE v1[p_child(x)]
  <2> HIDE DEF v1, l3
  <2>1. CASE q = NULL
    BY <1>6, <1>10, <2>1, ListsAssumption DEF InsertChild
  <2>2. CASE q # NULL
    <3>1. Holds(list_add_tail(l3, <<"p_sib", p>>, p_child(q)),
                [v1 EXCEPT ![p_child(q)] = Append(v1[p_child(q)], p)])
      BY <1>2, <1>9, <1>10, <2>2, MemberJoins, WhatLists, ZenonT(30)
    <3>2. Holds(l4, v4)
      BY <2>2, <3>1 DEF InsertChild, p_sib
    <3> QED
      BY <1>6, <2>2, <3>2, HeadsApart, WhatLists
  <2> QED
    BY <2>1, <2>2
<1>13. InNoList(v4, "p_list", p)
  <2> HIDE DEF v1, v4
  <2>1. /\ v4[pcbFree_h] = v1[pcbFree_h] /\ v4[readyQueue] = v1[readyQueue]
        /\ \A d \in Semds : v4[s_procq(d)] = v1[s_procq(d)]
    BY <1>12, HeadsApart, WhatLists
  <2> QED
    BY <1>11, <2>1, NoListOf
<1>14. Holds(insertProcQ(l4, readyQueue, p), v5)
  BY <1>2, <1>12, <1>13, PcbQueued, WhatLists, ZenonT(30)
<1>15. /\ v5[readyQueue] = InsertProcQ(v4[readyQueue], p, prio)
       /\ \A h \in Heads : h # readyQueue => v5[h] = v4[h]
  <2> HIDE DEF v4
  <2> QED
    BY <1>12, WhatLists
<1> HIDE DEF v1, v4, v5
<1>16. /\ v5[pcbFree_h] = Tail(v[pcbFree_h])
       /\ v5[readyQueue] = InsertProcQ(v[readyQueue], p, prio)
       /\ v5[semd_h] = v[semd_h] /\ v5[semdFree_h] = v[semdFree_h]
       /\ \A d \in Semds : v5[s_procq(d)] = v[s_procq(d)]
  BY <1>6, <1>12, <1>15, HeadsApart, WhatLists
<1>17. \A x \in Pcbs : v5[p_child(x)] = IF x = q THEN Append(v[p_child(x)], p)
                                        ELSE v[p_child(x)]
  BY <1>6, <1>12, <1>15, HeadsApart, WhatLists
<1>18. l4 = InsertChild(AllocPcb(l, p), q, p)
  BY DEF AllocPcb
<1> QED
  BY <1>1, <1>2, <1>4, <1>14, <1>16, <1>17, <1>18

(* One list is given another contents.                                      *)
LEMMA OneChanged ==
  ASSUME NEW l, NEW v, Holds(l, v), NEW h \in Heads, NEW r
  PROVE  /\ [v EXCEPT ![h] = r][h] = r
         /\ \A g \in Heads : g # h => [v EXCEPT ![h] = r][g] = v[g]
BY ListsApart

(* A descriptor is taken into the ASL, for s.                               *)
LEMMA AllocEffect ==
  ASSUME NEW l, NEW v, NEW s, NEW d, Holds(l, v), SemdInv(v, s_key, p_semAdd),
         ~list_empty(l, semdFree_h), d = l.next[semdFree_h][2]
  PROVE  /\ d \in Semds /\ d = Head(v[semdFree_h]) /\ v[semdFree_h] # <<>>
         /\ d \in Range(v[semdFree_h]) /\ v[s_procq(d)] = <<>>
         /\ \E r : /\ Holds(AllocSemd(l, d, s),
                            [v EXCEPT ![semdFree_h] = Tail(v[semdFree_h]), ![semd_h] = r])
                   /\ Range(r) = Range(v[semd_h]) \cup {d}
<1> DEFINE l1 == list_del(l, s_link(d))
           v1 == [v EXCEPT ![semdFree_h] = Tail(v[semdFree_h])]
           l2 == INIT_LIST_HEAD(l1, s_procq(d))
<1>1. /\ v[semdFree_h] # <<>> /\ l.next[semdFree_h] = <<"s_link", Head(v[semdFree_h])>>
      /\ Head(v[semdFree_h]) \in Range(v[semdFree_h]) /\ Head(v[semdFree_h]) \in Semds
      /\ Holds(list_del(l, l.next[semdFree_h]), v1)
  BY HeadLeaves, WhatLists
<1>2. d = Head(v[semdFree_h]) /\ d \in Semds /\ d \in Range(v[semdFree_h])
      /\ l.next[semdFree_h] = s_link(d)
  BY <1>1 DEF s_link
<1>3. Holds(l1, v1)
  BY <1>1, <1>2
<1>4. d \notin Range(Tail(v[semdFree_h])) /\ d \notin Range(v[semd_h])
  <2>1. v[semdFree_h] \in Seq(Semds) /\ IsInjective(v[semdFree_h])
        /\ Range(v[semd_h]) \cap Range(v[semdFree_h]) = {}
    BY ListsApart
  <2>2. d \notin Range(Tail(v[semdFree_h]))
    BY <1>1, <1>2, <2>1, TailLists
  <2> QED
    BY <1>2, <2>1, <2>2
<1>5. v[s_procq(d)] = <<>>
  <2>1. v[s_procq(d)] \in Seq(Pcbs)
    BY <1>2, ListsApart
  <2>2. \A x \in Pcbs : x \notin Range(v[s_procq(d)])
    BY <1>2, <1>4 DEF SemdInv
  <2>3. Range(v[s_procq(d)]) \subseteq Pcbs
    BY <2>1, SequenceShape
  <2> QED
    BY <2>1, <2>2, <2>3, EmptyLists
<1>6. v1[semd_h] = v[semd_h] /\ v1[s_procq(d)] = v[s_procq(d)]
  BY <1>2, ListsApart, HeadsApart, WhatLists
<1>7. Holds(l2, v1)
  BY <1>2, <1>3, <1>5, <1>6, Initialised, WhatLists
<1>8. InNoList(v1, "s_link", d)
  <2>1. InNoList(v1, Field(semdFree_h), d)
    BY <1>2, <1>4, LeavesAll, WhatLists
  <2> HIDE DEF v1
  <2> QED
    BY <2>1, WhatLists
<1>9. InsertPos(l2, s) \in {semd_h} \cup Range(Chain(l2, semd_h))
  <2> DEFINE c == Chain(l2, semd_h)
             last == {n \in Nodes :
                 \E i \in DOMAIN c :
                   /\ c[i] = n
                   /\ \A j \in 1..i : s_key[c[j][2]] <= s
                   /\ i = Len(c) \/ s_key[c[i + 1][2]] > s}
  <2>1. InsertPos(l2, s) = IF last = {} THEN semd_h ELSE CHOOSE n \in last : TRUE
    BY DEF InsertPos
  <2>2. \A n \in last : n \in Range(c)
    <3> HIDE DEF c
    <3> QED
      BY DEF Range
  <2> HIDE DEF last, c
  <2>3. InsertPos(l2, s) = semd_h \/ InsertPos(l2, s) \in Range(c)
    BY <2>1, <2>2
  <2> QED
    BY <2>3 DEF c
<1> DEFINE pos == InsertPos(l2, s)
<1> HIDE DEF l1, l2, pos, v1
<1>10. PICK r : /\ Range(r) = Range(v1[semd_h]) \cup {d}
                /\ Holds(list_add(l2, <<"s_link", d>>, l2.prev[pos]), [v1 EXCEPT ![semd_h] = r])
  <2>1. pos \in {semd_h} \cup Range(Chain(l2, semd_h))
    BY <1>9 DEF pos
  <2> QED
    <3>1. /\ semd_h \in Heads /\ Field(semd_h) = "s_link" /\ Members(semd_h) = Semds
      BY WhatLists
    <3>2. InNoList(v1, Field(semd_h), d) /\ d \in Members(semd_h)
      BY <1>2, <1>8, <3>1
    <3>3. \E r : /\ r \in Seq(Members(semd_h)) /\ Range(r) = Range(v1[semd_h]) \cup {d}
                /\ Holds(list_add(l2, <<Field(semd_h), d>>, l2.prev[pos]), [v1 EXCEPT ![semd_h] = r])
      BY <1>7, <2>1, <3>1, <3>2, MemberJoins, Zenon
    <3> QED
      BY <3>1, <3>3
<1>11. AllocSemd(l, d, s) = list_add(l2, <<"s_link", d>>, l2.prev[pos])
  BY DEF AllocSemd, l1, l2, pos, s_link
<1>12. [v1 EXCEPT ![semd_h] = r] = [v EXCEPT ![semdFree_h] = Tail(v[semdFree_h]), ![semd_h] = r]
  BY DEF v1
<1> QED
  BY <1>1, <1>2, <1>5, <1>6, <1>10, <1>11, <1>12
-----------------------------------------------------------------------------
(* The sequences the refinement maps to, by the lists.                      *)

Mapping ==
  /\ \A h \in Heads : Queue(h) = Now[h]
  /\ \A p \in Pcbs : p \in Held <=> InNoList(Now, "p_list", p)
  /\ \A s, d : d \in Found(s) <=> d \in Semds /\ s_key[d] = s /\ d \in Range(Now[semd_h])
  /\ \A d \in Semds : d \in Range(Now[semd_h]) =>
       /\ s_key[d] \in Sems /\ Found(s_key[d]) = {d}
       /\ Blocked[s_key[d]] = Now[s_procq(d)]
  /\ \A s \in Sems : Found(s) = {} => Blocked[s] = <<>>
  /\ Blocked = [s \in Sems |-> Blocked[s]]
  /\ \A s : s \in Active <=> s \in Sems /\ Found(s) # {}
  /\ Children = [p \in Pcbs |-> Now[p_child(p)]]

(* While the invariant holds, the sequences are those of the heads.         *)
LEMMA Mapped == ListsInv => Mapping
<1> SUFFICES ASSUME ListsInv PROVE Mapping
  OBVIOUS
<1> USE DEF ListsInv
<1>1. \A h \in Heads : Queue(h) = Now[h]
  BY QueueIs
<1>2. \A p \in Pcbs : p \in Held <=> InNoList(Now, "p_list", p)
  <2>1. TAKE p \in Pcbs
  <2>2. InNoList(Now, "p_list", p) <=> links.next[p_list(p)] = p_list(p)
    BY Initialised DEF Single
  <2>3. InNoList(Now, "p_list", p) => p \notin Range(Now[pcbFree_h])
    BY NoListOf
  <2> QED
    BY <1>1, <2>2, <2>3, WhatLists DEF Held, Used
<1>3. \A s, d : d \in Found(s) <=> d \in Semds /\ s_key[d] = s /\ d \in Range(Now[semd_h])
  <2>1. \A d \in Semds : s_link(d) \in Range(Chain(links, semd_h)) <=> d \in Range(Now[semd_h])
    BY HoldsShape, WhatLists DEF s_link
  <2> QED
    BY <2>1 DEF Found
<1>4. Blocked = [s \in Sems |-> Blocked[s]]
  BY DEF Blocked
<1>5. ASSUME NEW d \in Semds, d \in Range(Now[semd_h])
      PROVE  /\ s_key[d] \in Sems /\ Found(s_key[d]) = {d}
             /\ Blocked[s_key[d]] = Now[s_procq(d)]
  <2>1. s_key[d] \in Sems
    BY <1>5 DEF SemdInv
  <2>2. \A e : e \in Found(s_key[d]) <=> e = d
    BY <1>3, <1>5 DEF SemdInv
  <2>3. Found(s_key[d]) = {d}
    BY <2>2
  <2>4. Blocked[s_key[d]] = Queue(s_procq(CHOOSE e \in Found(s_key[d]) : TRUE))
    BY <2>1, <2>3 DEF Blocked
  <2>5. (CHOOSE e \in Found(s_key[d]) : TRUE) = d
    BY <2>2
  <2> QED
    BY <1>1, <2>1, <2>3, <2>4, <2>5, WhatLists
<1>6. \A s \in Sems : Found(s) = {} => Blocked[s] = <<>>
  BY DEF Blocked
<1>7. \A s : s \in Active <=> s \in Sems /\ Found(s) # {}
  BY DEF Active
<1>8. Children = [p \in Pcbs |-> Now[p_child(p)]]
  BY <1>1, WhatLists DEF Children
<1> QED
  BY <1>1, <1>2, <1>3, <1>4, <1>5, <1>6, <1>7, <1>8 DEF Mapping

(* The same after the step.                                                 *)
LEMMA MappedNext == ListsInv' => Mapping'
BY Mapped, PTL

(* Each semaphore with a descriptor has one of its own.                     *)
LEMMA FewActive ==
  ASSUME ListsInv, Mapping, NEW d \in Semds, d \notin Range(Now[semd_h])
  PROVE  Cardinality(Active) < Cardinality(Semds)
<1> DEFINE S == {e \in Semds : e \in Range(Now[semd_h])}
           f == [e \in S |-> s_key[e]]
<1>1. S \subseteq Semds /\ S # Semds
  OBVIOUS
<1>2. IsFiniteSet(Semds)
  BY ListsAssumption
<1>3. IsFiniteSet(S) /\ Cardinality(S) < Cardinality(Semds)
      /\ Cardinality(S) \in Nat /\ Cardinality(Semds) \in Nat
  <2> HIDE DEF S
  <2> QED
    BY <1>1, <1>2, ProperSubset
<1>4. f \in Surjection(S, Active)
  <2>1. \A e \in S : f[e] \in Active
    BY DEF Mapping
  <2>2. \A s \in Active : \E e \in S : f[e] = s
    BY DEF Mapping
  <2>3. DOMAIN f = S /\ f = [e \in S |-> f[e]]
    OBVIOUS
  <2> HIDE DEF f, S
  <2> QED
    BY <2>1, <2>2, <2>3 DEF Surjection
<1>5. IsFiniteSet(Active) /\ Cardinality(Active) <= Cardinality(S)
  <2> HIDE DEF f, S
  <2> QED
    BY <1>3, <1>4, FS_Surjection
<1>6. Cardinality(Active) \in Nat
  BY <1>5, FS_CardinalityType
<1> HIDE DEF S
<1> QED
  BY <1>3, <1>5, <1>6

(* The operators of ProcessLists are those of ProcessQueues.                *)
LEMMA SameOperators ==
  /\ \A q, p, pr : Lists!InsertProcQ(q, p, pr) = InsertProcQ(q, p, pr)
  /\ \A q, x : Lists!OutAllProcQ(q, {x}) = Without(q, x)
  /\ \A q : Lists!Range(q) = Range(q)
  /\ \A S : Lists!Cardinality(S) = Cardinality(S)
<1>1. \A q, p, pr : Lists!InsertProcQ(q, p, pr) = InsertProcQ(q, p, pr)
  BY DEF Lists!InsertProcQ, Lists!InsertAt, Lists!Min, InsertProcQ, InsertAt, Min
<1>2. \A q, D : Lists!OutAllProcQ(q, D) = OutAllProcQ(q, D)
  BY DEF Lists!OutAllProcQ, Lists!Listed, Lists!Arrange, Lists!Cardinality,
         OutAllProcQ, Listed, Arrange, Cardinality
<1>3. \A q : Lists!Range(q) = Range(q)
  BY DEF Lists!Range, Range
<1>4. \A S : Lists!Cardinality(S) = Cardinality(S)
  BY DEF Lists!Cardinality, Cardinality
<1>5. \A q, x : Lists!OutAllProcQ(q, {x}) = Without(q, x)
  BY <1>2 DEF Without
<1> QED
  BY <1>1, <1>3, <1>4, <1>5
-----------------------------------------------------------------------------
(* Every action keeps the invariant and does what ProcessLists says.        *)

(* The queues of the semaphores where the ASL stays as it is.               *)
LEMMA AslStays ==
  ASSUME Mapping, Mapping', s_key' = s_key, Now'[semd_h] = Now[semd_h]
  PROVE  /\ \A s : Found(s)' = Found(s)
         /\ Active' = Active
         /\ (\A d \in Semds : Now'[s_procq(d)] = Now[s_procq(d)]) => Blocked' = Blocked
<1> USE DEF Mapping
<1>1. ASSUME NEW s PROVE Found(s)' = Found(s)
  <2>1. \A d : d \in Found(s)' <=> d \in Found(s)
    OBVIOUS
  <2> QED
    BY <2>1
<1>2. Active' = Active
  <2>1. \A s : s \in Active' <=> s \in Active
    BY <1>1
  <2> QED
    BY <2>1
<1>3. ASSUME \A d \in Semds : Now'[s_procq(d)] = Now[s_procq(d)] PROVE Blocked' = Blocked
  <2>1. ASSUME NEW s \in Sems PROVE Blocked'[s] = Blocked[s]
    <3>1. CASE Found(s) = {}
      BY <1>1, <3>1
    <3>2. CASE Found(s) # {}
      <4>1. PICK d : d \in Found(s)
        BY <3>2
      <4>2. d \in Semds /\ s_key[d] = s /\ d \in Range(Now[semd_h])
        BY <4>1
      <4>3. Blocked[s] = Now[s_procq(d)] /\ Blocked'[s] = Now'[s_procq(d)]
        BY <4>2
      <4> QED
        BY <1>3, <4>2, <4>3
    <3> QED
      BY <3>1, <3>2
  <2> QED
    BY <2>1
<1> QED
  BY <1>1, <1>2, <1>3

(* The children stay while their lists do.                                  *)
LEMMA ChildrenStay ==
  ASSUME Mapping, Mapping', \A p \in Pcbs : Now'[p_child(p)] = Now[p_child(p)]
  PROVE  Children' = Children
BY DEF Mapping

(* createProcess is Create.                                                 *)
LEMMA CreateStep ==
  ASSUME ListsInv, NEW q, q = NULL \/ q \in Held, CreateProcess(q)
  PROVE  ListsInv' /\ Lists!Create(q)
<1> DEFINE p == links.next[pcbFree_h][2]
           v == Now
<1>0. Holds(links, v) /\ SemdInv(v, s_key, p_semAdd) /\ TreeInv(v, p_parent)
  BY DEF ListsInv
<1>1. /\ ~list_empty(links, pcbFree_h)
      /\ links' = insertProcQ(InsertChild(AllocPcb(links, p), q, p), readyQueue, p)
      /\ p_parent' = [p_parent EXCEPT ![p] = q]
      /\ p_semAdd' = [p_semAdd EXCEPT ![p] = NULL]
      /\ s_key' = s_key
  BY DEF CreateProcess
<1>2. q \in Pcbs \cup {NULL}
  BY DEF Held, Used
<1> HIDE DEF p, v
<1>3. /\ p \in Pcbs /\ p = Head(v[pcbFree_h]) /\ v[pcbFree_h] # <<>>
      /\ p \in Range(v[pcbFree_h]) /\ p \notin Range(Tail(v[pcbFree_h]))
      /\ \E w : /\ Holds(links', w)
                /\ w[pcbFree_h] = Tail(v[pcbFree_h])
                /\ w[readyQueue] = InsertProcQ(v[readyQueue], p, prio)
                /\ w[semd_h] = v[semd_h] /\ w[semdFree_h] = v[semdFree_h]
                /\ \A d \in Semds : w[s_procq(d)] = v[s_procq(d)]
                /\ \A x \in Pcbs : w[p_child(x)] = IF x = q THEN Append(v[p_child(x)], p)
                                                   ELSE v[p_child(x)]
  <2>1. p = links.next[pcbFree_h][2]
    BY DEF p
  <2> QED
    BY <1>0, <1>1, <1>2, <2>1, CreateEffect
<1>4. PICK w : /\ Holds(links', w)
               /\ w[pcbFree_h] = Tail(v[pcbFree_h])
               /\ w[readyQueue] = InsertProcQ(v[readyQueue], p, prio)
               /\ w[semd_h] = v[semd_h] /\ w[semdFree_h] = v[semdFree_h]
               /\ \A d \in Semds : w[s_procq(d)] = v[s_procq(d)]
               /\ \A x \in Pcbs : w[p_child(x)] = IF x = q THEN Append(v[p_child(x)], p)
                                                  ELSE v[p_child(x)]
  BY <1>3
<1>5. w = Now'
  BY <1>4, NextIs
<1>6. q # NULL => q \in Pcbs /\ q \notin Range(v[pcbFree_h])
  <2>1. Mapping
    BY Mapped
  <2> QED
    BY <2>1, NoListOf, ListsAssumption DEF Mapping, v, Held, Used
<1>7. SemdInv(w, s_key', p_semAdd')
  <2>1. \A d \in Semds : p \notin Range(v[s_procq(d)])
    BY <1>0, <1>3, ListsApart
  <2> QED
    BY <1>0, <1>1, <1>3, <1>4, <2>1 DEF SemdInv
<1>8. TreeInv(w, p_parent')
  <2>1. p_parent' \in [Pcbs -> Pcbs \cup {NULL}]
    BY <1>0, <1>1, <1>2 DEF TreeInv
  <2>2. \A x \in Pcbs : p_parent'[x] = IF x = p THEN q ELSE p_parent[x]
    BY <1>0, <1>1 DEF TreeInv
  <2>3. \A x, y \in Pcbs : x \in Range(v[p_child(y)]) <=> p_parent[x] = y
    BY <1>0 DEF TreeInv
  <2>4. p_parent[p] = NULL
    BY <1>0, <1>3 DEF TreeInv
  <2>5. ASSUME NEW x \in Pcbs, NEW y \in Pcbs
        PROVE  x \in Range(w[p_child(y)]) <=> p_parent'[x] = y
    <3>1. CASE y # q
      BY <1>4, <2>2, <2>3, <2>4, <3>1, ListsAssumption
    <3>2. CASE y = q
      <4>1. v[p_child(y)] \in Seq(Pcbs)
        BY <1>0, ListsApart
      <4>2. Range(Append(v[p_child(y)], p)) = Range(v[p_child(y)]) \cup {p}
        BY <1>3, <4>1, AppendLists
      <4> QED
        BY <1>4, <2>2, <2>3, <3>2, <4>2
    <3> QED
      BY <3>1, <3>2
  <2>6. Range(v[pcbFree_h]) = Range(w[pcbFree_h]) \cup {p} /\ p \notin Range(w[pcbFree_h])
    BY <1>0, <1>3, <1>4, ListsApart, TailLists
  <2>7. ASSUME NEW x \in Pcbs, x \in Range(w[pcbFree_h])
        PROVE  p_parent'[x] = NULL /\ w[p_child(x)] = <<>>
    <3>1. p_parent[x] = NULL /\ v[p_child(x)] = <<>> /\ x # p
      BY <1>0, <2>6, <2>7 DEF TreeInv
    <3>2. x # q
      BY <1>6, <2>6, <2>7, ListsAssumption
    <3> QED
      BY <1>4, <2>2, <3>1, <3>2
  <2> QED
    BY <2>1, <2>5, <2>7 DEF TreeInv
<1>9. ListsInv'
  BY <1>4, <1>5, <1>7, <1>8 DEF ListsInv
<1>10. Lists!Create(q)
  <2>1. Mapping /\ Mapping'
    BY <1>9, Mapped, MappedNext
  <2>2. /\ Queue(pcbFree_h) = v[pcbFree_h] /\ Queue(readyQueue) = v[readyQueue]
        /\ Queue(pcbFree_h)' = w[pcbFree_h] /\ Queue(readyQueue)' = w[readyQueue]
    BY <1>5, <2>1, WhatLists DEF Mapping, v
  <2>3. Active' = Active /\ Blocked' = Blocked
    BY <1>1, <1>4, <1>5, <2>1, AslStays DEF v
  <2>4. Children' = IF q = NULL THEN Children
                    ELSE [Children EXCEPT ![q] = Append(@, p)]
    <3>1. /\ Children = [x \in Pcbs |-> v[p_child(x)]]
          /\ Children' = [x \in Pcbs |-> w[p_child(x)]]
      BY <1>5, <2>1 DEF Mapping, v
    <3> QED
      BY <1>2, <1>4, <3>1, ListsAssumption
  <2> QED
    BY <1>1, <1>3, <1>4, <2>2, <2>3, <2>4, SameOperators DEF Lists!Create
<1> QED
  BY <1>9, <1>10

(* Only the ready queue changes.                                            *)
LEMMA ReadyStep ==
  ASSUME ListsInv, NEW r, Holds(links', [Now EXCEPT ![readyQueue] = r]),
         UNCHANGED <<s_key, p_semAdd, p_parent>>
  PROVE  /\ ListsInv' /\ Queue(readyQueue)' = r /\ Queue(readyQueue) = Now[readyQueue]
         /\ UNCHANGED <<Queue(pcbFree_h), Blocked, Active, p_semAdd, Children, p_parent>>
<1> DEFINE v == Now
           w == [v EXCEPT ![readyQueue] = r]
<1>0. Holds(links, v) /\ SemdInv(v, s_key, p_semAdd) /\ TreeInv(v, p_parent)
  BY DEF ListsInv
<1>1. w[readyQueue] = r /\ \A g \in Heads : g # readyQueue => w[g] = v[g]
  <2> HIDE DEF v
  <2> QED
    BY <1>0, OneChanged, WhatLists
<1>2. /\ w[pcbFree_h] = v[pcbFree_h] /\ w[semd_h] = v[semd_h] /\ w[semdFree_h] = v[semdFree_h]
      /\ \A d \in Semds : w[s_procq(d)] = v[s_procq(d)]
      /\ \A x \in Pcbs : w[p_child(x)] = v[p_child(x)]
  <2> HIDE DEF v, w
  <2> QED
    BY <1>1, HeadsApart, WhatLists
<1>3. Holds(links', w) /\ w = Now'
  BY NextIs
<1> HIDE DEF v, w
<1>4. SemdInv(w, s_key', p_semAdd') /\ TreeInv(w, p_parent')
  BY <1>0, <1>2 DEF SemdInv, TreeInv
<1>5. ListsInv'
  BY <1>3, <1>4 DEF ListsInv
<1>6. Mapping /\ Mapping'
  BY <1>5, Mapped, MappedNext
<1>7. Active' = Active /\ Blocked' = Blocked /\ Children' = Children
  BY <1>2, <1>3, <1>6, AslStays, ChildrenStay DEF v
<1>8. /\ Queue(readyQueue)' = w[readyQueue] /\ Queue(pcbFree_h)' = w[pcbFree_h]
      /\ Queue(readyQueue) = Now[readyQueue] /\ Queue(pcbFree_h) = v[pcbFree_h]
  BY <1>3, <1>6, WhatLists DEF Mapping, v
<1> QED
  BY <1>1, <1>2, <1>5, <1>7, <1>8

(* Who is held by its links is held by the sequences.                       *)
LEMMA HeldMaps ==
  ASSUME Mapping, SemdInv(Now, s_key, p_semAdd), NEW p \in Pcbs
  PROVE  /\ p \in Lists!Used <=> p \in Used
         /\ p \in Held => p \in Lists!Held
<1>1. Lists!Used = Used
  BY SameOperators DEF Lists!Used, Used
<1>2. ASSUME p \in Held PROVE p \in Lists!Held
  <2>1. InNoList(Now, "p_list", p)
    BY <1>2 DEF Mapping
  <2>2. p \notin Range(Now[readyQueue]) /\ \A d \in Semds : p \notin Range(Now[s_procq(d)])
    BY <2>1, NoListOf
  <2>3. p \notin Range(Queue(readyQueue))
    BY <2>2, WhatLists DEF Mapping
  <2>4. ASSUME NEW s \in Sems PROVE p \notin Range(Blocked[s])
    <3>1. CASE Found(s) = {}
      <4>1. Blocked[s] = <<>> /\ <<>> \in Seq(Pcbs)
        BY <3>1, EmptySeq DEF Mapping
      <4>2. Range(Blocked[s]) = {}
        BY <4>1, EmptyLists
      <4> QED
        BY <4>2
    <3>2. CASE Found(s) # {}
      BY <2>2, <3>2 DEF Mapping
    <3> QED
      BY <3>1, <3>2
  <2>5. p \in Used
    BY <1>2 DEF Held
  <2> QED
    BY <1>1, <2>3, <2>4, <2>5, SameOperators DEF Lists!Held
<1> QED
  BY <1>1, <1>2

(* yield is Enqueue.                                                        *)
LEMMA EnqueueStep ==
  ASSUME ListsInv, NEW p \in Pcbs, Enqueue(p)
  PROVE  ListsInv' /\ Lists!Enqueue(p)
<1> DEFINE r == InsertProcQ(Now[readyQueue], p, prio)
<1>1. Mapping /\ p \in Held /\ InNoList(Now, "p_list", p) /\ Holds(links, Now)
      /\ SemdInv(Now, s_key, p_semAdd)
  BY Mapped DEF Enqueue, Mapping, ListsInv
<1>2. Holds(links', [Now EXCEPT ![readyQueue] = r])
  BY <1>1, PcbQueued, WhatLists DEF Enqueue
<1> HIDE DEF r
<1>3. UNCHANGED <<s_key, p_semAdd, p_parent>>
  BY DEF Enqueue
<1>4. /\ ListsInv' /\ Queue(readyQueue)' = r /\ Queue(readyQueue) = Now[readyQueue]
      /\ UNCHANGED <<Queue(pcbFree_h), Blocked, Active, p_semAdd, Children, p_parent>>
  BY <1>2, <1>3, ReadyStep
<1>5. p \in Lists!Held
  BY <1>1, HeldMaps
<1> QED
  BY <1>4, <1>5, SameOperators DEF Lists!Enqueue, r

(* removeProcQ is Dequeue.                                                  *)
LEMMA DequeueStep ==
  ASSUME ListsInv, Dequeue
  PROVE  ListsInv' /\ Lists!Dequeue
<1> DEFINE r == Tail(Now[readyQueue])
<1>1. Holds(links, Now)
  BY DEF ListsInv
<1>2. Holds(links', [Now EXCEPT ![readyQueue] = r]) /\ Now[readyQueue] # <<>>
  <2>1. ~list_empty(links, readyQueue) /\ links' = list_del(links, links.next[readyQueue])
    BY DEF Dequeue
  <2>2. /\ Now[readyQueue] # <<>>
        /\ Holds(list_del(links, links.next[readyQueue]), [Now EXCEPT ![readyQueue] = r])
    BY <1>1, <2>1, HeadLeaves, WhatLists
  <2> QED
    BY <2>1, <2>2
<1> HIDE DEF r
<1>3. UNCHANGED <<s_key, p_semAdd, p_parent>>
  BY DEF Dequeue
<1>4. /\ ListsInv' /\ Queue(readyQueue)' = r /\ Queue(readyQueue) = Now[readyQueue]
      /\ UNCHANGED <<Queue(pcbFree_h), Blocked, Active, p_semAdd, Children, p_parent>>
  BY <1>2, <1>3, ReadyStep
<1> QED
  BY <1>2, <1>4 DEF Lists!Dequeue, r

(* The queue of the descriptor d of s gets the contents r.                  *)
LEMMA BlockedBecomes ==
  ASSUME Mapping, Mapping', NEW d \in Semds, NEW s \in Sems,
         s_key'[d] = s, d \in Range(Now'[semd_h]),
         \A e \in Semds : e # d => /\ s_key'[e] = s_key[e]
                                   /\ e \in Range(Now'[semd_h]) <=> e \in Range(Now[semd_h])
                                   /\ Now'[s_procq(e)] = Now[s_procq(e)],
         d \in Range(Now[semd_h]) => s_key[d] = s,
         d \notin Range(Now[semd_h]) => Found(s) = {}
  PROVE  /\ Blocked' = [Blocked EXCEPT ![s] = Now'[s_procq(d)]]
         /\ Active' = Active \cup {s}
<1> USE DEF Mapping
<1>1. Found(s)' = {d} /\ Blocked'[s] = Now'[s_procq(d)]
  OBVIOUS
<1>2. ASSUME NEW t \in Sems, t # s PROVE Found(t)' = Found(t) /\ Blocked'[t] = Blocked[t]
  <2>1. \A e : e \in Found(t)' <=> e \in Found(t)
    BY <1>2
  <2>2. Found(t)' = Found(t)
    BY <2>1, ZenonT(60)
  <2>3. CASE Found(t) = {}
    BY <2>2, <2>3
  <2>4. CASE Found(t) # {}
    <3>1. PICK e : e \in Found(t)
      BY <2>4
    <3>2. e \in Semds /\ s_key[e] = t /\ e \in Range(Now[semd_h]) /\ e # d
      BY <1>2, <3>1
    <3>3. Blocked[t] = Now[s_procq(e)] /\ Blocked'[t] = Now'[s_procq(e)]
      BY <3>2
    <3> QED
      BY <2>2, <3>2, <3>3
  <2> QED
    BY <2>3, <2>4
<1>3. Blocked' = [Blocked EXCEPT ![s] = Now'[s_procq(d)]]
  BY <1>1, <1>2
<1>4. \A t : t \in Active' <=> t \in Active \cup {s}
  BY <1>1, <1>2
<1> QED
  BY <1>3, <1>4

(* p joins the queue of d, the descriptor of s, in the lists w.             *)
Joins(s, p, d, w) ==
  /\ Holds(links', w)
  /\ s_key' \in [Semds -> Sems \cup {NULL}]
  /\ s_key'[d] = s /\ d \in Range(w[semd_h])
  /\ \A e \in Semds : e # d => s_key'[e] = s_key[e] /\ w[s_procq(e)] = Now[s_procq(e)]
  /\ \A e \in Semds : e \in Range(w[semd_h]) \/ e \in Range(w[semdFree_h])
  /\ \A e \in Semds : e # d => (e \in Range(w[semd_h]) <=> e \in Range(Now[semd_h]))
  /\ \A e \in Semds : e # d /\ e \in Range(Now[semd_h]) => s_key[e] # s
  /\ w[s_procq(d)] = InsertProcQ(Now[s_procq(d)], p, prio)
  /\ d \in Range(Now[semd_h]) => s_key[d] = s
  /\ d \notin Range(Now[semd_h]) => Found(s) = {} /\ Now[s_procq(d)] = <<>>
  /\ w[pcbFree_h] = Now[pcbFree_h] /\ w[readyQueue] = Now[readyQueue]
  /\ \A x \in Pcbs : w[p_child(x)] = Now[p_child(x)]

(* insertBlocked is Block.                                                  *)
LEMMA InsertBlockedStep ==
  ASSUME ListsInv, NEW s \in Sems, NEW p \in Pcbs, InsertBlocked(s, p)
  PROVE  ListsInv' /\ Lists!Block(s, p)
<1> DEFINE v == Now
           old == CHOOSE d \in Found(s) : TRUE
           new == links.next[semdFree_h][2]
<1>0. Holds(links, v) /\ SemdInv(v, s_key, p_semAdd) /\ TreeInv(v, p_parent) /\ Mapping
  BY Mapped DEF ListsInv
<1>1. p \in Held /\ InNoList(v, "p_list", p) /\ p \in Lists!Held
  BY <1>0, HeldMaps DEF InsertBlocked, Mapping
<1>2. p_semAdd' = [p_semAdd EXCEPT ![p] = s] /\ p_parent' = p_parent
  BY DEF InsertBlocked
<1>3. \A d \in Semds : p \notin Range(v[s_procq(d)])
  BY <1>1, NoListOf
<1>4. SUFFICES \E d \in Semds : \E w : Joins(s, p, d, w)
  <2>0. PICK d \in Semds : \E w : Joins(s, p, d, w)
    BY <1>4
  <2>1. PICK w : Joins(s, p, d, w)
    BY <2>0
  <2> USE DEF Joins
  <2>12. /\ Holds(links', w)
         /\ w[s_procq(d)] = InsertProcQ(v[s_procq(d)], p, prio)
         /\ w[pcbFree_h] = v[pcbFree_h] /\ w[readyQueue] = v[readyQueue]
    BY <2>1
  <2>2. w = Now'
    BY <2>1, NextIs
  <2>3. /\ \A x : x \in Range(w[s_procq(d)]) <=> x \in Range(v[s_procq(d)]) \/ x = p
        /\ p_semAdd' \in [Pcbs -> Sems \cup {NULL}]
        /\ \A x \in Pcbs : p_semAdd'[x] = IF x = p THEN s ELSE p_semAdd[x]
    <3>1. v[s_procq(d)] \in Seq(Pcbs)
      BY <1>0, ListsApart
    <3>2. Range(w[s_procq(d)]) = Range(v[s_procq(d)]) \cup {p}
      BY <2>1, <3>1, InsertProcQLists
    <3> QED
      BY <1>0, <1>2, <3>2 DEF SemdInv
  <2>4. SemdInv(w, s_key', p_semAdd')
    <3>1. \A e \in Semds : e \in Range(w[semd_h]) => s_key'[e] \in Sems
      BY <1>0, <2>1 DEF SemdInv
    <3>2. \A e, f \in Semds :
            e \in Range(w[semd_h]) /\ f \in Range(w[semd_h]) /\ s_key'[e] = s_key'[f] => e = f
      BY <1>0, <2>1 DEF SemdInv
    <3>3. ASSUME NEW e \in Semds, NEW x \in Pcbs, x \in Range(w[s_procq(e)])
          PROVE  e \in Range(w[semd_h]) /\ p_semAdd'[x] = s_key'[e]
      <4>1. CASE e = d
        <5>1. CASE x = p
          BY <2>1, <2>3, <4>1, <5>1
        <5>2. CASE x # p
          <6>1. x \in Range(v[s_procq(d)])
            BY <2>3, <3>3, <4>1, <5>2
          <6>2. d \in Range(v[semd_h]) /\ p_semAdd[x] = s_key[d]
            BY <1>0, <6>1 DEF SemdInv
          <6> QED
            BY <2>1, <2>3, <4>1, <5>2, <6>2
        <5> QED
          BY <5>1, <5>2
      <4>2. CASE e # d
        <5>1. x \in Range(v[s_procq(e)]) /\ x # p
          BY <1>3, <2>1, <3>3, <4>2
        <5> QED
          BY <1>0, <2>1, <2>3, <4>2, <5>1 DEF SemdInv
      <4> QED
        BY <4>1, <4>2
    <3> QED
      BY <2>1, <2>3, <3>1, <3>2, <3>3 DEF SemdInv
  <2>5. TreeInv(w, p_parent')
    BY <1>0, <1>2, <2>1 DEF TreeInv
  <2>6. ListsInv'
    BY <2>1, <2>2, <2>4, <2>5 DEF ListsInv
  <2>7. Mapping'
    BY <2>6, MappedNext
  <2>8. /\ Queue(pcbFree_h) = v[pcbFree_h] /\ Queue(readyQueue) = v[readyQueue]
        /\ Queue(pcbFree_h)' = w[pcbFree_h] /\ Queue(readyQueue)' = w[readyQueue]
        /\ Children' = Children
    BY <1>0, <2>1, <2>2, <2>7, ChildrenStay, WhatLists DEF Mapping, v
  <2>9. Blocked' = [Blocked EXCEPT ![s] = Now'[s_procq(d)]] /\ Active' = Active \cup {s}
    BY <1>0, <2>1, <2>2, <2>7, BlockedBecomes DEF v
  <2>10. v[s_procq(d)] = Blocked[s] /\ (s \in Active \/ Cardinality(Active) < Cardinality(Semds))
    <3>1. CASE d \in Range(v[semd_h])
      BY <1>0, <2>1, <3>1 DEF Mapping, v
    <3>2. CASE d \notin Range(v[semd_h])
      <4>1. Blocked[s] = <<>> /\ v[s_procq(d)] = <<>>
        BY <1>0, <2>1, <3>2 DEF Mapping
      <4>2. Cardinality(Active) < Cardinality(Semds)
        BY <1>0, <2>1, <3>2, FewActive DEF v
      <4> QED
        BY <4>1, <4>2
    <3> QED
      BY <3>1, <3>2
  <2>11. Lists!Block(s, p)
    BY <1>1, <1>2, <2>1, <2>2, <2>8, <2>9, <2>10, SameOperators DEF Lists!Block
  <2> QED
    BY <2>6, <2>11
<1>5. CASE Found(s) # {}
  <2> HIDE DEF v
  <2>1. old \in Found(s)
    BY <1>5
  <2> HIDE DEF old
  <2>2. old \in Semds /\ s_key[old] = s /\ old \in Range(v[semd_h]) /\ Found(s) = {old}
    BY <1>0, <2>1 DEF Mapping, v
  <2>3. links' = insertProcQ(links, s_procq(old), p) /\ s_key' = s_key
    BY <1>5 DEF InsertBlocked, old
  <2> DEFINE w == [v EXCEPT ![s_procq(old)] = InsertProcQ(v[s_procq(old)], p, prio)]
  <2>4. Holds(links', w)
    BY <1>0, <1>1, <2>2, <2>3, PcbQueued, WhatLists
  <2>5. /\ w[s_procq(old)] = InsertProcQ(v[s_procq(old)], p, prio)
        /\ \A h \in Heads : h # s_procq(old) => w[h] = v[h]
    BY <1>0, <2>2, OneChanged, WhatLists
  <2> HIDE DEF w
  <2>6. /\ w[pcbFree_h] = v[pcbFree_h] /\ w[readyQueue] = v[readyQueue]
        /\ w[semd_h] = v[semd_h] /\ w[semdFree_h] = v[semdFree_h]
        /\ \A x \in Pcbs : w[p_child(x)] = v[p_child(x)]
        /\ \A e \in Semds : e # old => w[s_procq(e)] = v[s_procq(e)]
    BY <2>2, <2>5, HeadsApart, WhatLists
  <2>7. \A e \in Semds : e # old /\ e \in Range(v[semd_h]) => s_key[e] # s
    BY <1>0, <2>2 DEF SemdInv
  <2>8. \A e \in Semds : e \in Range(w[semd_h]) \/ e \in Range(w[semdFree_h])
    BY <1>0, <2>6 DEF SemdInv
  <2>9. s_key' \in [Semds -> Sems \cup {NULL}]
    BY <1>0, <2>3 DEF SemdInv
  <2> QED
    <3>1. Joins(s, p, old, w)
      BY <2>2, <2>3, <2>4, <2>5, <2>6, <2>7, <2>8, <2>9 DEF Joins, v
    <3> QED
      BY <2>2, <3>1
<1>6. CASE Found(s) = {}
  <2> HIDE DEF v, new
  <2>1. /\ ~list_empty(links, semdFree_h)
        /\ s_key' = [s_key EXCEPT ![new] = s]
        /\ links' = insertProcQ(AllocSemd(links, new, s), s_procq(new), p)
    BY <1>6 DEF InsertBlocked, new
  <2>2. /\ new \in Semds /\ new = Head(v[semdFree_h]) /\ v[semdFree_h] # <<>>
        /\ new \in Range(v[semdFree_h]) /\ v[s_procq(new)] = <<>>
        /\ \E r : /\ Holds(AllocSemd(links, new, s),
                           [v EXCEPT ![semdFree_h] = Tail(v[semdFree_h]), ![semd_h] = r])
                  /\ Range(r) = Range(v[semd_h]) \cup {new}
    <3>1. new = links.next[semdFree_h][2]
      BY DEF new
    <3> QED
      BY <1>0, <2>1, <3>1, AllocEffect
  <2>3. PICK r : /\ Holds(AllocSemd(links, new, s),
                           [v EXCEPT ![semdFree_h] = Tail(v[semdFree_h]), ![semd_h] = r])
                 /\ Range(r) = Range(v[semd_h]) \cup {new}
    BY <2>2
  <2> DEFINE u == [v EXCEPT ![semdFree_h] = Tail(v[semdFree_h]), ![semd_h] = r]
             w == [u EXCEPT ![s_procq(new)] = InsertProcQ(u[s_procq(new)], p, prio)]
  <2>4. /\ u[semdFree_h] = Tail(v[semdFree_h]) /\ u[semd_h] = r
        /\ \A h \in Heads : h # semdFree_h /\ h # semd_h => u[h] = v[h]
    BY <1>0, ListsApart, HeadsApart, WhatLists
  <2>5. Holds(AllocSemd(links, new, s), u)
    BY <2>3
  <2> HIDE DEF u
  <2>6. InNoList(u, "p_list", p)
    <3>1. /\ u[pcbFree_h] = v[pcbFree_h] /\ u[readyQueue] = v[readyQueue]
          /\ \A d \in Semds : u[s_procq(d)] = v[s_procq(d)]
      BY <2>4, HeadsApart, WhatLists
    <3> QED
      BY <1>1, <3>1, NoListOf
  <2>7. Holds(links', w)
    BY <2>1, <2>2, <2>5, <2>6, PcbQueued, WhatLists
  <2>8. /\ w[s_procq(new)] = InsertProcQ(u[s_procq(new)], p, prio)
        /\ \A h \in Heads : h # s_procq(new) => w[h] = u[h]
    <3>1. DOMAIN u = Heads /\ s_procq(new) \in Heads
      BY <2>2, <2>5, ListsApart, WhatLists
    <3> QED
      BY <3>1
  <2> HIDE DEF w
  <2>9. /\ w[pcbFree_h] = v[pcbFree_h] /\ w[readyQueue] = v[readyQueue]
        /\ w[semd_h] = r /\ w[semdFree_h] = Tail(v[semdFree_h])
        /\ w[s_procq(new)] = InsertProcQ(v[s_procq(new)], p, prio)
        /\ \A x \in Pcbs : w[p_child(x)] = v[p_child(x)]
        /\ \A e \in Semds : e # new => w[s_procq(e)] = v[s_procq(e)]
    BY <2>2, <2>4, <2>8, HeadsApart, WhatLists
  <2>10. new \notin Range(v[semd_h])
    BY <1>0, <2>2, ListsApart
  <2>11. \A e \in Semds : e \in Range(v[semd_h]) => s_key[e] # s
    BY <1>0, <1>6 DEF Mapping, v
  <2>12. \A e \in Semds : e # new /\ e \in Range(v[semdFree_h])
                            => e \in Range(Tail(v[semdFree_h]))
    <3>1. v[semdFree_h] \in Seq(Semds)
      BY <1>0, ListsApart
    <3>2. Range(v[semdFree_h]) = Range(Tail(v[semdFree_h])) \cup {new}
      BY <2>2, <3>1, TailLists
    <3> QED
      BY <3>2
  <2>13. \A e \in Semds : e \in Range(w[semd_h]) \/ e \in Range(w[semdFree_h])
    BY <1>0, <2>3, <2>9, <2>12 DEF SemdInv
  <2>14. /\ s_key' \in [Semds -> Sems \cup {NULL}] /\ s_key'[new] = s
         /\ \A e \in Semds : e # new => s_key'[e] = s_key[e]
    BY <1>0, <2>1, <2>2 DEF SemdInv
  <2> QED
    <3>1. Joins(s, p, new, w)
      BY <1>6, <2>2, <2>3, <2>7, <2>9, <2>10, <2>11, <2>13, <2>14 DEF Joins, v
    <3> QED
      BY <2>2, <3>1
<1> QED
  BY <1>5, <1>6

(* A descriptor with nobody in its queue goes to the free ones, any other   *)
(* stays.                                                                   *)
LEMMA FreeSemdEffect ==
  ASSUME NEW l, NEW v, Holds(l, v), NEW d \in Semds, d \in Range(v[semd_h])
  PROVE  \E w : /\ Holds(FreeSemd(l, d), w)
                /\ \A h \in Heads : h # semd_h /\ h # semdFree_h => w[h] = v[h]
                /\ v[s_procq(d)] # <<>> => w = v
                /\ v[s_procq(d)] = <<>> =>
                     \A e \in Semds :
                       /\ e \in Range(w[semd_h]) <=> e \in Range(v[semd_h]) /\ e # d
                       /\ e \in Range(w[semdFree_h]) <=> e \in Range(v[semdFree_h]) \/ e = d
<1>1. list_empty(l, s_procq(d)) <=> v[s_procq(d)] = <<>>
  BY HeadEmpty, WhatLists
<1>2. CASE v[s_procq(d)] # <<>>
  BY <1>1, <1>2 DEF FreeSemd
<1>3. CASE v[s_procq(d)] = <<>>
  <2> DEFINE l1 == list_del(l, s_link(d))
             v1 == [v EXCEPT ![semd_h] = Without(v[semd_h], d)]
             one == <<d>>
             w == [v1 EXCEPT ![semdFree_h] = one \o v1[semdFree_h]]
  <2>1. semd_h \in Heads /\ Field(semd_h) = "s_link" /\ s_link(d) = <<"s_link", d>>
        /\ semdFree_h \in Heads /\ Field(semdFree_h) = "s_link" /\ Members(semdFree_h) = Semds
    BY WhatLists DEF s_link
  <2>2. Holds(l1, v1)
    BY <2>1, MemberLeaves
  <2>3. v[semd_h] \in Seq(Semds) /\ DOMAIN v = Heads
    BY ListsApart
  <2>4. Range(Without(v[semd_h], d)) = Range(v[semd_h]) \ {d}
    BY <2>3, WithoutLists
  <2>5. InNoList(v1, "s_link", d)
    <3>1. d \notin Range(Without(v[semd_h], d))
      BY <2>4
    <3> DEFINE r == Without(v[semd_h], d)
    <3> HIDE DEF r
    <3>2. d \notin Range(r)
      BY <3>1 DEF r
    <3>3. InNoList([v EXCEPT ![semd_h] = r], Field(semd_h), d)
      BY <2>1, <3>2, LeavesAll
    <3> QED
      BY <2>1, <3>3 DEF r
  <2>6. /\ v1[semd_h] = Without(v[semd_h], d) /\ DOMAIN v1 = Heads
        /\ \A h \in Heads : h # semd_h => v1[h] = v[h]
    BY <2>1, <2>3
  <2> HIDE DEF v1, l1
  <2>7. Holds(list_add(l1, s_link(d), semdFree_h), w)
    <3>1. Holds(list_add(l1, <<Field(semdFree_h), d>>, semdFree_h),
                [v1 EXCEPT ![semdFree_h] = <<d>> \o v1[semdFree_h]])
      BY <2>1, <2>2, <2>5, MemberJoins
    <3> QED
      BY <2>1, <3>1
  <2>8. w[semdFree_h] = one \o v1[semdFree_h]
        /\ \A h \in Heads : h # semdFree_h => w[h] = v1[h]
    <3> HIDE DEF one
    <3> QED
      BY <2>1, <2>6
  <2> HIDE DEF w
  <2>9. Range(one \o v1[semdFree_h]) = Range(v[semdFree_h]) \cup {d}
    <3>1. one = <<d>> /\ v1[semdFree_h] = v[semdFree_h] /\ v[semdFree_h] \in Seq(Semds)
      BY <2>1, <2>6, HeadsApart, ListsApart
    <3> HIDE DEF one
    <3> QED
      BY <3>1, FrontLists
  <2>10. w[semd_h] = Without(v[semd_h], d)
    BY <2>1, <2>6, <2>8, HeadsApart
  <2>11. Holds(FreeSemd(l, d), w)
    BY <1>1, <1>3, <2>7 DEF FreeSemd, l1
  <2>12. \A h \in Heads : h # semd_h /\ h # semdFree_h => w[h] = v[h]
    BY <2>6, <2>8
  <2> HIDE DEF one
  <2>13. \A e \in Semds :
           /\ e \in Range(w[semd_h]) <=> e \in Range(v[semd_h]) /\ e # d
           /\ e \in Range(w[semdFree_h]) <=> e \in Range(v[semdFree_h]) \/ e = d
    BY <2>4, <2>8, <2>9, <2>10
  <2> QED
    BY <1>3, <2>11, <2>12, <2>13
<1> QED
  BY <1>2, <1>3

(* The queue of s gets the contents r; its descriptor goes when it is empty.*)
LEMMA BlockedLeaves ==
  ASSUME Mapping, Mapping', NEW d \in Semds, NEW s \in Sems, NEW r,
         d \in Range(Now[semd_h]), s_key[d] = s, s_key' = s_key,
         \A e \in Semds : e # d => /\ e \in Range(Now'[semd_h]) <=> e \in Range(Now[semd_h])
                                   /\ Now'[s_procq(e)] = Now[s_procq(e)],
         d \in Range(Now'[semd_h]) <=> r # <<>>,
         r # <<>> => Now'[s_procq(d)] = r
  PROVE  /\ Blocked' = [Blocked EXCEPT ![s] = r]
         /\ Active' = IF r = <<>> THEN Active \ {s} ELSE Active
<1> USE DEF Mapping
<1>1. Found(s)' = (IF r = <<>> THEN {} ELSE {d}) /\ Blocked'[s] = r
  <2>1. CASE r = <<>>
    <3>1. \A e : e \notin Found(s)'
      BY <2>1
    <3>2. Found(s)' = {}
      BY <3>1
    <3> QED
      BY <2>1, <3>2
  <2>2. CASE r # <<>>
    BY <2>2
  <2> QED
    BY <2>1, <2>2
<1>2. ASSUME NEW t \in Sems, t # s PROVE Found(t)' = Found(t) /\ Blocked'[t] = Blocked[t]
  <2>1. \A e : e \in Found(t)' <=> e \in Found(t)
    BY <1>2
  <2>2. Found(t)' = Found(t)
    BY <2>1
  <2>3. CASE Found(t) = {}
    BY <2>2, <2>3
  <2>4. CASE Found(t) # {}
    <3>1. PICK e : e \in Found(t)
      BY <2>4
    <3>2. e \in Semds /\ s_key[e] = t /\ e \in Range(Now[semd_h]) /\ e # d
          /\ e \in Range(Now'[semd_h])
      BY <1>2, <3>1
    <3>3. Blocked[t] = Now[s_procq(e)] /\ Blocked'[t] = Now'[s_procq(e)]
      BY <3>2
    <3> QED
      BY <2>2, <3>2, <3>3
  <2> QED
    BY <2>3, <2>4
<1>3. Blocked' = [Blocked EXCEPT ![s] = r]
  BY <1>1, <1>2
<1>4. Found(s) # {} /\ \A t : t \in Active' <=> IF t = s THEN r # <<>> ELSE t \in Active
  BY <1>1, <1>2
<1>5. Active' = IF r = <<>> THEN Active \ {s} ELSE Active
  <2>1. s \in Active
    BY <1>4
  <2> QED
    BY <1>4, <2>1, ZenonT(60)
<1> QED
  BY <1>3, <1>5

(* removeBlocked is Unblock.                                                *)
LEMMA RemoveBlockedStep ==
  ASSUME ListsInv, NEW s \in Sems, RemoveBlocked(s)
  PROVE  ListsInv' /\ Lists!Unblock(s)
<1> DEFINE v == Now
           d == CHOOSE e \in Found(s) : TRUE
           p == links.next[s_procq(d)][2]
<1>0. Holds(links, v) /\ SemdInv(v, s_key, p_semAdd) /\ TreeInv(v, p_parent) /\ Mapping
  BY Mapped DEF ListsInv
<1>1. /\ d \in Found(s)
      /\ IF list_empty(links, s_procq(d))
         THEN links' = FreeSemd(links, d) /\ p_semAdd' = p_semAdd
         ELSE /\ links' = insertProcQ(FreeSemd(list_del(links, p_list(p)), d), readyQueue, p)
              /\ p_semAdd' = [p_semAdd EXCEPT ![p] = NULL]
      /\ s_key' = s_key /\ p_parent' = p_parent
  BY DEF RemoveBlocked
<1> HIDE DEF v, d
<1>2. d \in Semds /\ s_key[d] = s /\ d \in Range(v[semd_h]) /\ Blocked[s] = v[s_procq(d)]
  BY <1>0, <1>1 DEF Mapping, v
<1>3. v[s_procq(d)] \in Seq(Pcbs) /\ IsInjective(v[s_procq(d)]) /\ DOMAIN v = Heads
  BY <1>0, <1>2, ListsApart
<1>4. list_empty(links, s_procq(d)) <=> v[s_procq(d)] = <<>>
  BY <1>0, <1>2, HeadEmpty, WhatLists
<1>5. CASE v[s_procq(d)] = <<>>
  <2>1. links' = FreeSemd(links, d) /\ p_semAdd' = p_semAdd
    BY <1>1, <1>4, <1>5
  <2>2. PICK w : /\ Holds(links', w)
                 /\ \A h \in Heads : h # semd_h /\ h # semdFree_h => w[h] = v[h]
                 /\ \A e \in Semds :
                      /\ e \in Range(w[semd_h]) <=> e \in Range(v[semd_h]) /\ e # d
                      /\ e \in Range(w[semdFree_h]) <=> e \in Range(v[semdFree_h]) \/ e = d
    BY <1>0, <1>2, <1>5, <2>1, FreeSemdEffect
  <2>3. /\ w[pcbFree_h] = v[pcbFree_h] /\ w[readyQueue] = v[readyQueue]
        /\ \A x \in Pcbs : w[p_child(x)] = v[p_child(x)]
        /\ \A e \in Semds : w[s_procq(e)] = v[s_procq(e)]
    BY <2>2, HeadsApart, WhatLists
  <2>4. \A x \in Pcbs : x \notin Range(v[s_procq(d)])
    BY <1>3, <1>5, EmptyLists
  <2>5. SemdInv(w, s_key', p_semAdd')
    BY <1>0, <1>1, <2>1, <2>2, <2>3, <2>4 DEF SemdInv
  <2>6. TreeInv(w, p_parent')
    BY <1>0, <1>1, <2>3 DEF TreeInv
  <2>7. w = Now'
    BY <2>2, NextIs
  <2>8. ListsInv'
    BY <2>2, <2>5, <2>6, <2>7 DEF ListsInv
  <2>9. Mapping'
    BY <2>8, MappedNext
  <2>10. /\ Queue(pcbFree_h)' = Queue(pcbFree_h) /\ Queue(readyQueue)' = Queue(readyQueue)
         /\ Children' = Children
    BY <1>0, <2>3, <2>7, <2>9, ChildrenStay, WhatLists DEF Mapping, v
  <2>11. Blocked' = [Blocked EXCEPT ![s] = <<>>] /\ Active' = Active \ {s}
    <3> DEFINE r == <<>>
    <3>1. r = <<>>
      OBVIOUS
    <3> HIDE DEF r
    <3>2. /\ d \in Range(Now[semd_h]) /\ d \notin Range(Now'[semd_h])
          /\ \A e \in Semds : e # d => /\ e \in Range(Now'[semd_h]) <=> e \in Range(Now[semd_h])
                                       /\ Now'[s_procq(e)] = Now[s_procq(e)]
      BY <1>2, <2>2, <2>3, <2>7 DEF v
    <3>3. Blocked' = [Blocked EXCEPT ![s] = r]
          /\ Active' = IF r = <<>> THEN Active \ {s} ELSE Active
      BY <1>0, <1>1, <1>2, <2>9, <3>1, <3>2, BlockedLeaves
    <3> QED
      BY <3>1, <3>3
  <2>12. Blocked' = Blocked
    BY <1>0, <1>2, <1>5, <2>11 DEF Mapping
  <2>13. Len(Blocked[s]) = 0
    BY <1>2, <1>5, EmptySeq
  <2> QED
    BY <1>1, <1>2, <1>5, <2>1, <2>8, <2>10, <2>11, <2>12, <2>13 DEF Lists!Unblock
<1>6. CASE v[s_procq(d)] # <<>>
  <2> DEFINE t == Tail(v[s_procq(d)])
             v1 == [v EXCEPT ![s_procq(d)] = t]
             l1 == list_del(links, p_list(p))
  <2>1. /\ links' = insertProcQ(FreeSemd(l1, d), readyQueue, p)
        /\ p_semAdd' = [p_semAdd EXCEPT ![p] = NULL]
    BY <1>1, <1>4, <1>6
  <2>2. /\ links.next[s_procq(d)] = <<"p_list", Head(v[s_procq(d)])>>
        /\ Head(v[s_procq(d)]) \in Range(v[s_procq(d)]) /\ Head(v[s_procq(d)]) \in Pcbs
        /\ Holds(list_del(links, links.next[s_procq(d)]), v1)
    BY <1>0, <1>2, <1>4, <1>6, HeadLeaves, WhatLists
  <2>3. /\ p = Head(v[s_procq(d)]) /\ p \in Pcbs /\ p \in Range(v[s_procq(d)])
        /\ Holds(l1, v1)
    BY <2>2 DEF p_list
  <2>4. t \in Seq(Pcbs) /\ Range(v[s_procq(d)]) = Range(t) \cup {p} /\ p \notin Range(t)
    BY <1>3, <1>6, <2>3, TailLists
  <2>5. v1[s_procq(d)] = t /\ \A h \in Heads : h # s_procq(d) => v1[h] = v[h]
    BY <1>2, <1>3, WhatLists
  <2>6. InNoList(v1, "p_list", p)
    <3> HIDE DEF t, p
    <3>1. InNoList(v1, Field(s_procq(d)), p)
      BY <1>0, <1>2, <2>3, <2>4, LeavesAll, WhatLists
    <3> HIDE DEF v1
    <3> QED
      BY <1>2, <3>1, WhatLists
  <2> HIDE DEF p, v1, l1, t
  <2>7. d \in Range(v1[semd_h])
    BY <1>2, <2>5, HeadsApart, WhatLists
  <2>8. PICK v2 : /\ Holds(FreeSemd(l1, d), v2)
                  /\ \A h \in Heads : h # semd_h /\ h # semdFree_h => v2[h] = v1[h]
                  /\ v1[s_procq(d)] # <<>> => v2 = v1
                  /\ v1[s_procq(d)] = <<>> =>
                       \A e \in Semds :
                         /\ e \in Range(v2[semd_h]) <=> e \in Range(v1[semd_h]) /\ e # d
                         /\ e \in Range(v2[semdFree_h]) <=> e \in Range(v1[semdFree_h]) \/ e = d
    BY <1>2, <2>3, <2>7, FreeSemdEffect
  <2>9. InNoList(v2, "p_list", p)
    <3>1. /\ v2[pcbFree_h] = v1[pcbFree_h] /\ v2[readyQueue] = v1[readyQueue]
          /\ \A e \in Semds : v2[s_procq(e)] = v1[s_procq(e)]
      BY <2>8, HeadsApart, WhatLists
    <3> QED
      BY <2>6, <3>1, NoListOf
  <2> DEFINE w == [v2 EXCEPT ![readyQueue] = InsertProcQ(v2[readyQueue], p, prio)]
  <2>10. Holds(links', w)
    BY <2>1, <2>3, <2>8, <2>9, PcbQueued, WhatLists
  <2>11. /\ w[readyQueue] = InsertProcQ(v2[readyQueue], p, prio)
         /\ \A h \in Heads : h # readyQueue => w[h] = v2[h]
    <3>1. DOMAIN v2 = Heads /\ readyQueue \in Heads
      BY <2>8, ListsApart, WhatLists
    <3> QED
      BY <3>1
  <2> HIDE DEF w
  <2>12. /\ w[pcbFree_h] = v[pcbFree_h]
         /\ w[readyQueue] = InsertProcQ(v[readyQueue], p, prio)
         /\ \A x \in Pcbs : w[p_child(x)] = v[p_child(x)]
         /\ \A e \in Semds : e # d => w[s_procq(e)] = v[s_procq(e)]
         /\ w[s_procq(d)] = t
    BY <1>2, <2>5, <2>8, <2>11, HeadsApart, WhatLists
  <2>13. /\ w[semd_h] = v2[semd_h] /\ w[semdFree_h] = v2[semdFree_h]
         /\ v1[semd_h] = v[semd_h] /\ v1[semdFree_h] = v[semdFree_h]
    BY <1>2, <2>5, <2>11, HeadsApart, WhatLists
  <2>14. \A e \in Semds :
           /\ e \in Range(w[semd_h]) <=> e \in Range(v[semd_h]) /\ (e # d \/ t # <<>>)
           /\ e \in Range(w[semdFree_h])
                <=> e \in Range(v[semdFree_h]) \/ (e = d /\ t = <<>>)
    BY <1>2, <2>5, <2>8, <2>13
  <2>15. \A e \in Semds : e # d => p \notin Range(v[s_procq(e)])
    BY <1>0, <1>2, <2>3, ListsApart
  <2>16. t = <<>> => \A x \in Pcbs : x \notin Range(t)
    BY <2>4, EmptyLists
  <2>17. p_semAdd' \in [Pcbs -> Sems \cup {NULL}]
         /\ \A x \in Pcbs : p_semAdd'[x] = IF x = p THEN NULL ELSE p_semAdd[x]
    BY <1>0, <2>1 DEF SemdInv
  <2>18. ASSUME NEW e \in Semds, NEW x \in Pcbs, x \in Range(w[s_procq(e)])
         PROVE  e \in Range(w[semd_h]) /\ p_semAdd'[x] = s_key'[e]
    <3>1. x \in Range(v[s_procq(e)]) /\ x # p /\ (e = d => t # <<>>)
      BY <2>4, <2>12, <2>15, <2>16, <2>18
    <3> QED
      BY <1>0, <1>1, <2>14, <2>17, <3>1 DEF SemdInv
  <2>19. SemdInv(w, s_key', p_semAdd')
    BY <1>0, <1>1, <2>14, <2>17, <2>18 DEF SemdInv
  <2>20. TreeInv(w, p_parent')
    BY <1>0, <1>1, <2>12 DEF TreeInv
  <2>21. w = Now'
    BY <2>10, NextIs
  <2>22. ListsInv'
    BY <2>10, <2>19, <2>20, <2>21 DEF ListsInv
  <2>23. Mapping'
    BY <2>22, MappedNext
  <2>24. /\ Queue(pcbFree_h)' = Queue(pcbFree_h)
         /\ Queue(readyQueue)' = InsertProcQ(Queue(readyQueue), p, prio)
         /\ Children' = Children
    BY <1>0, <2>12, <2>21, <2>23, ChildrenStay, WhatLists DEF Mapping, v
  <2>25. /\ Blocked' = [Blocked EXCEPT ![s] = t]
         /\ Active' = IF t = <<>> THEN Active \ {s} ELSE Active
    <3>2. /\ d \in Range(Now[semd_h]) /\ (d \in Range(Now'[semd_h]) <=> t # <<>>)
          /\ Now'[s_procq(d)] = t
          /\ \A e \in Semds : e # d => /\ e \in Range(Now'[semd_h]) <=> e \in Range(Now[semd_h])
                                       /\ Now'[s_procq(e)] = Now[s_procq(e)]
      BY <1>2, <2>12, <2>14, <2>21 DEF v
    <3> QED
      BY <1>0, <1>1, <1>2, <2>23, <3>2, BlockedLeaves
  <2>26. t = <<>> <=> Len(v[s_procq(d)]) <= 1
    <3> DEFINE q == v[s_procq(d)]
    <3>1. q \in Seq(Pcbs) /\ q # <<>> /\ Len(q) \in Nat /\ Len(q) # 0
      BY <1>3, <1>6, EmptySeq, SequenceShape
    <3>2. Tail(q) \in Seq(Pcbs) /\ Len(Tail(q)) = Len(q) - 1
      <4> HIDE DEF q
      <4> QED
        BY <3>1, HeadTailProperties
    <3>3. Tail(q) = <<>> <=> Len(Tail(q)) = 0
      BY <3>2, EmptySeq
    <3> HIDE DEF q
    <3>4. Tail(q) = <<>> <=> Len(q) <= 1
      BY <3>1, <3>2, <3>3
    <3> QED
      BY <3>4 DEF q, t
  <2> QED
    BY <1>1, <1>2, <1>6, <2>1, <2>3, <2>22, <2>24, <2>25, <2>26, SameOperators
       DEF Lists!Unblock, t
<1> QED
  BY <1>5, <1>6

(* removeChild is Orphan.                                                   *)
LEMMA RemoveChildStep ==
  ASSUME ListsInv, NEW q \in Pcbs, RemoveChild(q)
  PROVE  ListsInv' /\ Lists!Orphan(q)
<1> DEFINE v == Now
           child == links.next[p_child(q)][2]
           t == Tail(v[p_child(q)])
           w == [v EXCEPT ![p_child(q)] = t]
<1>0. Holds(links, v) /\ SemdInv(v, s_key, p_semAdd) /\ TreeInv(v, p_parent) /\ Mapping
  BY Mapped DEF ListsInv
<1>1. /\ ~list_empty(links, p_child(q))
      /\ links' = list_del(links, links.next[p_child(q)])
      /\ p_parent' = [p_parent EXCEPT ![child] = NULL]
      /\ s_key' = s_key /\ p_semAdd' = p_semAdd
  BY DEF RemoveChild
<1> HIDE DEF v
<1>2. /\ v[p_child(q)] # <<>> /\ links.next[p_child(q)] = <<"p_sib", Head(v[p_child(q)])>>
      /\ Head(v[p_child(q)]) \in Range(v[p_child(q)]) /\ Head(v[p_child(q)]) \in Pcbs
      /\ Holds(list_del(links, links.next[p_child(q)]), w)
  <2>1. p_child(q) \in Heads /\ Field(p_child(q)) = "p_sib" /\ Members(p_child(q)) = Pcbs
    BY WhatLists
  <2> DEFINE h == p_child(q)
  <2> HIDE DEF h
  <2>2. h \in Heads /\ Field(h) = "p_sib" /\ Members(h) = Pcbs /\ ~list_empty(links, h)
    BY <1>1, <2>1 DEF h
  <2>3. /\ v[h] # <<>> /\ links.next[h] = <<Field(h), Head(v[h])>>
        /\ Head(v[h]) \in Range(v[h]) /\ Head(v[h]) \in Members(h)
        /\ Holds(list_del(links, links.next[h]), [v EXCEPT ![h] = Tail(v[h])])
    BY <1>0, <2>2, HeadLeaves
  <2> QED
    BY <2>2, <2>3 DEF h
<1>3. child = Head(v[p_child(q)]) /\ child \in Pcbs /\ child \in Range(v[p_child(q)])
  BY <1>2
<1>4. Holds(links', w)
  BY <1>1, <1>2
<1>5. v[p_child(q)] \in Seq(Pcbs) /\ IsInjective(v[p_child(q)]) /\ DOMAIN v = Heads
  BY <1>0, ListsApart
<1>6. t \in Seq(Pcbs) /\ Range(v[p_child(q)]) = Range(t) \cup {child} /\ child \notin Range(t)
  BY <1>2, <1>3, <1>5, TailLists
<1>7. w[p_child(q)] = t /\ \A h \in Heads : h # p_child(q) => w[h] = v[h]
  BY <1>5, WhatLists
<1> HIDE DEF child, t, w
<1>8. /\ w[pcbFree_h] = v[pcbFree_h] /\ w[readyQueue] = v[readyQueue]
      /\ w[semd_h] = v[semd_h] /\ w[semdFree_h] = v[semdFree_h]
      /\ \A d \in Semds : w[s_procq(d)] = v[s_procq(d)]
      /\ \A x \in Pcbs : w[p_child(x)] = IF x = q THEN t ELSE v[p_child(x)]
  BY <1>7, HeadsApart, WhatLists
<1>9. SemdInv(w, s_key', p_semAdd')
  BY <1>0, <1>1, <1>8 DEF SemdInv
<1>10. TreeInv(w, p_parent')
  <2>1. p_parent' \in [Pcbs -> Pcbs \cup {NULL}]
        /\ \A x \in Pcbs : p_parent'[x] = IF x = child THEN NULL ELSE p_parent[x]
    BY <1>0, <1>1 DEF TreeInv
  <2>2. p_parent[child] = q
    BY <1>0, <1>3 DEF TreeInv
  <2>3. \A x, y \in Pcbs : x \in Range(w[p_child(y)]) <=> p_parent'[x] = y
    BY <1>0, <1>6, <1>8, <2>1, <2>2, ListsAssumption DEF TreeInv
  <2>4. \A x \in Pcbs : x \in Range(v[pcbFree_h]) => x # q
    BY <1>0, <1>2 DEF TreeInv
  <2>5. \A x \in Pcbs : x \in Range(w[pcbFree_h])
                          => p_parent'[x] = NULL /\ w[p_child(x)] = <<>>
    BY <1>0, <1>8, <2>1, <2>4 DEF TreeInv
  <2> QED
    BY <2>1, <2>3, <2>5 DEF TreeInv
<1>11. w = Now'
  BY <1>4, NextIs
<1>12. ListsInv'
  BY <1>4, <1>9, <1>10, <1>11 DEF ListsInv
<1>13. Mapping'
  BY <1>12, MappedNext
<1>14. /\ Queue(pcbFree_h)' = Queue(pcbFree_h) /\ Queue(readyQueue)' = Queue(readyQueue)
       /\ Active' = Active /\ Blocked' = Blocked
  BY <1>0, <1>1, <1>8, <1>11, <1>13, AslStays, WhatLists, ZenonT(60) DEF Mapping, v
<1>15. /\ Children' = [Children EXCEPT ![q] = Tail(@)]
       /\ Children[q] = v[p_child(q)]
  <2>1. /\ Children = [x \in Pcbs |-> v[p_child(x)]]
        /\ Children' = [x \in Pcbs |-> w[p_child(x)]]
    BY <1>0, <1>11, <1>13 DEF Mapping, v
  <2> QED
    BY <1>8, <2>1 DEF t
<1> QED
  BY <1>1, <1>2, <1>3, <1>12, <1>14, <1>15 DEF Lists!Orphan

(* outBlocked takes the PCB out of the queues of all descriptors.           *)
LEMMA OutBlockedEffect ==
  ASSUME ListsInv, NEW p \in Pcbs
  PROVE  \E w : /\ Holds(OutBlocked(links, p), w)
                /\ \A d \in Semds : w[s_procq(d)] = Without(Now[s_procq(d)], p)
                /\ \A h \in Heads : (\A d \in Semds : h # s_procq(d)) => w[h] = Now[h]
<1> DEFINE v == Now
           d == CHOOSE e \in Found(p_semAdd[p]) : TRUE
<1>0. Holds(links, v) /\ SemdInv(v, s_key, p_semAdd) /\ Mapping
  BY Mapped DEF ListsInv
<1>1. \A e \in Semds : v[s_procq(e)] \in Seq(Pcbs)
  BY <1>0, ListsApart
<1>2. \A e \in Semds : p \notin Range(v[s_procq(e)])
                         => Without(v[s_procq(e)], p) = v[s_procq(e)]
  BY <1>1, WithoutLists
<1>3. CASE p_semAdd[p] = NULL \/ Found(p_semAdd[p]) = {}
  <2>1. OutBlocked(links, p) = links
    BY <1>3 DEF OutBlocked
  <2>2. \A e \in Semds : p \notin Range(v[s_procq(e)])
    BY <1>0, <1>3, ListsAssumption, SMTT(30) DEF SemdInv, Mapping
  <2> QED
    BY <1>0, <1>2, <2>1, <2>2
<1>4. CASE p_semAdd[p] # NULL /\ Found(p_semAdd[p]) # {}
  <2>1. d \in Found(p_semAdd[p])
    BY <1>4
  <2>2. OutBlocked(links, p) = outProcQ(links, s_procq(d), p)
    BY <1>4 DEF OutBlocked
  <2> HIDE DEF v, d
  <2>3. d \in Semds /\ s_key[d] = p_semAdd[p] /\ d \in Range(v[semd_h])
    BY <1>0, <2>1 DEF Mapping, v
  <2> DEFINE w == [v EXCEPT ![s_procq(d)] = Without(v[s_procq(d)], p)]
  <2>4. Holds(OutBlocked(links, p), w)
    <3>1. s_procq(d) \in Heads /\ Field(s_procq(d)) = "p_list"
      BY <2>3, WhatLists
    <3>2. Holds(outProcQ(links, s_procq(d), p), w)
      BY <1>0, <3>1, PcbQueued
    <3> QED
      BY <2>2, <3>2
  <2>5. w[s_procq(d)] = Without(v[s_procq(d)], p)
        /\ \A h \in Heads : h # s_procq(d) => w[h] = v[h]
    <3>1. DOMAIN v = Heads /\ s_procq(d) \in Heads
      BY <1>0, <2>3, ListsApart, WhatLists
    <3> QED
      BY <3>1
  <2> HIDE DEF w
  <2>6. \A e \in Semds : e # d => p \notin Range(v[s_procq(e)])
    BY <1>0, <2>3 DEF SemdInv
  <2>7. \A e \in Semds : w[s_procq(e)] = Without(v[s_procq(e)], p)
    BY <1>2, <2>3, <2>5, <2>6, HeadsApart, WhatLists
  <2>8. \A h \in Heads : (\A e \in Semds : h # s_procq(e)) => w[h] = v[h]
    BY <2>3, <2>5
  <2> QED
    BY <2>4, <2>7, <2>8 DEF v
<1> QED
  BY <1>3, <1>4

(* outChild takes the PCB out of all lists of children.                     *)
LEMMA OutChildEffect ==
  ASSUME NEW l, NEW u, Holds(l, u), NEW p \in Pcbs, p_parent \in [Pcbs -> Pcbs \cup {NULL}],
         \A x, y \in Pcbs : x \in Range(u[p_child(y)]) <=> p_parent[x] = y
  PROVE  \E w : /\ Holds(OutChild(l, p), w)
                /\ \A x \in Pcbs : w[p_child(x)] = Without(u[p_child(x)], p)
                /\ \A h \in Heads : (\A x \in Pcbs : h # p_child(x)) => w[h] = u[h]
<1>1. \A x \in Pcbs : u[p_child(x)] \in Seq(Pcbs)
  BY ListsApart
<1>2. \A x \in Pcbs : p \notin Range(u[p_child(x)])
                        => Without(u[p_child(x)], p) = u[p_child(x)]
  BY <1>1, WithoutLists
<1>3. CASE p_parent[p] = NULL
  <2>1. OutChild(l, p) = l
    BY <1>3 DEF OutChild
  <2>2. \A x \in Pcbs : p \notin Range(u[p_child(x)])
    BY <1>3, ListsAssumption
  <2> QED
    BY <1>2, <2>1, <2>2
<1>4. CASE p_parent[p] # NULL
  <2> DEFINE q == p_parent[p]
             w == [u EXCEPT ![p_child(q)] = Without(u[p_child(q)], p)]
  <2>1. q \in Pcbs /\ p \in Range(u[p_child(q)])
    BY <1>4
  <2>2. OutChild(l, p) = list_del(l, p_sib(p))
    BY <1>4 DEF OutChild
  <2> HIDE DEF q
  <2>3. Holds(list_del(l, <<Field(p_child(q)), p>>), w)
    BY <2>1, MemberLeaves, WhatLists
  <2>4. Holds(OutChild(l, p), w)
    BY <2>1, <2>2, <2>3, WhatLists DEF p_sib
  <2>5. w[p_child(q)] = Without(u[p_child(q)], p)
        /\ \A h \in Heads : h # p_child(q) => w[h] = u[h]
    <3>1. DOMAIN u = Heads /\ p_child(q) \in Heads
      BY <2>1, ListsApart, WhatLists
    <3> QED
      BY <3>1
  <2> HIDE DEF w
  <2>6. \A x \in Pcbs : x # q => p \notin Range(u[p_child(x)])
    BY DEF q
  <2>7. \A x \in Pcbs : w[p_child(x)] = Without(u[p_child(x)], p)
    BY <1>2, <2>1, <2>5, <2>6, HeadsApart, WhatLists
  <2>8. \A h \in Heads : (\A x \in Pcbs : h # p_child(x)) => w[h] = u[h]
    BY <2>1, <2>5
  <2> QED
    BY <2>4, <2>7, <2>8
<1> QED
  BY <1>3, <1>4

(* What recursiveTerminateProcess does last is Retire.                      *)
LEMMA RetireStep ==
  ASSUME ListsInv, NEW p \in Pcbs, Retire(p)
  PROVE  ListsInv' /\ Lists!Retire(p)
<1> DEFINE v == Now
           l1 == OutBlocked(links, p)
           l2 == outProcQ(l1, readyQueue, p)
           l3 == OutChild(l2, p)
<1>0. Holds(links, v) /\ SemdInv(v, s_key, p_semAdd) /\ TreeInv(v, p_parent) /\ Mapping
  BY Mapped DEF ListsInv
<1>1. /\ p \in Used /\ list_empty(links, p_child(p))
      /\ links' = list_add(l3, p_list(p), pcbFree_h)
      /\ p_parent' = [p_parent EXCEPT ![p] = NULL]
      /\ s_key' = s_key /\ p_semAdd' = p_semAdd
  BY DEF Retire
<1> HIDE DEF v, l1
<1>2. p \notin Range(v[pcbFree_h]) /\ v[p_child(p)] = <<>>
  BY <1>0, <1>1, HeadEmpty, WhatLists DEF Used, Mapping, v
<1>3. PICK v1 : /\ Holds(l1, v1)
                /\ \A d \in Semds : v1[s_procq(d)] = Without(v[s_procq(d)], p)
                /\ \A h \in Heads : (\A d \in Semds : h # s_procq(d)) => v1[h] = v[h]
  BY OutBlockedEffect DEF l1, v
<1>4. /\ v1[pcbFree_h] = v[pcbFree_h] /\ v1[readyQueue] = v[readyQueue]
      /\ v1[semd_h] = v[semd_h] /\ v1[semdFree_h] = v[semdFree_h]
      /\ \A x \in Pcbs : v1[p_child(x)] = v[p_child(x)]
  BY <1>3, HeadsApart, WhatLists
<1> DEFINE v2 == [v1 EXCEPT ![readyQueue] = Without(v1[readyQueue], p)]
<1>5. Holds(l2, v2)
  BY <1>3, PcbQueued, WhatLists
<1>6. v2[readyQueue] = Without(v1[readyQueue], p)
      /\ \A h \in Heads : h # readyQueue => v2[h] = v1[h]
  <2>1. DOMAIN v1 = Heads /\ readyQueue \in Heads
    BY <1>3, ListsApart, WhatLists
  <2> QED
    BY <2>1
<1> HIDE DEF v2, l2
<1>7. /\ v2[pcbFree_h] = v[pcbFree_h] /\ v2[readyQueue] = Without(v[readyQueue], p)
      /\ v2[semd_h] = v[semd_h] /\ v2[semdFree_h] = v[semdFree_h]
      /\ \A x \in Pcbs : v2[p_child(x)] = v[p_child(x)]
      /\ \A d \in Semds : v2[s_procq(d)] = Without(v[s_procq(d)], p)
  BY <1>3, <1>4, <1>6, HeadsApart, WhatLists
<1>8. PICK v3 : /\ Holds(l3, v3)
                /\ \A x \in Pcbs : v3[p_child(x)] = Without(v2[p_child(x)], p)
                /\ \A h \in Heads : (\A x \in Pcbs : h # p_child(x)) => v3[h] = v2[h]
  <2>1. /\ p_parent \in [Pcbs -> Pcbs \cup {NULL}]
        /\ \A x, y \in Pcbs : x \in Range(v2[p_child(y)]) <=> p_parent[x] = y
    BY <1>0, <1>7 DEF TreeInv
  <2> QED
    BY <1>5, <2>1, OutChildEffect
<1> HIDE DEF l3
<1>9. /\ v3[pcbFree_h] = v[pcbFree_h] /\ v3[readyQueue] = Without(v[readyQueue], p)
      /\ v3[semd_h] = v[semd_h] /\ v3[semdFree_h] = v[semdFree_h]
      /\ \A x \in Pcbs : v3[p_child(x)] = Without(v[p_child(x)], p)
      /\ \A d \in Semds : v3[s_procq(d)] = Without(v[s_procq(d)], p)
  BY <1>7, <1>8, HeadsApart, WhatLists
<1>10. /\ v[readyQueue] \in Seq(Pcbs) /\ v[pcbFree_h] \in Seq(Pcbs)
       /\ \A d \in Semds : v[s_procq(d)] \in Seq(Pcbs)
       /\ \A x \in Pcbs : v[p_child(x)] \in Seq(Pcbs)
  BY <1>0, ListsApart
<1>11. /\ Range(v3[readyQueue]) = Range(v[readyQueue]) \ {p}
       /\ \A d \in Semds : Range(v3[s_procq(d)]) = Range(v[s_procq(d)]) \ {p}
       /\ \A x \in Pcbs : Range(v3[p_child(x)]) = Range(v[p_child(x)]) \ {p}
  BY <1>9, <1>10, WithoutLists
<1>12. InNoList(v3, "p_list", p)
  <2>1. /\ p \notin Range(v3[pcbFree_h]) /\ p \notin Range(v3[readyQueue])
        /\ \A d \in Semds : p \notin Range(v3[s_procq(d)])
    BY <1>2, <1>9, <1>11
  <2> QED
    BY <2>1, NoListOf
<1> DEFINE w == [v3 EXCEPT ![pcbFree_h] = <<p>> \o v3[pcbFree_h]]
<1>13. Holds(links', w)
  <2>1. Field(pcbFree_h) = "p_list" /\ pcbFree_h \in Heads /\ p \in Members(pcbFree_h)
    BY WhatLists
  <2>2. Holds(list_add(l3, <<Field(pcbFree_h), p>>, pcbFree_h), w)
    BY <1>8, <1>12, <2>1, MemberJoins
  <2> QED
    BY <1>1, <2>1, <2>2 DEF p_list
<1>14. w[pcbFree_h] = <<p>> \o v[pcbFree_h]
       /\ \A h \in Heads : h # pcbFree_h => w[h] = v3[h]
  <2>1. DOMAIN v3 = Heads /\ pcbFree_h \in Heads
    BY <1>8, ListsApart, WhatLists
  <2> DEFINE f == <<p>> \o v3[pcbFree_h]
  <2>2. f = <<p>> \o v[pcbFree_h]
    BY <1>9
  <2>3. w = [v3 EXCEPT ![pcbFree_h] = f]
    OBVIOUS
  <2> HIDE DEF f, w
  <2>4. w[pcbFree_h] = f /\ \A h \in Heads : h # pcbFree_h => w[h] = v3[h]
    BY <2>1, <2>3
  <2> QED
    BY <2>2, <2>4
<1> HIDE DEF w
<1>15. /\ w[readyQueue] = Without(v[readyQueue], p)
       /\ w[semd_h] = v[semd_h] /\ w[semdFree_h] = v[semdFree_h]
       /\ \A x \in Pcbs : w[p_child(x)] = v3[p_child(x)]
       /\ \A d \in Semds : w[s_procq(d)] = v3[s_procq(d)]
  BY <1>9, <1>14, HeadsApart, WhatLists
<1>16. Range(w[pcbFree_h]) = Range(v[pcbFree_h]) \cup {p}
  <2> DEFINE one == <<p>>
  <2>1. one = <<p>> /\ w[pcbFree_h] = one \o v[pcbFree_h]
    BY <1>14
  <2> HIDE DEF one
  <2>2. Range(one \o v[pcbFree_h]) = Range(v[pcbFree_h]) \cup {p}
    BY <1>10, <2>1, FrontLists
  <2> QED
    BY <2>1, <2>2
<1>17. SemdInv(w, s_key', p_semAdd')
  BY <1>0, <1>1, <1>11, <1>15 DEF SemdInv
<1>18. TreeInv(w, p_parent')
  <2>1. p_parent' \in [Pcbs -> Pcbs \cup {NULL}]
        /\ \A x \in Pcbs : p_parent'[x] = IF x = p THEN NULL ELSE p_parent[x]
    BY <1>0, <1>1 DEF TreeInv
  <2>2. \A x, y \in Pcbs : x \in Range(w[p_child(y)]) <=> p_parent'[x] = y
    BY <1>0, <1>11, <1>15, <2>1, ListsAssumption DEF TreeInv
  <2>3. Without(<<>>, p) = <<>>
    <3>1. <<>> \in Seq(Pcbs) /\ p \notin Range(<<>>)
      BY EmptySeq, EmptyLists
    <3> QED
      BY <3>1, WithoutLists
  <2>4. ASSUME NEW x \in Pcbs, x \in Range(w[pcbFree_h])
        PROVE  p_parent'[x] = NULL /\ w[p_child(x)] = <<>>
    <3>1. v[p_child(x)] = <<>> /\ (x # p => p_parent[x] = NULL)
      BY <1>0, <1>2, <1>16, <2>4 DEF TreeInv
    <3> QED
      BY <1>9, <1>15, <2>1, <2>3, <3>1
  <2> QED
    BY <2>1, <2>2, <2>4 DEF TreeInv
<1>19. w = Now'
  BY <1>13, NextIs
<1>20. ListsInv'
  BY <1>13, <1>17, <1>18, <1>19 DEF ListsInv
<1>21. Mapping'
  BY <1>20, MappedNext
<1>22. /\ Queue(pcbFree_h)' = <<p>> \o Queue(pcbFree_h)
       /\ Queue(readyQueue)' = Without(Queue(readyQueue), p)
  <2>1. /\ Queue(pcbFree_h)' = w[pcbFree_h] /\ Queue(readyQueue)' = w[readyQueue]
        /\ Queue(pcbFree_h) = v[pcbFree_h] /\ Queue(readyQueue) = v[readyQueue]
    BY <1>0, <1>19, <1>21, WhatLists DEF Mapping, v
  <2> QED
    BY <1>14, <1>15, <2>1
<1>23. Active' = Active /\ \A s : Found(s)' = Found(s)
  BY <1>0, <1>1, <1>15, <1>19, <1>21, AslStays DEF v
<1>24. Blocked' = [s \in Sems |-> Without(Blocked[s], p)]
  <2>1. ASSUME NEW s \in Sems PROVE Blocked'[s] = Without(Blocked[s], p)
    <3>1. CASE Found(s) = {}
      <4>1. Blocked[s] = <<>> /\ Blocked'[s] = <<>>
        BY <1>0, <1>21, <1>23, <3>1 DEF Mapping
      <4>2. <<>> \in Seq(Pcbs) /\ p \notin Range(<<>>)
        BY EmptySeq, EmptyLists
      <4> QED
        BY <4>1, <4>2, WithoutLists
    <3>2. CASE Found(s) # {}
      <4>1. PICK d : d \in Found(s)
        BY <3>2
      <4>2. d \in Semds /\ s_key[d] = s /\ d \in Range(v[semd_h])
        BY <1>0, <4>1 DEF Mapping, v
      <4>3. Blocked[s] = v[s_procq(d)] /\ Blocked'[s] = w[s_procq(d)]
        BY <1>0, <1>1, <1>15, <1>19, <1>21, <4>2 DEF Mapping, v
      <4> QED
        BY <1>9, <1>15, <4>2, <4>3
    <3> QED
      BY <3>1, <3>2
  <2>2. Blocked' = [s \in Sems |-> Blocked'[s]]
    BY <1>21 DEF Mapping
  <2> QED
    BY <2>1, <2>2
<1>25. Children' = [q \in Pcbs |-> Without(Children[q], p)] /\ Children[p] = <<>>
  <2>1. /\ Children = [x \in Pcbs |-> v[p_child(x)]]
        /\ Children' = [x \in Pcbs |-> w[p_child(x)]]
    BY <1>0, <1>19, <1>21 DEF Mapping, v
  <2> QED
    BY <1>2, <1>9, <1>15, <2>1
<1>26. p \in Lists!Used
  BY <1>0, <1>1, HeldMaps DEF v
<1>27. Lists!Retire(p)
  BY <1>1, <1>22, <1>23, <1>24, <1>25, <1>26, SameOperators DEF Lists!Retire
<1> QED
  BY <1>20, <1>27
-----------------------------------------------------------------------------
(* The first state: two lists of everything, and no other.                  *)

(* Every node is linked as the pairs say.                                   *)
Linkage(l, pairs) ==
  /\ l.next = [n \in Nodes |-> (CHOOSE r \in pairs : r[1] = n)[2]]
  /\ l.prev = [n \in Nodes |-> (CHOOSE r \in pairs : r[2] = n)[1]]

(* Pairs that pair every node with one node each way are a ring.            *)
LEMMA PairsRing ==
  ASSUME NEW pairs, pairs \subseteq Nodes \X Nodes, NEW l,
         \A r, s \in pairs : (r[1] = s[1] => r = s) /\ (r[2] = s[2] => r = s),
         \A n \in Nodes : (\E r \in pairs : r[1] = n) /\ (\E r \in pairs : r[2] = n),
         Linkage(l, pairs)
  PROVE  Rings(l) /\ \A r \in pairs : l.next[r[1]] = r[2]
<1>1. ASSUME NEW n \in Nodes
      PROVE  /\ l.next[n] \in Nodes /\ l.prev[n] \in Nodes
             /\ \E r \in pairs : r[1] = n /\ r[2] = l.next[n]
             /\ \E r \in pairs : r[2] = n /\ r[1] = l.prev[n]
  <2> DEFINE a == CHOOSE r \in pairs : r[1] = n
             b == CHOOSE r \in pairs : r[2] = n
  <2>1. a \in pairs /\ a[1] = n
    <3>1. \E r \in pairs : r[1] = n
      OBVIOUS
    <3> QED
      BY <3>1
  <2>2. b \in pairs /\ b[2] = n
    <3>1. \E r \in pairs : r[2] = n
      OBVIOUS
    <3> QED
      BY <3>1
  <2>3. l.next[n] = a[2] /\ l.prev[n] = b[1]
    BY DEF Linkage
  <2> HIDE DEF a, b
  <2>4. a[2] \in Nodes /\ b[1] \in Nodes
    BY <2>1, <2>2
  <2> QED
    BY <2>1, <2>2, <2>3, <2>4
<1>2. ASSUME NEW r \in pairs PROVE l.next[r[1]] = r[2] /\ l.prev[r[2]] = r[1]
  <2>1. r[1] \in Nodes /\ r[2] \in Nodes
    OBVIOUS
  <2>2. PICK s \in pairs : s[1] = r[1] /\ s[2] = l.next[r[1]]
    BY <1>1, <2>1
  <2>3. PICK t \in pairs : t[2] = r[2] /\ t[1] = l.prev[r[2]]
    BY <1>1, <2>1
  <2>4. s = r /\ t = r
    BY <2>2, <2>3
  <2> QED
    BY <2>2, <2>3, <2>4
<1>3. l.next \in [Nodes -> Nodes] /\ l.prev \in [Nodes -> Nodes]
  <2>1. /\ l.next = [n \in Nodes |-> l.next[n]]
        /\ l.prev = [n \in Nodes |-> l.prev[n]]
    BY DEF Linkage
  <2> QED
    BY <1>1, <2>1
<1>4. \A n \in Nodes : l.prev[l.next[n]] = n /\ l.next[l.prev[n]] = n
  <2> TAKE n \in Nodes
  <2>1. PICK r \in pairs : r[1] = n /\ r[2] = l.next[n]
    BY <1>1
  <2>2. PICK s \in pairs : s[2] = n /\ s[1] = l.prev[n]
    BY <1>1
  <2>3. l.prev[r[2]] = r[1] /\ l.next[s[1]] = s[2]
    BY <1>2
  <2> QED
    BY <2>1, <2>2, <2>3
<1> QED
  BY <1>2, <1>3, <1>4 DEF Rings

(* An order of a finite set names every element once.                       *)
LEMMA OrderShape ==
  ASSUME NEW S, IsFiniteSet(S), NEW c \in Orders(S)
  PROVE  c \in Seq(S) /\ IsInjective(c) /\ Range(c) = S /\ DOMAIN c = 1..Len(c)
<1> DEFINE n == Cardinality(S)
<1>1. n \in Nat /\ c \in [1..n -> S] /\ Range(c) = S
  BY FS_CardinalityType DEF Orders
<1> HIDE DEF n
<1>2. IsFiniteSet(1..n) /\ Cardinality(1..n) = n
  BY <1>1, Positions
<1>3. c \in Surjection(1..n, S)
  <2>1. \A x \in S : \E i \in 1..n : c[i] = x
    BY <1>1 DEF Range
  <2> QED
    BY <1>1, <2>1 DEF Surjection
<1>4. c \in Injection(1..n, S)
  <2>1. Cardinality(S) = n
    BY DEF n
  <2> QED
    BY <1>2, <1>3, <2>1, FS_Surjection
<1>5. c \in Seq(S)
  BY <1>1
<1>6. IsInjective(c)
  BY <1>4 DEF Injection
<1> QED
  BY <1>1, <1>5, <1>6, SequenceShape

(* The entries called t of the structures of an order.                      *)
Named(t, c) == [i \in DOMAIN c |-> <<t, c[i]>>]

(* They are all the entries of that name, and lead back to the order.       *)
LEMMA EntriesOf ==
  ASSUME NEW t, NEW S, NEW P, Fields(P, t, S), NEW c \in Seq(S), IsInjective(c), Range(c) = S
  PROVE  /\ Named(t, c) \in Seq(P) /\ IsInjective(Named(t, c)) /\ Range(Named(t, c)) = P
         /\ Containers(Named(t, c)) = c
<1> DEFINE n == Len(c)
           a == Named(t, c)
<1>1. /\ n \in Nat /\ DOMAIN c = 1..n /\ c \in [1..n -> S]
      /\ \A i, j \in 1..n : c[i] = c[j] => i = j
      /\ \A x \in S : \E i \in 1..n : x = c[i]
  BY SequenceShape
<1> HIDE DEF n
<1>0. a = [i \in 1..n |-> <<t, c[i]>>] /\ (\A y \in P : y[2] \in S /\ y = <<t, y[2]>>)
      /\ \A x \in S : <<t, x>> \in P
  BY <1>1 DEF Named, Fields
<1> HIDE DEF a
<1>2. \A i \in 1..n : a[i] = <<t, c[i]>> /\ a[i] \in P /\ a[i][2] = c[i]
  BY <1>0, <1>1
<1>3. a \in [1..n -> P]
  BY <1>0, <1>2
<1>4. a \in Seq(P) /\ DOMAIN a = 1..n
  BY <1>1, <1>3
<1>5. \A i, j \in 1..n : a[i] = a[j] => i = j
  BY <1>1, <1>2
<1>6. ASSUME NEW y \in P PROVE \E i \in 1..n : a[i] = y
  <2>1. y[2] \in S /\ y = <<t, y[2]>>
    BY <1>0
  <2>2. PICK i \in 1..n : y[2] = c[i]
    BY <1>1, <2>1
  <2> QED
    BY <1>2, <2>1, <2>2
<1>7. IsInjective(a) /\ Range(a) = P
  <2>1. IsInjective(a)
    BY <1>4, <1>5 DEF IsInjective
  <2>2. \A y : y \in Range(a) <=> \E i \in 1..n : a[i] = y
    BY <1>4 DEF Range
  <2>3. \A i \in 1..n : a[i] \in P
    BY <1>2
  <2>4. \A y : y \in Range(a) <=> y \in P
    BY <1>6, <2>2, <2>3
  <2> QED
    BY <2>1, <2>4
<1>8. Containers(a) = c
  <2>1. Containers(a) = [i \in 1..n |-> a[i][2]]
    BY <1>3 DEF Containers
  <2>2. c = [i \in 1..n |-> c[i]]
    BY <1>1
  <2> QED
    BY <1>2, <2>1, <2>2
<1> QED
  BY <1>4, <1>7, <1>8 DEF a
Follow(head, q, i) == IF i = Len(q) THEN head ELSE q[i + 1]

(* The pairs of a ring, place by place.                                     *)
LEMMA LinkedPairs ==
  ASSUME NEW h, NEW P, NEW q \in Seq(P)
  PROVE  \A r : r \in Linked(h, q)
                  <=> \E i \in 0..Len(q) : r = <<Spot(h, q, i), Follow(h, q, i)>>
<1> DEFINE n == Len(q)
           ring == [i \in 0..n + 1 |-> IF i \in DOMAIN q THEN q[i] ELSE h]
<1>1. n \in Nat /\ DOMAIN q = 1..n
  BY SequenceShape
<1>2. ASSUME NEW i \in 0..n
      PROVE  ring[i] = Spot(h, q, i) /\ ring[i + 1] = Follow(h, q, i)
  <2> HIDE DEF n
  <2>1. /\ i \in 0..n + 1 /\ i + 1 \in 0..n + 1
        /\ i \in 1..n <=> i # 0
        /\ i + 1 \in 1..n <=> i # n
    BY <1>1
  <2>2. ring[i] = Spot(h, q, i)
    BY <1>1, <2>1 DEF Spot
  <2>3. ring[i + 1] = Follow(h, q, i)
    BY <1>1, <2>1 DEF Follow, n
  <2> QED
    BY <2>2, <2>3
<1>3. Linked(h, q) = {<<ring[i], ring[i + 1]>> : i \in 0..n}
  BY DEF Linked
<1> HIDE DEF ring
<1> QED
  BY <1>2, <1>3

(* Among nodes, every one on the ring of q follows and is followed once.    *)
Circle(h, q, Z) ==
  /\ \A i \in 0..Len(q) : Spot(h, q, i) \in Z /\ Follow(h, q, i) \in Z
  /\ \A i, j \in 0..Len(q) : Spot(h, q, i) = Spot(h, q, j) => i = j
  /\ \A i, j \in 0..Len(q) : Follow(h, q, i) = Follow(h, q, j) => i = j
  /\ \A i \in 0..Len(q) : \E j \in 0..Len(q) : Spot(h, q, i) = Follow(h, q, j)
  /\ \A i \in 0..Len(q) : \E j \in 0..Len(q) : Follow(h, q, i) = Spot(h, q, j)

(* Among nodes, every one on the ring of q follows and is followed once.    *)
LEMMA RingPlaces ==
  ASSUME NEW h, NEW P, NEW q \in Seq(P), IsInjective(q), h \notin P,
         NEW Z, Z = {h} \cup P
  PROVE  Circle(h, q, Z)
<1> DEFINE n == Len(q)
<1>1. /\ n \in Nat
      /\ \A i \in 1..n : q[i] \in P /\ q[i] # h
      /\ \A i, j \in 1..n : q[i] = q[j] => i = j
  BY SequenceShape
<1> HIDE DEF n
<1> DEFINE next(i) == IF i = n THEN 0 ELSE i + 1
           back(i) == IF i = 0 THEN n ELSE i - 1
<1>2. \A i \in 0..n : /\ next(i) \in 0..n /\ back(i) \in 0..n
                      /\ next(back(i)) = i /\ \A j \in 0..n : next(i) = next(j) => i = j
                      /\ i # 0 => i \in 1..n
  BY <1>1
<1>3. \A i \in 0..n : Follow(h, q, i) = Spot(h, q, next(i))
  BY <1>1 DEF Follow, Spot, n
<1>4. \A i \in 0..n : /\ Spot(h, q, i) \in Z
                      /\ \A j \in 0..n : Spot(h, q, i) = Spot(h, q, j) => i = j
  BY <1>1, <1>2 DEF Spot
<1> HIDE DEF next, back
<1>5. \A i \in 0..n : Spot(h, q, i) \in Z /\ Follow(h, q, i) \in Z
  BY <1>2, <1>3, <1>4
<1>6. \A i, j \in 0..n : Spot(h, q, i) = Spot(h, q, j) => i = j
  BY <1>4
<1>7. \A i, j \in 0..n : Follow(h, q, i) = Follow(h, q, j) => i = j
  BY <1>2, <1>3, <1>4
<1>8. \A i \in 0..n : \E j \in 0..n : Spot(h, q, i) = Follow(h, q, j)
  <2>1. \A i \in 0..n : back(i) \in 0..n /\ Spot(h, q, i) = Follow(h, q, back(i))
    BY <1>2, <1>3
  <2> QED
    BY <2>1
<1>9. \A i \in 0..n : \E j \in 0..n : Follow(h, q, i) = Spot(h, q, j)
  <2>1. \A i \in 0..n : next(i) \in 0..n /\ Follow(h, q, i) = Spot(h, q, next(i))
    BY <1>2, <1>3
  <2> QED
    BY <2>1
<1> QED
  BY <1>5, <1>6, <1>7, <1>8, <1>9 DEF Circle, n

(* The pairs of T pair every node of Z they name with one each way.         *)
Ends(T, Z) ==
  /\ \A r \in T : /\ r = <<r[1], r[2]>> /\ r[1] \in Z /\ r[2] \in Z
                  /\ \E s \in T : s[2] = r[1]
                  /\ \E s \in T : s[1] = r[2]
  /\ \A r, s \in T : (r[1] = s[1] => r = s) /\ (r[2] = s[2] => r = s)

(* The pairs of a ring name every node of it once each way.                 *)
LEMMA RingEnds ==
  ASSUME NEW h, NEW P, NEW q \in Seq(P), IsInjective(q), h \notin P,
         NEW Z, Z = {h} \cup P
  PROVE  /\ Ends(Linked(h, q), Z)
         /\ \A i \in 0..Len(q) : \E r \in Linked(h, q) :
              r[1] = Spot(h, q, i) /\ r[2] = Follow(h, q, i)
<1> DEFINE R == Linked(h, q)
<1>1. \A r : r \in R <=> \E i \in 0..Len(q) : r = <<Spot(h, q, i), Follow(h, q, i)>>
  BY LinkedPairs
<1>2. Circle(h, q, Z)
  BY RingPlaces
<1> USE DEF Circle
<1> HIDE DEF R
<1>3. \A i \in 0..Len(q) : <<Spot(h, q, i), Follow(h, q, i)>> \in R
  BY <1>1
<1>4. ASSUME NEW r \in R
      PROVE  /\ r = <<r[1], r[2]>> /\ r[1] \in Z /\ r[2] \in Z
             /\ \E s \in R : s[2] = r[1]
             /\ \E s \in R : s[1] = r[2]
             /\ \A s \in R : (r[1] = s[1] => r = s) /\ (r[2] = s[2] => r = s)
  <2>1. PICK i \in 0..Len(q) : r = <<Spot(h, q, i), Follow(h, q, i)>>
    BY <1>1
  <2>2. PICK j \in 0..Len(q) : Spot(h, q, i) = Follow(h, q, j)
    BY <1>2
  <2>3. PICK k \in 0..Len(q) : Follow(h, q, i) = Spot(h, q, k)
    BY <1>2
  <2>4. ASSUME NEW s \in R PROVE (r[1] = s[1] => r = s) /\ (r[2] = s[2] => r = s)
    <3>1. PICK m \in 0..Len(q) : s = <<Spot(h, q, m), Follow(h, q, m)>>
      BY <1>1
    <3>2. (r[1] = s[1] => i = m) /\ (r[2] = s[2] => i = m)
      BY <1>2, <2>1, <3>1
    <3> QED
      BY <2>1, <3>1, <3>2
  <2>5. r = <<r[1], r[2]>> /\ r[1] \in Z /\ r[2] \in Z
    BY <1>2, <2>1
  <2>6. /\ \E s \in R : s[2] = r[1]
        /\ \E s \in R : s[1] = r[2]
    <3>1. <<Spot(h, q, j), Follow(h, q, j)>>[2] = r[1]
      BY <2>1, <2>2
    <3>2. <<Spot(h, q, k), Follow(h, q, k)>>[1] = r[2]
      BY <2>1, <2>3
    <3> QED
      BY <1>3, <3>1, <3>2
  <2> QED
    BY <2>4, <2>5, <2>6
<1>5. Ends(R, Z)
  BY <1>4 DEF Ends
<1>6. \A i \in 0..Len(q) : \E r \in R : r[1] = Spot(h, q, i) /\ r[2] = Follow(h, q, i)
  BY <1>3
<1> QED
  BY <1>5, <1>6 DEF R

(* initPcbs and initASL leave two full lists, and nothing in the others.    *)
LEMMA FirstLaid ==
  ASSUME NEW ps \in Orders(Pcbs), NEW ds \in Orders(Semds), NEW l,
         Linkage(l, Followed(ps, ds))
  PROVE  \E v : /\ Holds(l, v) /\ v[pcbFree_h] = ps /\ v[semdFree_h] = ds
                /\ \A h \in Heads : h # pcbFree_h /\ h # semdFree_h => v[h] = <<>>
<1> DEFINE A == {"p_list"} \X Pcbs
           B == {"s_link"} \X Semds
           a == Named("p_list", ps)
           b == Named("s_link", ds)
           rings == Linked(pcbFree_h, a) \cup Linked(semdFree_h, b)
           others == Nodes \ {r[1] : r \in rings}
           pairs == Followed(ps, ds)
           c == [h \in Heads |-> IF h = pcbFree_h THEN a
                                 ELSE IF h = semdFree_h THEN b ELSE <<>>]
<1>1. ps \in Seq(Pcbs) /\ IsInjective(ps) /\ Range(ps) = Pcbs
      /\ ds \in Seq(Semds) /\ IsInjective(ds) /\ Range(ds) = Semds
  BY OrderShape, ListsAssumption
<1>2. a \in Seq(A) /\ IsInjective(a) /\ Range(a) = A /\ Containers(a) = ps
  <2>1. Fields(A, "p_list", Pcbs)
    BY DEF Fields
  <2> QED
    BY <1>1, <2>1, EntriesOf
<1>3. b \in Seq(B) /\ IsInjective(b) /\ Range(b) = B /\ Containers(b) = ds
  <2>1. Fields(B, "s_link", Semds)
    BY DEF Fields
  <2> QED
    BY <1>1, <2>1, EntriesOf
<1>4. pairs = rings \cup {<<n, n>> : n \in others}
  BY DEF Followed, Named, p_list, s_link
<1>5. /\ A \subseteq Entries /\ B \subseteq Entries /\ A \cap B = {}
      /\ pcbFree_h \notin A /\ semdFree_h \notin B
      /\ ({pcbFree_h} \cup A) \cap ({semdFree_h} \cup B) = {}
      /\ pcbFree_h \in Nodes /\ semdFree_h \in Nodes /\ A \subseteq Nodes /\ B \subseteq Nodes
  <2>1. A \subseteq Entries /\ B \subseteq Entries /\ A \cap B = {}
    BY DEF Entries
  <2> HIDE DEF A, B
  <2> QED
    BY <2>1, NodeNames, HeadsApart
<1> HIDE DEF A, B, a, b
<1> DEFINE R == Linked(pcbFree_h, a)
           S == Linked(semdFree_h, b)
           X == {pcbFree_h} \cup A
           Y == {semdFree_h} \cup B
<1>9. /\ Ends(R, X)
      /\ \A i \in 0..Len(a) : \E r \in R :
           r[1] = Spot(pcbFree_h, a, i) /\ r[2] = Follow(pcbFree_h, a, i)
  <2> DEFINE Z == X
  <2>1. Z = {pcbFree_h} \cup A
    OBVIOUS
  <2> HIDE DEF Z
  <2>2. Ends(R, Z) /\ \A i \in 0..Len(a) : \E r \in R :
           r[1] = Spot(pcbFree_h, a, i) /\ r[2] = Follow(pcbFree_h, a, i)
    BY <1>2, <1>5, <2>1, RingEnds
  <2> QED
    BY <2>2 DEF Z
<1>10. /\ Ends(S, Y)
       /\ \A i \in 0..Len(b) : \E r \in S :
            r[1] = Spot(semdFree_h, b, i) /\ r[2] = Follow(semdFree_h, b, i)
  <2> DEFINE Z == Y
  <2>1. Z = {semdFree_h} \cup B
    OBVIOUS
  <2> HIDE DEF Z
  <2>2. Ends(S, Z) /\ \A i \in 0..Len(b) : \E r \in S :
           r[1] = Spot(semdFree_h, b, i) /\ r[2] = Follow(semdFree_h, b, i)
    BY <1>3, <1>5, <2>1, RingEnds
  <2> QED
    BY <2>2 DEF Z
<1>11. X \subseteq Nodes /\ Y \subseteq Nodes /\ X \cap Y = {}
  BY <1>5
<1>12. Rings(l) /\ \A r \in pairs : l.next[r[1]] = r[2]
  <2> HIDE DEF R, S, X, Y
  <2> USE DEF Ends
  <2>1. /\ \A n : n \in others <=> n \in Nodes /\ ~\E r \in rings : r[1] = n
        /\ rings = R \cup S
    BY DEF R, S
  <2>2. \A r : r \in pairs <=> r \in R \/ r \in S \/ \E n \in others : r = <<n, n>>
    BY <1>4, <2>1
  <2> HIDE DEF others, rings, pairs
  <2>3. pairs \subseteq Nodes \X Nodes
    BY <1>9, <1>10, <1>11, <2>1, <2>2
  <2>4. ASSUME NEW r \in pairs, NEW s \in pairs
        PROVE  (r[1] = s[1] => r = s) /\ (r[2] = s[2] => r = s)
    <3>1. \A n \in others : \A u \in R \cup S : u[1] # n /\ u[2] # n
      BY <1>9, <1>10, <2>1
    <3>2. CASE r \in R
      BY <1>9, <1>10, <1>11, <2>2, <3>1, <3>2
    <3>3. CASE r \in S
      BY <1>9, <1>10, <1>11, <2>2, <3>1, <3>3
    <3>4. CASE \E n \in others : r = <<n, n>>
      <4>1. PICK n \in others : r = <<n, n>>
        BY <3>4
      <4>2. CASE s \in R \cup S
        BY <3>1, <4>1, <4>2
      <4>3. CASE \E m \in others : s = <<m, m>>
        BY <4>1, <4>3
      <4> QED
        BY <2>2, <4>2, <4>3
    <3> QED
      BY <2>2, <3>2, <3>3, <3>4
  <2>5. ASSUME NEW n \in Nodes PROVE (\E r \in pairs : r[1] = n) /\ (\E r \in pairs : r[2] = n)
    <3>1. CASE n \in others
      <4>1. <<n, n>> \in pairs
        BY <2>2, <3>1
      <4> QED
        BY <4>1
    <3>2. CASE n \notin others
      BY <1>9, <1>10, <2>1, <2>2, <3>2
    <3> QED
      BY <3>1, <3>2
  <2>6. Linkage(l, pairs)
    BY DEF pairs
  <2> QED
    BY <2>3, <2>4, <2>5, <2>6, PairsRing
<1>13. \A n \in Nodes : n \notin X /\ n \notin Y => l.next[n] = n
  <2> HIDE DEF R, S, X, Y
  <2> USE DEF Ends
  <2>1. ASSUME NEW n \in Nodes, n \notin X, n \notin Y PROVE l.next[n] = n
    <3>1. \A r \in rings : r[1] # n
      BY <1>9, <1>10, <2>1 DEF R, S
    <3>2. n \in others
      BY <3>1
    <3>3. <<n, n>> \in pairs
      BY <1>4, <3>2
    <3> QED
      BY <1>12, <3>3
  <2> QED
    BY <2>1
<1>14. Ring(l, pcbFree_h, a) /\ Ring(l, semdFree_h, b)
  <2>1. \A i \in 0..Len(a) : l.next[Spot(pcbFree_h, a, i)] = Follow(pcbFree_h, a, i)
    <3>1. \A r \in R : r \in pairs
      BY <1>4
    <3> QED
      BY <1>9, <1>12, <3>1
  <2>2. \A i \in 0..Len(b) : l.next[Spot(semdFree_h, b, i)] = Follow(semdFree_h, b, i)
    <3>1. \A r \in S : r \in pairs
      BY <1>4
    <3> QED
      BY <1>10, <1>12, <3>1
  <2> QED
    BY <2>1, <2>2 DEF Ring, Follow
<1>15. ASSUME NEW h \in Heads, h # pcbFree_h, h # semdFree_h
       PROVE  <<>> \in Seq(Fits(h)) /\ IsInjective(<<>>) /\ Ring(l, h, <<>>)
  <2>1. <<>> \in Seq(Fits(h)) /\ Len(<<>>) = 0 /\ IsInjective(<<>>)
    BY EmptySeq, EmptyLists
  <2>2. h \in Nodes /\ h \notin X /\ h \notin Y
    BY <1>5, <1>15, NodeNames
  <2>3. l.next[h] = h
    BY <1>13, <2>2
  <2>4. ASSUME NEW q, Len(q) = 0 PROVE Ring(l, h, q)
    BY <2>3, <2>4 DEF Ring, Spot
  <2> QED
    BY <2>1, <2>4
<1> HIDE DEF X, Y, R, S
<1>16. /\ c[pcbFree_h] = a /\ c[semdFree_h] = b
       /\ \A h \in Heads : h # pcbFree_h /\ h # semdFree_h => c[h] = <<>>
       /\ DOMAIN c = Heads /\ c = [h \in Heads |-> c[h]]
  BY HeadsApart, WhatLists
<1> HIDE DEF c
<1>17. Fits(pcbFree_h) = A /\ Fits(semdFree_h) = B
  BY WhatFits DEF A, B
<1>18. ASSUME NEW h \in Heads PROVE List(l, h, c[h]) /\ c[h] \in Seq(Entries)
  <2>1. List(l, h, c[h])
    <3>1. CASE h = pcbFree_h
      BY <1>2, <1>14, <1>16, <1>17, <3>1 DEF List
    <3>2. CASE h = semdFree_h
      BY <1>3, <1>14, <1>16, <1>17, <3>2 DEF List
    <3>3. CASE h # pcbFree_h /\ h # semdFree_h
      BY <1>15, <1>16, <3>3 DEF List
    <3> QED
      BY <3>1, <3>2, <3>3
  <2>2. c[h] \in Seq(Fits(h)) /\ Fits(h) \subseteq Entries
    BY <2>1, WhatFits DEF List
  <2> QED
    BY <2>1, <2>2
<1>19. Range(<<>>) = {}
  BY EmptyLists, EmptySeq
<1>20. \A h, g \in Heads : h # g => Range(c[h]) \cap Range(c[g]) = {}
  BY <1>2, <1>3, <1>5, <1>16, <1>19
<1>21. ASSUME NEW n \in Entries, n \notin Listing(c) PROVE Single(l, n)
  <2>1. A \subseteq Listing(c) /\ B \subseteq Listing(c)
    BY <1>2, <1>3, <1>16, WhatLists DEF Listing
  <2>2. n \in Nodes /\ n \notin X /\ n \notin Y
    BY <1>21, <2>1, NodeNames DEF X, Y
  <2> QED
    BY <1>13, <2>2 DEF Single
<1>22. Laid(l, c)
  <2>1. c \in [Heads -> Seq(Entries)]
    BY <1>16, <1>18
  <2> QED
    BY <1>12, <1>18, <1>20, <1>21, <2>1 DEF Laid
<1>23. /\ View(c)[pcbFree_h] = ps /\ View(c)[semdFree_h] = ds
       /\ \A h \in Heads : h # pcbFree_h /\ h # semdFree_h => View(c)[h] = <<>>
  <2>1. \A h \in Heads : View(c)[h] = Containers(c[h])
    BY DEF View
  <2>2. Containers(<<>>) = <<>>
    <3>1. <<>> \in Seq(A) /\ Len(<<>>) = 0 /\ Fields(A, "p_list", Pcbs)
      BY EmptySeq DEF Fields, A
    <3> DEFINE q == <<>>
    <3>2. q \in Seq(A) /\ Len(q) = 0 /\ Fields(A, "p_list", Pcbs)
      BY <3>1
    <3> HIDE DEF q
    <3>3. Containers(q) \in Seq(Pcbs) /\ Len(Containers(q)) = 0
      BY <3>2, ContainersLists
    <3>4. Containers(q) = <<>>
      BY <3>3, EmptySeq
    <3> QED
      BY <3>4 DEF q
  <2> QED
    BY <1>2, <1>3, <1>16, <2>1, <2>2, WhatLists
<1> QED
  BY <1>22, <1>23 DEF Holds
-----------------------------------------------------------------------------
(* The first state, the steps, and what follows for every behaviour.        *)

(* initPcbs and initASL lay everything out as the promises start.           *)
LEMMA InitStep == Init => ListsInv /\ Lists!Init
<1> SUFFICES ASSUME Init PROVE ListsInv /\ Lists!Init
  OBVIOUS
<1>1. PICK ps \in Orders(Pcbs), ds \in Orders(Semds) : Linkage(links, Followed(ps, ds))
  BY DEF Init, Linkage
<1>2. /\ s_key = [d \in Semds |-> NULL]
      /\ p_semAdd = [p \in Pcbs |-> NULL]
      /\ p_parent = [p \in Pcbs |-> NULL]
  BY DEF Init
<1>3. PICK v : /\ Holds(links, v) /\ v[pcbFree_h] = ps /\ v[semdFree_h] = ds
               /\ \A h \in Heads : h # pcbFree_h /\ h # semdFree_h => v[h] = <<>>
  BY <1>1, FirstLaid
<1>4. v = Now
  BY <1>3, NowIs
<1>5. /\ Now[semd_h] = <<>> /\ Now[readyQueue] = <<>> /\ Now[semdFree_h] = ds
      /\ \A d \in Semds : Now[s_procq(d)] = <<>>
      /\ \A p \in Pcbs : Now[p_child(p)] = <<>>
  BY <1>3, <1>4, HeadsApart, WhatLists
<1>6. Range(<<>>) = {}
  BY EmptyLists, EmptySeq
<1>7. Range(ds) = Semds
  BY OrderShape, ListsAssumption
<1>8. SemdInv(Now, s_key, p_semAdd)
  <2>1. \A d \in Semds : d \notin Range(Now[semd_h])
    BY <1>5, <1>6
  <2>2. \A d \in Semds, p \in Pcbs : p \notin Range(Now[s_procq(d)])
    BY <1>5, <1>6
  <2>3. s_key \in [Semds -> Sems \cup {NULL}] /\ p_semAdd \in [Pcbs -> Sems \cup {NULL}]
    BY <1>2
  <2>4. \A d \in Semds : d \in Range(Now[semdFree_h])
    BY <1>5, <1>7
  <2> QED
    BY <2>1, <2>2, <2>3, <2>4 DEF SemdInv
<1>9. TreeInv(Now, p_parent)
  <2>1. \A p, q \in Pcbs : p \notin Range(Now[p_child(q)])
    BY <1>5, <1>6
  <2>2. p_parent \in [Pcbs -> Pcbs \cup {NULL}] /\ \A p \in Pcbs : p_parent[p] = NULL
    BY <1>2
  <2>3. \A p \in Pcbs : p_parent[p] \notin Pcbs
    BY <2>2, ListsAssumption
  <2> QED
    BY <1>5, <2>1, <2>2, <2>3 DEF TreeInv
<1>10. ListsInv
  BY <1>3, <1>4, <1>8, <1>9 DEF ListsInv
<1>11. Lists!Init
  <2>1. Mapping
    BY <1>10, Mapped
  <2>2. Queue(pcbFree_h) = ps /\ Queue(readyQueue) = <<>>
    BY <1>3, <1>4, <1>5, <2>1, WhatLists DEF Mapping
  <2>3. \A s : Found(s) = {}
    <3>1. \A s, d : d \notin Found(s)
      BY <1>5, <1>6, <2>1 DEF Mapping
    <3> QED
      BY <3>1
  <2>4. Blocked = [s \in Sems |-> <<>>]
    BY <2>3 DEF Blocked
  <2>5. Active = {}
    BY <2>3 DEF Active
  <2>6. Children = [p \in Pcbs |-> <<>>]
    BY <1>5, <2>1 DEF Mapping
  <2>7. /\ ps \in [1..Cardinality(Pcbs) -> Pcbs] /\ Range(ps) = Pcbs
    BY <1>1 DEF Orders
  <2>8. ps \in {c \in [1..Lists!Cardinality(Pcbs) -> Pcbs] : Lists!Range(c) = Pcbs}
    BY <2>7, SameOperators
  <2> QED
    BY <1>2, <2>2, <2>4, <2>5, <2>6, <2>8 DEF Lists!Init
<1> QED
  BY <1>10, <1>11

(* The promises as one state.                                               *)
Promised ==
  <<Queue(pcbFree_h), Queue(readyQueue), Blocked, Active, p_semAdd, Children, p_parent>>

(* A step that leaves memory alone leaves the lists alone.                  *)
LEMMA Stutters ==
  ListsInv /\ UNCHANGED vars => ListsInv' /\ Promised' = Promised
<1> SUFFICES ASSUME ListsInv, links' = links, s_key' = s_key, p_semAdd' = p_semAdd,
                    p_parent' = p_parent
             PROVE  ListsInv' /\ Promised' = Promised
  BY DEF vars
<1>1. Now' = Now
  BY DEF Now
<1>2. ListsInv'
  BY <1>1 DEF ListsInv
<1>3. Queue(pcbFree_h)' = Queue(pcbFree_h) /\ Queue(readyQueue)' = Queue(readyQueue)
  BY DEF Queue
<1>4. Blocked' = Blocked
  BY DEF Blocked, Found, Queue
<1>5. Active' = Active /\ Children' = Children
  BY DEF Active, Children, Found, Queue
<1> QED
  BY <1>2, <1>3, <1>4, <1>5 DEF Promised

(* Every step keeps the lists, and is one the promises allow.               *)
LEMMA NextStep ==
  ListsInv /\ [Next]_vars => ListsInv' /\ (Lists!Next \/ Promised' = Promised)
<1> SUFFICES ASSUME ListsInv, [Next]_vars
             PROVE  ListsInv' /\ (Lists!Next \/ Promised' = Promised)
  OBVIOUS
<1>1. Mapping /\ SemdInv(Now, s_key, p_semAdd)
  BY Mapped DEF ListsInv
<1>2. CASE Used = {} /\ CreateProcess(NULL)
  <2>1. ListsInv' /\ Lists!Create(NULL)
    BY <1>2, CreateStep
  <2> QED
    BY <2>1 DEF Lists!Next
<1>3. ASSUME NEW q \in Held, CreateProcess(q) PROVE ListsInv' /\ Lists!Next
  <2>1. ListsInv' /\ Lists!Create(q)
    BY <1>3, CreateStep
  <2>2. q \in Pcbs /\ q \in Used
    BY DEF Held, Used
  <2>3. q \in Lists!Used
    BY <1>1, <2>2, HeldMaps
  <2> QED
    BY <2>1, <2>3 DEF Lists!Next
<1>4. CASE Dequeue
  BY <1>4, DequeueStep DEF Lists!Next
<1>5. ASSUME NEW p \in Pcbs, Enqueue(p) \/ RemoveChild(p) \/ Retire(p)
      PROVE  ListsInv' /\ Lists!Next
  BY <1>5, EnqueueStep, RemoveChildStep, RetireStep DEF Lists!Next
<1>6. ASSUME NEW p \in Pcbs, NEW s \in Sems, InsertBlocked(s, p)
      PROVE  ListsInv' /\ Lists!Next
  BY <1>6, InsertBlockedStep DEF Lists!Next
<1>7. ASSUME NEW s \in Sems, RemoveBlocked(s) PROVE ListsInv' /\ Lists!Next
  BY <1>7, RemoveBlockedStep DEF Lists!Next
<1>8. CASE UNCHANGED vars
  BY <1>8, Stutters
<1> QED
  BY <1>2, <1>3, <1>4, <1>5, <1>6, <1>7, <1>8 DEF Next

(* The lists stay lists: nodes, keys and parents fit together in every      *)
(* state, whatever the sizes of the tables.                                 *)
THEOREM ListsInvariant == Spec => []ListsInv
<1>1. Init => ListsInv
  BY InitStep
<1>2. ListsInv /\ [Next]_vars => ListsInv'
  BY NextStep
<1> QED
  BY <1>1, <1>2, PTL DEF Spec

(* Every node is in a ring in both directions, at all times (listx.h).      *)
THEOREM RingsKept == Spec => []DoublyLinked
<1>1. ListsInv => DoublyLinked
  <2> SUFFICES ASSUME ListsInv PROVE DoublyLinked
    OBVIOUS
  <2>1. Rings(links)
    BY HoldsShape DEF ListsInv
  <2> QED
    BY <2>1 DEF Rings, DoublyLinked
<1> QED
  BY <1>1, ListsInvariant, PTL

(* The search of asl.c finds the descriptor of a semaphore, the one and only,*)
(* and the waiters in its queue are those whose p_semAdd is its key.        *)
THEOREM Finds == Spec => []DescriptorsFound
<1>1. ListsInv => DescriptorsFound
  <2> SUFFICES ASSUME ListsInv PROVE DescriptorsFound
    OBVIOUS
  <2>1. Holds(links, Now) /\ SemdInv(Now, s_key, p_semAdd)
    BY DEF ListsInv
  <2>2. ASSUME NEW d \in Semds
        PROVE  /\ s_link(d) \in Range(Chain(links, semd_h)) <=> d \in Range(Now[semd_h])
               /\ s_link(d) \in Range(Chain(links, semdFree_h)) <=> d \in Range(Now[semdFree_h])
    BY <2>1, HoldsShape, WhatLists DEF s_link
  <2>3. \A d \in Semds : d \in Range(Now[semd_h]) <=> d \notin Range(Now[semdFree_h])
    <3>1. Range(Now[semd_h]) \cap Range(Now[semdFree_h]) = {}
      BY <2>1, ListsApart
    <3> QED
      BY <2>1, <3>1 DEF SemdInv
  <2>4. ASSUME NEW d \in Semds, NEW p \in Range(Queue(s_procq(d)))
        PROVE  d \in Range(Now[semd_h]) /\ p_semAdd[p] = s_key[d]
    <3>1. Queue(s_procq(d)) = Now[s_procq(d)] /\ Now[s_procq(d)] \in Seq(Pcbs)
      BY <2>1, QueueIs, WhatLists, ListsApart
    <3>2. p \in Pcbs
      BY <3>1, SequenceShape
    <3> QED
      BY <2>1, <3>1, <3>2 DEF SemdInv
  <2>5. \A d, e \in Semds : d \in Range(Now[semd_h]) /\ e \in Range(Now[semd_h])
                              /\ s_key[d] = s_key[e] => d = e
    BY <2>1 DEF SemdInv
  <2> QED
    BY <2>2, <2>3, <2>4, <2>5 DEF DescriptorsFound
<1> QED
  BY <1>1, ListsInvariant, PTL

(* The lists of listx.h, pcb.c and asl.c keep the promises of ProcessLists:  *)
(* a queue of PCBs is a sequence in order of priority, a descriptor is there *)
(* for as long as someone waits, a process is with its parent.              *)
THEOREM PromisesKept == Spec => ListsSpec
<1>1. Init => Lists!Init
  BY InitStep
<1>2. ListsInv /\ [Next]_vars => [Lists!Next]_Promised
  BY NextStep
<1> QED
  BY <1>1, <1>2, ListsInvariant, PTL DEF Spec, ListsSpec, Lists!Spec, Lists!vars, Promised
=============================================================================

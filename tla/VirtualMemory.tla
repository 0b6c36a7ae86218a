---------------------------- MODULE VirtualMemory ----------------------------
(****************************************************************************)
(* What the pager promises the U-procs: every page of every address space   *)
(* keeps what its U-proc wrote there last, although there are more pages    *)
(* than frames.  The memory of an address space may also be lost, all of it *)
(* at once; Pager says when.                                                *)
(****************************************************************************)
CONSTANTS
  Asids,    \* the address spaces
  Mapped,   \* their pages <<a, p>>
  Values,   \* what a page may hold
  LOST      \* nothing is promised of the page any more

VARIABLE mem

Init == mem \in [Mapped -> Values]

Write(m, v) ==
  /\ mem[m] # LOST
  /\ mem' = [mem EXCEPT ![m] = v]

Lose(A) ==
  mem' = [m \in Mapped |-> IF m[1] \in A THEN LOST ELSE mem[m]]

Next ==
  \/ \E m \in Mapped, v \in Values : Write(m, v)
  \/ \E A \in SUBSET Asids : Lose(A)

Spec == Init /\ [][Next]_mem
=============================================================================

------------------------------- MODULE MCLists -------------------------------
(****************************************************************************)
(* The instance of LinkedLists for TLC: one PCB has a higher priority than  *)
(* the others, which are interchangeable, as the descriptors are.           *)
(****************************************************************************)
EXTENDS LinkedLists, TLC

CONSTANT urgent

TwoPriorities == [p \in Pcbs |-> IF p = urgent THEN 1 ELSE 0]

TableSymmetry ==
  {f @@ g @@ (urgent :> urgent) :
     f \in Permutations(Pcbs \ {urgent}), g \in Permutations(Semds)}
=============================================================================

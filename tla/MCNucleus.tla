------------------------------ MODULE MCNucleus ------------------------------
(* The nucleus on a few PCBs, priorities, semaphores and devices.           *)
EXTENDS Nucleus

(* The PCBs other than the root's are interchangeable.                      *)
PcbSymmetry == Permutations(Pcbs \ {rootProcess})
=============================================================================

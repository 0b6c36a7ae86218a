---------------------------- MODULE MCProcessor ----------------------------
(* Two U-procs and a process of the nucleus, with short programs that raise *)
(* every kind of exception.                                                 *)
EXTENDS Processor, TLC

CONSTANTS u1, u2, k

MCProgram ==
  u1 :> <<Load, Ecall(4), Ecall(PASSEREN)>> @@
  u2 :> <<Ecall(5), Ecall(6), [op |-> "illegal", a0 |-> 0]>> @@
  k  :> <<Ecall(GETTIME), Ecall(YIELD), Ecall(1)>>
============================================================================

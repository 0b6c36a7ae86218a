------------------------------ MODULE CallStacks ------------------------------
(****************************************************************************)
(* How exceptions look to the processes: each has a stack of activations,   *)
(* its own code at the bottom, a handler of the support level above it, the *)
(* pager above either.  An instruction that raises an exception is done     *)
(* again when it was a page fault, and is over when it was a call.  Where   *)
(* all these are kept while other processes run is not visible.             *)
(****************************************************************************)
EXTENDS Integers, Sequences

CONSTANTS
  Uprocs,           \* the processes with a support structure
  Kprocs,           \* those without one
  Code(_, _)        \* the instructions an activation of a process executes

Procs == Uprocs \cup Kprocs

(* What an instruction does: nothing special, an access to the memory of    *)
(* the U-proc, an exception of another kind, or the call of service a0.     *)
Plain    == [op |-> "plain", a0 |-> 0]
Load     == [op |-> "load",  a0 |-> 0]
Illegal  == [op |-> "illegal", a0 |-> 0]
Ecall(n) == [op |-> "ecall", a0 |-> n]

(* The services of the nucleus, the one nobody returns from, and what the   *)
(* support level serves and returns from.                                   *)
Nucleus     == -10..-1
TERMPROCESS == -2
Support     == {4, 5, 6}

VARIABLE stack     \* of every process that has not ended: its activations,
                   \* the running one first

Top(p)   == Head(stack[p])
Ended(p) == Top(p).pc = Len(Code(p, Top(p)))
Instr(p) == Code(p, Top(p))[Top(p).pc + 1]
Executes(p, op) == ~Ended(p) /\ Instr(p).op = op
Calls(p, services) == Executes(p, "ecall") /\ Instr(p).a0 \in services

(* In kernel mode: everything but a U-proc's own code.                      *)
Privileged(p) == p \in Kprocs \/ Top(p).level > 0

Advanced(p) == <<[Top(p) EXCEPT !.pc = @ + 1]>> \o Tail(stack[p])
Call(p, level, why, below) ==
  stack' = [stack EXCEPT ![p] = <<[level |-> level, pc |-> 0, why |-> why]>> \o below]

(* An instruction without an exception, or a service of the nucleus.        *)
Step(p) ==
  /\ \/ Executes(p, "plain") \/ Executes(p, "load")
     \/ Privileged(p) /\ Calls(p, Nucleus \ {TERMPROCESS})
  /\ stack' = [stack EXCEPT ![p] = Advanced(p)]

PageFault(p) ==
  /\ p \in Uprocs /\ Executes(p, "load")
  /\ Call(p, 2, Load, stack[p])

(* Everything else a U-proc does wrong or asks for.                         *)
PassUp(p) ==
  /\ p \in Uprocs /\ Top(p).level = 0
  /\ \/ Executes(p, "illegal") /\ Call(p, 1, Illegal, stack[p])
     \/ Calls(p, Support)      /\ Call(p, 1, Instr(p), Advanced(p))
     \/ /\ Executes(p, "ecall") /\ ~Calls(p, Support)
        /\ Call(p, 1, Illegal, Advanced(p))

Return(p) ==
  /\ Len(stack[p]) > 1 /\ Ended(p)
  /\ Top(p).why # Illegal
  /\ stack' = [stack EXCEPT ![p] = Tail(@)]

(* A process ends because it asks for that, in the handler of something     *)
(* nobody serves, or for want of a handler.                                 *)
End(p) ==
  /\ \/ Privileged(p) /\ Calls(p, {TERMPROCESS})
     \/ p \in Kprocs /\ Executes(p, "illegal")
     \/ p \in Kprocs /\ Executes(p, "ecall") /\ ~Calls(p, Nucleus)
  /\ stack' = [stack EXCEPT ![p] = <<>>]

Init == stack = [p \in Procs |-> <<[level |-> 0, pc |-> 0, why |-> Plain]>>]

(* (The first conjunct follows from any of the actions: it tells TLC at     *)
(* once whose step a step is.)                                              *)
Next ==
  \E p \in Procs :
    /\ stack'[p] # stack[p] /\ stack[p] # <<>>
    /\ Step(p) \/ PageFault(p) \/ PassUp(p) \/ Return(p) \/ End(p)

Spec == Init /\ [][Next]_stack
=============================================================================

------------------------------- MODULE Support -------------------------------
(****************************************************************************)
(* The support level (phase3/): test(), the shell and the programs it       *)
(* starts, and the handlers of sysSupport.c, over P, V, DOIO and the        *)
(* scheduler of the nucleus.                                                *)
(*                                                                          *)
(* All processes have priority 0, so the scheduler is a round robin: ready  *)
(* is the running process followed by the ready queue.  A handler of the    *)
(* support level runs with interrupts on; one action is its code between    *)
(* two calls of the nucleus.  The shell runs shell.c; a program makes any   *)
(* calls in any order.  Page faults are served by Pager; what is left of    *)
(* them here is that the access of a handler to its U-proc's memory may be  *)
(* the end of it (fatalFault).                                              *)
(****************************************************************************)
EXTENDS ProcessQueues

CONSTANTS
  test,        \* the process of the function test
  shell,       \* the U-proc with ASID 1
  Programs,    \* the other PCBs, for the programs the shell starts
  MaxLen       \* bound: the longest string written or read

Uprocs    == {shell} \cup Programs
Processes == {test} \cup Uprocs

Semaphores == {"masterSemaphore", "shellSemaphore", "termMutexTX", "termMutexRX"}

ASSUME ProcessesAssumption ==
  /\ test # shell /\ test \notin Programs /\ shell \notin Programs
  /\ Programs # {} /\ MaxLen \in Nat \ {0}

VARIABLES
  ready,     \* the running process, then the ready queue
  pc,        \* where each process is
  left,      \* the characters a call has still to write, or room for
  sem,       \* the values of the semaphores
  waiting,   \* the processes blocked on each
  ran,       \* the running process has made a step in its time slice
  device,    \* the processes waiting for an operation of the terminal
  line       \* where the shell is in shell.c, and what its last call returned

vars == <<ready, pc, left, sem, waiting, ran, device, line>>

(* Lines of shell.c: what is printed, read or called next.                  *)
Prints     == {"banner", "prompt", "help", "bye", "unknown", "notFound", "badStatus"}
ShellLines == Prints \cup {"read", "execute", "quit"}

(* Where a process is: not created, in its own code, or in a handler before *)
(* the call it names.                                                       *)
UserAt     == {"none", "user"}
WriteAt    == {"writeP", "write", "writeIO", "writeV", "writeFailV"}
ReadAt     == {"readP", "read", "readIO", "readV", "readFailV"}
ExecuteAt  == {"create", "executeP", "executed"}
EndAt      == {"signal", "terminate"}
TestAt     == {"launch", "masterP", "terminate"}

TypeOK ==
  /\ ready \in Seq(Processes)
  /\ pc \in [Processes -> UserAt \cup WriteAt \cup ReadAt \cup ExecuteAt
                          \cup EndAt \cup TestAt]
  /\ left \in [Uprocs -> 0..MaxLen]
  /\ sem \in [Semaphores -> Int]
  /\ waiting \in [Semaphores -> Seq(Processes)]
  /\ ran \in BOOLEAN
  /\ device \in SUBSET Uprocs
  /\ line \in ShellLines

(* test() has set the semaphores and is about to launch the shell.          *)
Init ==
  /\ ready = <<test>>
  /\ pc = [p \in Processes |-> IF p = test THEN "launch" ELSE "none"]
  /\ left = [p \in Uprocs |-> 0]
  /\ sem = [s \in Semaphores |->
              IF s \in {"termMutexTX", "termMutexRX"} THEN 1 ELSE 0]
  /\ waiting = [s \in Semaphores |-> <<>>]
  /\ ran = FALSE
  /\ device = {}
  /\ line = "banner"

-----------------------------------------------------------------------------
(* The nucleus.                                                             *)

Runs(p)           == ready # <<>> /\ Head(ready) = p
At(p, loc)        == Runs(p) /\ pc[p] = loc
Moves(p, from, to) == At(p, from) /\ pc' = [pc EXCEPT ![p] = to]

(* passeren and verhogen, called by the running process p.                  *)
P(p, s) ==
  /\ sem' = [sem EXCEPT ![s] = @ - 1]
  /\ IF sem[s] - 1 < 0
     THEN /\ waiting' = [waiting EXCEPT ![s] = Append(@, p)]
          /\ ready' = Tail(ready)
     ELSE UNCHANGED <<waiting, ready>>

V(s) ==
  /\ sem' = [sem EXCEPT ![s] = @ + 1]
  /\ IF waiting[s] # <<>>
     THEN /\ ready' = Append(ready, Head(waiting[s]))
          /\ waiting' = [waiting EXCEPT ![s] = Tail(@)]
     ELSE UNCHANGED <<waiting, ready>>

(* doIO by the running process p.                                           *)
DoIO(p) ==
  /\ device' = device \cup {p}
  /\ ready' = Tail(ready)

(* The end of a time slice: 5 ms, longer than any step of a handler, so the *)
(* running process has made one unless it computes in its own code.         *)
TimeSliceEnds ==
  /\ Len(ready) > 1
  /\ ran \/ pc[Head(ready)] = "user"
  /\ ready' = Append(Tail(ready), Head(ready))
  /\ ran' = FALSE
  /\ UNCHANGED <<pc, left, sem, waiting, device, line>>

(* The processes that end with p: all are descendants of test, the programs *)
(* those of the shell.                                                      *)
Subtree(p) == CASE p = test  -> Processes
                [] p = shell -> Uprocs
                [] OTHER     -> {p}

(* Mutant of TermProcess: the PCBs are not freed.                           *)
TermProcessLeak(p) ==
  LET out == Subtree(p)
  IN  /\ At(p, "terminate")
      /\ ready' = OutAllProcQ(ready, out)
      /\ waiting' = [s \in Semaphores |-> OutAllProcQ(waiting[s], out)]
      /\ device' = device \ out
      /\ UNCHANGED <<pc, left, sem, line>>

(* terminateProcess: a waiter gives its unit back.                          *)
TermProcess(p) ==
  LET out == Subtree(p)
      stay(s) == OutAllProcQ(waiting[s], out)
  IN  /\ At(p, "terminate")
      /\ pc' = [q \in Processes |-> IF q \in out THEN "none" ELSE pc[q]]
      /\ ready' = OutAllProcQ(ready, out)
      /\ sem' = [s \in Semaphores |-> sem[s] + Len(waiting[s]) - Len(stay(s))]
      /\ waiting' = [s \in Semaphores |-> stay(s)]
      /\ device' = device \ out
      /\ UNCHANGED <<left, line>>

(* The terminal ends an operation: a character is sent or was typed.        *)
TerminalDone(p) ==
  /\ p \in device
  /\ device' = device \ {p}
  /\ ready' = Append(ready, p)
  /\ UNCHANGED <<pc, left, sem, waiting, ran, line>>

-----------------------------------------------------------------------------
(* test() and the end of a U-proc.                                          *)

LaunchUproc ==
  /\ Runs(test) /\ pc[test] = "launch"
  /\ pc' = [pc EXCEPT ![test] = "masterP", ![shell] = "user"]
  /\ ready' = Append(ready, shell)
  /\ UNCHANGED <<left, sem, waiting, device, line>>

WaitForShell ==
  /\ Moves(test, "masterP", "terminate")
  /\ P(test, "masterSemaphore")
  /\ UNCHANGED <<left, device, line>>

(* Mutants of Signal: the V without a look at the ASID.                     *)
SignalMaster(p) ==
  /\ Moves(p, "signal", "terminate")
  /\ V("masterSemaphore")
  /\ UNCHANGED <<left, device, line>>
SignalShell(p) ==
  /\ Moves(p, "signal", "terminate")
  /\ V("shellSemaphore")
  /\ UNCHANGED <<left, device, line>>

(* sys2_terminate, programTrapHandler and fatalFault: the V before          *)
(* TERMPROCESS.                                                             *)
Signal(p) ==
  /\ Moves(p, "signal", "terminate")
  /\ V(IF p = shell THEN "masterSemaphore" ELSE "shellSemaphore")
  /\ UNCHANGED <<left, device, line>>

(* fatalFault in the U-proc's own code or while a handler looks at a string *)
(* of it; and a program trap.                                               *)
Fault(p) ==
  /\ pc[p] \in {"user", "write"} /\ Moves(p, pc[p], "signal")
  /\ pc[p] = "write" => left[p] > 0
  /\ UNCHANGED <<ready, left, sem, waiting, device, line>>

-----------------------------------------------------------------------------
(* The calls.                                                               *)

(* What shell.c does after a call, which may have failed: print() writes a  *)
(* message and terminates, a reading error terminates, a line typed is a    *)
(* command.                                                                 *)
AfterPrint(failed) ==
  CASE line = "badStatus"                -> {"quit"}
    [] line # "badStatus" /\ failed      -> {"badStatus"}
    [] line = "prompt" /\ ~failed        -> {"read"}
    [] line = "bye" /\ ~failed           -> {"quit"}
    [] line = "unknown" /\ ~failed       -> {"notFound"}
    [] OTHER                             -> {"prompt"}

AfterRead(failed) ==
  IF failed THEN {"quit"} ELSE {"prompt", "help", "bye", "unknown", "execute"}

ShellGoesOn(p, lines) == IF p = shell THEN line' \in lines ELSE UNCHANGED line

(* A call from the U-proc's code enters its handler, with its arguments     *)
(* checked: n characters to write, or room for n.                           *)
Call(p, to, n) ==
  /\ Moves(p, "user", to)
  /\ left' = [left EXCEPT ![p] = n]
  /\ UNCHANGED <<ready, sem, waiting, device, line>>

ShellCalls ==
  \/ line \in Prints /\ \E n \in 0..MaxLen : Call(shell, "writeP", n)
  \/ line = "read" /\ Call(shell, "readP", MaxLen)
  \/ line = "execute" /\ Call(shell, "create", 0)
  \/ line = "quit" /\ Call(shell, "signal", 0)

(* A program may do anything; SYS6, a bad argument and an unknown call end  *)
(* it like SYS2.                                                            *)
ProgramCalls(p) ==
  \/ \E n \in 0..MaxLen : Call(p, "writeP", n)
  \/ Call(p, "readP", MaxLen)
  \/ Call(p, "signal", 0)

(* P of a mutex or of shellSemaphore.                                       *)
Acquire(p, from, s, to) ==
  /\ Moves(p, from, to)
  /\ P(p, s)
  /\ UNCHANGED <<left, device, line>>

(* V of a mutex and LDST.                                                   *)
Release(p, from, s, lines) ==
  /\ Moves(p, from, "user")
  /\ V(s)
  /\ ShellGoesOn(p, lines)
  /\ UNCHANGED <<left, device>>

(* A handler goes on without a call of the nucleus.                         *)
Goes(p, from, to) ==
  /\ Moves(p, from, to)
  /\ UNCHANGED <<ready, sem, waiting, device, line>>

(* Mutant of StartIO: one operation too many.                               *)
StartIOAlways(p, from, to) ==
  /\ Moves(p, from, to)
  /\ DoIO(p)
  /\ UNCHANGED <<left, sem, waiting, line>>

StartIO(p, from, to) ==
  /\ Moves(p, from, to) /\ left[p] > 0
  /\ DoIO(p)
  /\ UNCHANGED <<left, sem, waiting, line>>

(* sys4_writeTerminal: P, then a DOIO per character, then V.                *)
WriteTerminal(p) ==
  \/ Acquire(p, "writeP", "termMutexTX", "write")
  \/ StartIO(p, "write", "writeIO")
  \/ Goes(p, "writeIO", "write") /\ left' = [left EXCEPT ![p] = @ - 1]
  \/ Goes(p, "writeIO", "writeFailV") /\ UNCHANGED left
  \/ left[p] = 0 /\ Goes(p, "write", "writeV") /\ UNCHANGED left
  \/ Release(p, "writeV", "termMutexTX", AfterPrint(FALSE))
  \/ Release(p, "writeFailV", "termMutexTX", AfterPrint(TRUE))

(* sys5_readTerminal: the same until a newline or the end of the buffer;    *)
(* the access to the buffer may be the end of the U-proc.                   *)
ReadTerminal(p) ==
  \/ Acquire(p, "readP", "termMutexRX", "read")
  \/ StartIO(p, "read", "readIO")
  \/ Goes(p, "readIO", "read") /\ left' = [left EXCEPT ![p] = @ - 1]
  \/ Goes(p, "readIO", "readV") /\ UNCHANGED left
  \/ Goes(p, "readIO", "readFailV") /\ UNCHANGED left
  \/ Goes(p, "readIO", "signal") /\ UNCHANGED left
  \/ left[p] = 0 /\ Goes(p, "read", "readV") /\ UNCHANGED left
  \/ Release(p, "readV", "termMutexRX", AfterRead(FALSE))
  \/ Release(p, "readFailV", "termMutexRX", AfterRead(TRUE))

(* CREATEPROCESS takes a free PCB; if there is none, sys6_execute does not  *)
(* notice.                                                                  *)
CreateProgram ==
  /\ At(shell, "create")
  /\ LET free == {c \in Programs : pc[c] = "none"}
     IN  \/ \E c \in free :
              /\ pc' = [pc EXCEPT ![shell] = "executeP", ![c] = "user"]
              /\ ready' = Append(ready, c)
         \/ /\ free = {}
            /\ pc' = [pc EXCEPT ![shell] = "executeP"]
            /\ UNCHANGED ready
  /\ UNCHANGED <<left, sem, waiting, device, line>>

(* Mutant of Execute: the program is not awaited.                           *)
ExecuteNoWait ==
  \/ CreateProgram
  \/ Goes(shell, "executeP", "executed") /\ UNCHANGED left
  \/ /\ Moves(shell, "executed", "user")
     /\ line' = "prompt"
     /\ UNCHANGED <<ready, left, sem, waiting, device>>

(* sys6_execute: the program is created, then awaited.                      *)
Execute ==
  \/ CreateProgram
  \/ Acquire(shell, "executeP", "shellSemaphore", "executed")
  \/ /\ Moves(shell, "executed", "user")
     /\ line' = "prompt"
     /\ UNCHANGED <<ready, left, sem, waiting, device>>

(* HALT, or PANIC: nobody is ready and no operation is running.             *)
Stopped == ready = <<>> /\ device = {} /\ UNCHANGED vars

Handler(p) ==
  \/ Signal(p) \/ TermProcess(p)
  \/ WriteTerminal(p) \/ ReadTerminal(p)
  \/ p = shell /\ (ShellCalls \/ Execute)

Test == LaunchUproc \/ WaitForShell \/ TermProcess(test)

(* The running process makes a step; if it gives the processor up, the next *)
(* one has made none yet.                                                   *)
Ran == ran' = (ready' # <<>> /\ Head(ready') = Head(ready))

Running ==
  /\ \/ Test
     \/ \E p \in Uprocs : Handler(p) \/ Fault(p)
     \/ \E p \in Programs : ProgramCalls(p)
  /\ Ran

Next ==
  \/ Running \/ TimeSliceEnds \/ Stopped
  \/ \E p \in Uprocs : TerminalDone(p)

Spec == Init /\ [][Next]_vars

(* The processor executes handlers and the shell, the timer fires, and the  *)
(* terminal sends what it is given.  Nobody has to type, and a program need *)
(* not make any call.                                                       *)
Fairness ==
  /\ WF_vars(TimeSliceEnds)
  /\ WF_vars(Test /\ Ran)
  /\ \A p \in Uprocs : WF_vars(Handler(p) /\ Ran)
  /\ \A p \in Uprocs : WF_vars(pc[p] = "writeIO" /\ TerminalDone(p))

FairSpec == Spec /\ Fairness

-----------------------------------------------------------------------------
(* Properties.                                                              *)

Active(c) == pc[c] \notin {"none", "terminate"}

(* A program has the support structures to itself: while one is between its *)
(* creation and its V, the shell is in sys6_execute behind the creation, and*)
(* there is no other.  So no support structure is initialised under a U-proc*)
(* that uses it (sysSupport.c:284), although the shell is woken before the  *)
(* program has ended.                                                       *)
ProgramsRunAlone ==
  \A c \in Programs : Active(c) =>
    /\ pc[shell] \in {"executeP", "executed"}
    /\ \A d \in Programs \ {c} : ~Active(d)

(* CREATEPROCESS never fails in sys6_execute, which ignores its result: a   *)
(* program that has done its V, though the shell may run before it ends, is *)
(* gone when the shell starts another, by the order of the ready queue: the *)
(* shell waits for the terminal in between, and comes back behind it.       *)
CreateSucceeds == pc[shell] = "create" => \A c \in Programs : pc[c] = "none"

(* However a program ends, the shell returns from sys6_execute.             *)
ShellResumes ==
  \A c \in Programs : pc[c] = "signal" ~> pc[shell] = "user"

(* When the shell has ended, the machine halts: no process is left.         *)
HaltsAfterShell ==
  pc[shell] = "signal" ~> \A p \in Processes : pc[p] = "none"

(* A program's V wakes the shell "così che possa accettare il prossimo      *)
(* comando" (initProc.c:46-48): it comes to read again.                     *)
NextCommand ==
  \A c \in Programs :
    pc[c] = "signal" ~> pc[shell] \in {"readP", "signal", "none"}
=============================================================================

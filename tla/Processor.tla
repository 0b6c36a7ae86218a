------------------------------ MODULE Processor ------------------------------
(****************************************************************************)
(* The processor: whose registers it holds, where those of the others are   *)
(* kept, how exceptions are dispatched (exception.c, functions.c) and how   *)
(* the time of the processor is charged.                                    *)
(*                                                                          *)
(* A state_t is the code it is in (level 0: the process's own, 1: the       *)
(* general handler, 2: the pager) and the instruction it is at.  Which      *)
(* semaphore a process waits for and which ready process comes first is     *)
(* Nucleus's: here a P may block, a V or an interrupt wakes any process,    *)
(* and the scheduler picks any.  Creations and the ends of other processes  *)
(* are left out; BADVADDR is in KUSEG exactly at a page fault.              *)
(****************************************************************************)
EXTENDS Integers, Sequences

CONSTANTS
  Uprocs,        \* the processes with a p_supportStruct
  Kprocs,        \* the others
  Program,       \* the instructions of each, of CallStacks
  NULL,
  MaxTime        \* bound: the clock stops here

Procs == Uprocs \cup Kprocs

Instruction == [op : {"plain", "load", "illegal", "ecall"}, a0 : Int]

ASSUME ProcessorAssumption ==
  NULL \notin Procs /\ Uprocs \cap Kprocs = {} /\ MaxTime \in Nat
ASSUME ProgramAssumption == Program \in [Procs -> Seq(Instruction)]

VARIABLES
  currentProcess,
  ready,         \* readyQueue
  blocked,       \* the processes blocked on a semaphore
  cpu,           \* the registers of the processor
  p_s,           \* the state saved in each PCB
  exceptState,   \* sup_exceptState: where the U-proc was when its handler
                 \* was called, and why
  now,           \* the TOD clock
  start,         \* start_time_current_quantum
  p_time,
  ran            \* how long each process has really had the processor

schedVars == <<currentProcess, ready, blocked>>
timeVars  == <<now, start, p_time, ran>>
vars      == <<schedVars, cpu, p_s, exceptState, timeVars>>

PGFAULTEXCEPT == 0
GENERALEXCEPT == 1

State     == [level : 0..2, pc : Nat]
Exception == [at : State, cause : {"none", "ecall", "privileged", "trap", "page"}, a0 : Int]

(* The types; and a process is on the processor, ready or blocked, never    *)
(* two of these.                                                            *)
TypeOK ==
  /\ currentProcess \in Procs \cup {NULL}
  /\ ready \subseteq Procs /\ blocked \subseteq Procs \ ready
  /\ currentProcess \notin ready \cup blocked
  /\ cpu \in State /\ p_s \in [Procs -> State]
  /\ exceptState \in [Uprocs -> [0..1 -> Exception]]
  /\ now \in 0..MaxTime /\ start \in 0..now
  /\ p_time \in [Procs -> 0..MaxTime] /\ ran \in [Procs -> 0..MaxTime]

-----------------------------------------------------------------------------
(* The code that runs.                                                      *)

Ecall(n) == [op |-> "ecall", a0 |-> n]
Plain    == [op |-> "plain", a0 |-> 0]
Load     == [op |-> "load", a0 |-> 0]
Illegal  == [op |-> "illegal", a0 |-> 0]

CREATEPROCESS == -1
TERMPROCESS   == -2
PASSEREN      == -3
VERHOGEN      == -4
DOIO          == -5
GETTIME       == -6
CLOCKWAIT     == -7
GETSUPPORTPTR == -8
GETPROCESSID  == -9
YIELD         == -10

(* supportGeneralExHandler, syscallHandler: the calls and the accesses to   *)
(* the U-proc's memory of each service, for strings of one character.       *)
sys4_writeTerminal ==
  <<Ecall(GETSUPPORTPTR), Ecall(PASSEREN), Load, Ecall(DOIO), Ecall(VERHOGEN)>>
sys5_readTerminal ==
  <<Ecall(GETSUPPORTPTR), Ecall(PASSEREN), Ecall(DOIO), Load, Ecall(VERHOGEN)>>
sys6_execute ==
  <<Ecall(GETSUPPORTPTR), Ecall(CREATEPROCESS), Ecall(PASSEREN)>>
programTrapHandler ==
  <<Ecall(GETSUPPORTPTR), Ecall(VERHOGEN), Ecall(TERMPROCESS)>>

supportGeneralExHandler(why) ==
  CASE why = Ecall(4) -> sys4_writeTerminal
    [] why = Ecall(5) -> sys5_readTerminal
    [] why = Ecall(6) -> sys6_execute
    [] OTHER          -> programTrapHandler

(* pager, for a page that is read and evicts none.                          *)
pager ==
  <<Ecall(GETSUPPORTPTR), Ecall(PASSEREN), Ecall(DOIO), Ecall(VERHOGEN)>>

(* What an exception state says of the exception.                           *)
Why(e) ==
  CASE e.cause = "page"                      -> Load
    [] e.cause = "ecall" /\ e.a0 \in {4, 5, 6} -> Ecall(e.a0)
    [] OTHER                                 -> Illegal

Code(p, act) ==
  CASE act.level = 0 -> Program[p]
    [] act.level = 1 -> supportGeneralExHandler(act.why)
    [] act.level = 2 -> pager

Activation(s, why) == [level |-> s.level, pc |-> s.pc, why |-> why]

(* The activations of a process below and with the state s, when e are its  *)
(* exception states.                                                        *)
Stack(e, s) ==
  LET own(t)   == <<Activation(t, Plain)>>
      under(t) == IF t.level = 0 THEN own(t)
                  ELSE <<Activation(t, Why(e[GENERALEXCEPT]))>>
                       \o own(e[GENERALEXCEPT].at)
  IN  IF s.level = 2
      THEN <<Activation(s, Why(e[PGFAULTEXCEPT]))>> \o under(e[PGFAULTEXCEPT].at)
      ELSE under(s)

Running == Head(Stack(exceptState[currentProcess], cpu))
Ended   == cpu.pc = Len(Code(currentProcess, Running))
Instr   == Code(currentProcess, Running)[cpu.pc + 1]
Executes(op) == currentProcess # NULL /\ ~Ended /\ Instr.op = op

UserMode == currentProcess \in Uprocs /\ cpu.level = 0

-----------------------------------------------------------------------------
(* The scheduler and the accounting.                                        *)

(* scheduler(), when rs are the ready processes and ps the saved states.    *)
Schedule(rs, ps) ==
  /\ p_s' = ps
  /\ IF rs = {}
     THEN currentProcess' = NULL /\ ready' = {} /\ UNCHANGED <<cpu, start>>
     ELSE \E p \in rs :
            /\ currentProcess' = p
            /\ ready' = rs \ {p}
            /\ cpu' = ps[p]
            /\ start' = now

Charged == [p_time EXCEPT ![currentProcess] = @ + now - start]

(* Mutant of updateCPUTime: the interval stays open.                        *)
updateCPUTimeTwice == p_time' = Charged /\ UNCHANGED start

(* updateCPUTime(currentProcess), when the handler does not end in the      *)
(* scheduler.                                                               *)
updateCPUTime == p_time' = Charged /\ start' = now

Saved(s) == [p_s EXCEPT ![currentProcess] = s]

(* Mutant of passUpOrDie: one exception state for both handlers.            *)
passUpOrDieShared(type, e) ==
  /\ currentProcess \in Uprocs
  /\ exceptState' = [exceptState EXCEPT ![currentProcess][GENERALEXCEPT] = e]
  /\ cpu' = [level |-> IF type = GENERALEXCEPT THEN 1 ELSE 2, pc |-> 0]
  /\ UNCHANGED <<schedVars, p_s, timeVars>>

passUpOrDie(type, e) ==
  IF currentProcess \in Uprocs
  THEN /\ exceptState' = [exceptState EXCEPT ![currentProcess][type] = e]
       /\ cpu' = [level |-> IF type = GENERALEXCEPT THEN 1 ELSE 2, pc |-> 0]
       /\ UNCHANGED <<schedVars, p_s, timeVars>>
  ELSE /\ p_time' = Charged
       /\ Schedule(ready, p_s)
       /\ UNCHANGED <<blocked, exceptState, now, ran>>

Resume(s) == cpu' = s /\ UNCHANGED schedVars

(* The services of the nucleus, called with the state s that has the pc     *)
(* behind the call.                                                         *)

Getters == {CREATEPROCESS, GETSUPPORTPTR, GETPROCESSID}
getter(s) == Resume(s) /\ UNCHANGED <<p_s, start, p_time>>

getCPUTime(s) == updateCPUTime /\ Resume(s) /\ UNCHANGED p_s

(* passeren without a wait, and verhogen.                                   *)
passeren(s) == updateCPUTime /\ p_s' = Saved(s) /\ Resume(s)

verhogen(s) ==
  /\ updateCPUTime
  /\ p_s' = Saved(s)
  /\ cpu' = s
  /\ \E p \in blocked : blocked' = blocked \ {p} /\ ready' = ready \cup {p}
  /\ UNCHANGED currentProcess

(* passeren, doIO and waitForClock: blockCurrentProcess charges the time a  *)
(* second time, from the start the first has moved.                         *)
wait(s) ==
  /\ p_time' = Charged
  /\ blocked' = blocked \cup {currentProcess}
  /\ Schedule(ready, Saved(s))

(* Mutant of yield: the process goes on though it is in the ready queue.    *)
yieldOn(s) ==
  /\ updateCPUTime
  /\ p_s' = Saved(s) /\ cpu' = s
  /\ ready' = ready \cup {currentProcess}
  /\ UNCHANGED <<currentProcess, blocked>>

yield(s) ==
  /\ p_time' = Charged
  /\ Schedule(ready \cup {currentProcess}, Saved(s))
  /\ UNCHANGED blocked

terminateProcess ==
  /\ p_time' = Charged
  /\ Schedule(ready, p_s)
  /\ UNCHANGED blocked

Serve(n, s) ==
  /\ \/ n \in Getters              /\ getter(s)
     \/ n = GETTIME                /\ getCPUTime(s)
     \/ n \in {PASSEREN, VERHOGEN} /\ passeren(s)
     \/ n = VERHOGEN               /\ verhogen(s)
     \/ n = DOIO                   /\ getter(s)      \* not a device register
     \/ n \in {PASSEREN, DOIO, CLOCKWAIT} /\ wait(s)
     \/ n = YIELD                  /\ yield(s)
     \/ n = TERMPROCESS            /\ terminateProcess
  /\ UNCHANGED <<exceptState, now, ran>>

systemCallHandler(n, e) ==
  IF n >= 1
  THEN passUpOrDie(GENERALEXCEPT, e)
  ELSE IF UserMode
  THEN passUpOrDie(GENERALEXCEPT, [e EXCEPT !.cause = "privileged"])
  ELSE IF n \in -10..-1
  THEN Serve(n, e.at)
  ELSE passUpOrDie(GENERALEXCEPT, e)

-----------------------------------------------------------------------------
(* What the processor does next.                                            *)

Next1 == [cpu EXCEPT !.pc = @ + 1]

(* An instruction that raises no exception (or only a refill of the TLB).   *)
Step ==
  /\ Executes("plain") \/ Executes("load")
  /\ Resume(Next1)
  /\ UNCHANGED <<p_s, exceptState, timeVars>>

(* exceptionHandler, by what has happened.                                  *)
SystemCall ==
  /\ Executes("ecall")
  /\ systemCallHandler(Instr.a0, [at |-> Next1, cause |-> "ecall", a0 |-> Instr.a0])

PageFault ==
  /\ Executes("load") /\ currentProcess \in Uprocs
  /\ passUpOrDie(PGFAULTEXCEPT, [at |-> cpu, cause |-> "page", a0 |-> 0])

Trap ==
  /\ Executes("illegal")
  /\ passUpOrDie(GENERALEXCEPT, [at |-> cpu, cause |-> "trap", a0 |-> 0])

(* The LDST that ends a handler of the support level.                       *)
Return ==
  /\ currentProcess # NULL /\ cpu.level > 0 /\ Ended
  /\ Resume(exceptState[currentProcess]
              [IF cpu.level = 1 THEN GENERALEXCEPT ELSE PGFAULTEXCEPT].at)
  /\ UNCHANGED <<p_s, exceptState, timeVars>>

(* interruptHandler.                                                        *)
TimerInterrupt ==
  /\ currentProcess # NULL
  /\ p_time' = Charged
  /\ Schedule(ready \cup {currentProcess}, Saved(cpu))
  /\ UNCHANGED <<blocked, exceptState, now, ran>>

WakingInterrupt ==
  \E W \in SUBSET blocked :
    /\ blocked' = blocked \ W
    /\ IF currentProcess # NULL
       THEN updateCPUTime /\ ready' = ready \cup W /\ UNCHANGED <<currentProcess, cpu, p_s>>
       ELSE /\ UNCHANGED p_time
            /\ IF W = {} THEN start' = now /\ UNCHANGED <<currentProcess, ready, cpu, p_s>>
                         ELSE Schedule(W, p_s)
    /\ UNCHANGED <<exceptState, now, ran>>

(* Time passes for the running process, or for nobody.                      *)
Tick ==
  /\ now < MaxTime
  /\ now' = now + 1
  /\ ran' = IF currentProcess = NULL THEN ran ELSE [ran EXCEPT ![currentProcess] = @ + 1]
  /\ UNCHANGED <<schedVars, cpu, p_s, exceptState, start, p_time>>

(* All processes are created, one runs.                                     *)
Init ==
  /\ currentProcess \in Procs
  /\ ready = Procs \ {currentProcess}
  /\ blocked = {}
  /\ cpu = [level |-> 0, pc |-> 0]
  /\ p_s = [p \in Procs |-> cpu]
  /\ exceptState = [p \in Uprocs |-> [t \in 0..1 |-> [at |-> cpu, cause |-> "none", a0 |-> 0]]]
  /\ now = 0 /\ start = 0
  /\ p_time = [p \in Procs |-> 0] /\ ran = [p \in Procs |-> 0]

Next ==
  \/ Step \/ SystemCall \/ PageFault \/ Trap \/ Return
  \/ TimerInterrupt \/ WakingInterrupt \/ Tick

Spec == Init /\ [][Next]_vars

-----------------------------------------------------------------------------
(* An interrupt that comes when the scheduler waits finds no currentProcess *)
(* and one that comes in a handler of the support level finds the handler's *)
(* state: whatever the order of exceptions, switches and returns, the       *)
(* registers in cpu, in the PCBs and in sup_exceptState are those of the    *)
(* stack of activations each process has.                                   *)
Alive  == ready \cup blocked \cup ({currentProcess} \ {NULL})
States == [p \in Procs |-> IF p = currentProcess THEN cpu ELSE p_s[p]]

Activations ==
  [p \in Procs |-> IF p \in Alive THEN Stack(exceptState[p], States[p]) ELSE <<>>]

Stacks == INSTANCE CallStacks WITH stack <- Activations
StacksSpec == Stacks!Spec

(* The accounts of the processes that have not ended are exact: every       *)
(* interval between two readings of the clock is charged once, to the       *)
(* process that had the processor, and the time in WAIT to nobody.          *)
CpuTimeExact ==
  \A p \in Alive :
    ran[p] = p_time[p] + (IF p = currentProcess THEN now - start ELSE 0)
=============================================================================

------------------------------- MODULE Nucleus -------------------------------
(****************************************************************************)
(* The nucleus (phase2/): the process table, the ready queue, the           *)
(* semaphores and the semaphore list, the scheduler, the system calls and   *)
(* the interrupt handler, over the queues of phase1/.                       *)
(*                                                                          *)
(* There is one processor and a handler runs with interrupts off from its   *)
(* entry to the LDST, WAIT, HALT or PANIC that ends it, so one action is    *)
(* one handler.  Between two handlers the current process runs; what it     *)
(* asks next is not determined, and neither is when a device finishes, a    *)
(* timer fires, or a pending interrupt is taken.                            *)
(*                                                                          *)
(* A PCB stands for its process: p_pid is left out because a pid is never   *)
(* given twice, and the fields allocPcb resets are reset here when the PCB  *)
(* is freed.  Calls that change nothing kept here (the getters, a creation  *)
(* with no PCB left, a termination of an unknown pid, an exception passed   *)
(* up to the support level) are stuttering steps.                           *)
(****************************************************************************)
EXTENDS ProcessQueues

CONSTANTS
  Pcbs,          \* pcbFree_table
  MAXPROC,       \* the size of semd_table (and of pcbFree_table)
  rootProcess,   \* the process initKernel creates
  NULL,          \* no process, no semaphore
  Prios,         \* the priorities processes are created with
  DeviceSems,    \* the indices of deviceSemaphores that are modelled
  UserSems,      \* the semaphores processes use through P and V
  SemMax,        \* bound: no V above this value
  DriftMax       \* bound: no DOIO or CLOCKWAIT at or below minus this value

Clock        == 48
PlainDevices == DeviceSems \cap 0..31                       \* lines 3 to 6
Terminals    == {d \in 0..7 : 32 + d \in DeviceSems}        \* line 7
IoDevices    == DeviceSems \ {Clock}
Semaphores   == DeviceSems \cup UserSems

(* There is a descriptor for every semaphore the processes block on: then   *)
(* no block can fail, whatever descriptors outBlocked keeps back.           *)
DescriptorsSuffice == Cardinality(Semaphores) <= MAXPROC

ASSUME PcbsAssumption ==
  /\ IsFiniteSet(Pcbs) /\ rootProcess \in Pcbs /\ NULL \notin Pcbs
  /\ MAXPROC \in Nat /\ Cardinality(Pcbs) <= MAXPROC
  /\ Prios \subseteq Int /\ 0 \in Prios
ASSUME SemaphoresAssumption ==
  /\ DeviceSems \subseteq 0..48 /\ Clock \in DeviceSems
  /\ \A d \in 0..7 : 32 + d \in DeviceSems <=> 40 + d \in DeviceSems
  /\ IsFiniteSet(UserSems) /\ UserSems \cap (0..48) = {}
  /\ NULL \notin Semaphores
  /\ SemMax \in Nat /\ DriftMax \in Nat

VARIABLES
  pcbFree,         \* pcbFree_h, as a set: which free PCB is taken is immaterial
  parent,          \* p_parent
  prio,            \* p_prio
  semAdd,          \* p_semAdd
  readyQueue,
  currentProcess,
  processCount,
  softBlockCount,
  sem,             \* the value of every semaphore
  blocked,         \* the queue of the semaphore's descriptor in the ASL
  active,          \* the semaphores that have a descriptor in the ASL
  device,          \* the status register and the process whose command it shows
  mode             \* how the last handler ended: LDST, WAIT, HALT, PANIC or
                   \* none of them

procVars == <<pcbFree, parent, prio, processCount>>
cpuVars  == <<readyQueue, currentProcess, mode>>
semVars  == <<sem, blocked, active, semAdd, softBlockCount>>
vars     == <<procVars, cpuVars, semVars, device>>

Live == Pcbs \ pcbFree

(* The processes whose p_semAdd is s.                                       *)
Waiters(s) == {p \in Pcbs : semAdd[p] = s}

(* What a device shows: no command since the last ACK, a command running, a *)
(* command finished and not acknowledged.                                   *)
DeviceState ==
  [status : {"ready"}, by : {NULL}] \cup [status : {"busy", "done"}, by : Pcbs]
Idle == [status |-> "ready", by |-> NULL]

(* initKernel, up to the dispatch of the root process.                      *)
Init ==
  /\ pcbFree = Pcbs \ {rootProcess}
  /\ parent = [p \in Pcbs |-> NULL]
  /\ prio = [p \in Pcbs |-> 0]
  /\ semAdd = [p \in Pcbs |-> NULL]
  /\ readyQueue = <<>>
  /\ currentProcess = rootProcess
  /\ processCount = 1
  /\ softBlockCount = 0
  /\ sem = [s \in Semaphores |-> 0]
  /\ blocked = [s \in Semaphores |-> <<>>]
  /\ active = {}
  /\ device = [i \in IoDevices |-> Idle]
  /\ mode = "run"

-----------------------------------------------------------------------------
(* The scheduler and the helpers of functions.c.                            *)

(* Mutant of StopMode: a kernel that does not look for deadlock.            *)
StopModeNoPanic(procs, soft) == IF procs = 0 THEN "halt" ELSE "wait"

(* What the scheduler does when no process is ready.                        *)
StopMode(procs, soft) ==
  CASE procs = 0              -> "halt"
    [] procs > 0 /\ soft > 0  -> "wait"
    [] procs > 0 /\ soft = 0  -> "panic"
    [] OTHER                  -> "fallthrough"

(* scheduler(), given the values of its globals when it is called.          *)
Schedule(rq, procs, soft) ==
  IF rq # <<>>
  THEN /\ currentProcess' = Head(rq)
       /\ readyQueue' = Tail(rq)
       /\ mode' = "run"
  ELSE /\ currentProcess' = NULL
       /\ readyQueue' = rq
       /\ mode' = StopMode(procs, soft)

(* The end of an interrupt handler: the interrupted process resumes, and if *)
(* there was none the scheduler picks one.                                  *)
ResumeOrSchedule(rq, soft) ==
  IF currentProcess # NULL
  THEN readyQueue' = rq /\ UNCHANGED <<currentProcess, mode>>
  ELSE Schedule(rq, processCount, soft)

(* insertBlocked of the current process: in the descriptor of s, or in a    *)
(* new one; when none is left it does nothing.                              *)
InsertBlocked(s) ==
  IF s \in active \/ Cardinality(active) < MAXPROC
  THEN /\ active' = active \cup {s}
       /\ blocked' = [blocked EXCEPT
                        ![s] = InsertProcQ(@, currentProcess, prio)]
  ELSE UNCHANGED <<active, blocked>>

(* blockCurrentProcess, after the caller's update of sem; it does not look  *)
(* at the result of insertBlocked.                                          *)
BlockCurrentProcess(s) ==
  /\ semAdd' = [semAdd EXCEPT ![currentProcess] = s]
  /\ softBlockCount' = IF s \in DeviceSems THEN softBlockCount + 1
                                           ELSE softBlockCount
  /\ InsertBlocked(s)
  /\ Schedule(readyQueue, processCount, softBlockCount')

(* removeBlocked on every semaphore of S, with the reset of p_semAdd that   *)
(* follows it everywhere.  A descriptor left with no process is freed.      *)
FirstBlocked(S) == {Head(blocked[s]) : s \in {t \in S : blocked[t] # <<>>}}

(* Mutant of RemoveBlocked: the last process leaves, not the first.         *)
RemoveLastBlocked(S) ==
  LET out == {s \in S : blocked[s] # <<>>}
  IN  /\ blocked' = [s \in Semaphores |-> IF s \in out THEN Front(blocked[s])
                                                       ELSE blocked[s]]
      /\ active' = active \ {s \in S : Len(blocked[s]) <= 1}
      /\ semAdd' = [p \in Pcbs |-> IF \E s \in out : p = Last(blocked[s])
                                   THEN NULL ELSE semAdd[p]]

RemoveBlocked(S) ==
  /\ blocked' = [s \in Semaphores |->
                   IF s \in S /\ blocked[s] # <<>> THEN Tail(blocked[s])
                                                   ELSE blocked[s]]
  /\ active' = active \ {s \in S : Len(blocked[s]) <= 1}
  /\ semAdd' = [p \in Pcbs |-> IF p \in FirstBlocked(S) THEN NULL
                                                        ELSE semAdd[p]]

(* Mutant of WithFirstBlocked: the process woken is put nowhere.            *)
WithFirstForgotten(q, s) == q

(* The ready queue q after the first process blocked on s joined it.        *)
WithFirstBlocked(q, s) ==
  IF blocked[s] # <<>> THEN InsertProcQ(q, Head(blocked[s]), prio) ELSE q

(* The processes of the subtree under t, t included.                        *)
Descendants(t) ==
  {p \in Live : \A S \in SUBSET Pcbs :
                  /\ t \in S
                  /\ \A q \in Pcbs : parent[q] \in S => q \in S
                  => p \in S}

(* recursiveTerminateProcess: every process of the subtree D leaves the     *)
(* queue it is blocked in, if it is in it (outBlocked keeps the descriptor  *)
(* even when its queue becomes empty), the ready queue, the processor and   *)
(* the tree.  A user semaphore gets back one unit for each.  If the caller  *)
(* was among them the scheduler picks another process.                      *)
(* Mutants of Removed: no process leaves its semaphore, or only the first   *)
(* of its queue does.                                                       *)
RemovedNone(D, s)  == {}
RemovedFirst(D, s) == {p \in D : semAdd[p] = s} \cap FirstBlocked({s})

Removed(D, s) == {p \in D : semAdd[p] = s} \cap Range(blocked[s])

Terminate(D) ==
  /\ pcbFree' = pcbFree \cup D
  /\ parent' = [p \in Pcbs |-> IF p \in D THEN NULL ELSE parent[p]]
  /\ prio' = [p \in Pcbs |-> IF p \in D THEN 0 ELSE prio[p]]
  /\ semAdd' = [p \in Pcbs |-> IF p \in D THEN NULL ELSE semAdd[p]]
  /\ blocked' = [s \in Semaphores |-> OutAllProcQ(blocked[s], Removed(D, s))]
  /\ sem' = [s \in Semaphores |->
               IF s \in UserSems THEN sem[s] + Cardinality(Removed(D, s))
                                 ELSE sem[s]]
  /\ softBlockCount' = softBlockCount
       - Cardinality(UNION {Removed(D, s) : s \in DeviceSems})
  /\ processCount' = processCount - Cardinality(D)
  /\ LET rq == OutAllProcQ(readyQueue, D)
     IN  IF currentProcess \in D
         THEN Schedule(rq, processCount', softBlockCount')
         ELSE readyQueue' = rq /\ UNCHANGED <<currentProcess, mode>>
  /\ UNCHANGED <<active, device>>

-----------------------------------------------------------------------------
(* The system calls of the running process.                                 *)
(* Mutant of Running: nothing is masked while the kernel waits.             *)
RunningOrWaiting == mode \in {"run", "wait"}

Running == mode = "run"

(* SYS1, with a PCB left.                                                   *)
CreateProcess(p, k) ==
  /\ Running
  /\ p \in pcbFree
  /\ pcbFree' = pcbFree \ {p}
  /\ parent' = [parent EXCEPT ![p] = currentProcess]
  /\ prio' = [prio EXCEPT ![p] = k]
  /\ readyQueue' = InsertProcQ(readyQueue, p, prio')
  /\ processCount' = processCount + 1
  /\ UNCHANGED <<currentProcess, mode, semVars, device>>

(* SYS2: of the caller, or of a process findInTree finds from the root.     *)
TerminateProcess(t) ==
  /\ Running
  /\ t \in Descendants(rootProcess) \cup {currentProcess}
  /\ Terminate(Descendants(t))

(* passUpOrDie for a process without a support structure.                   *)
(* Mutant of Die: the children of the process survive it.                   *)
DieAlone == Running /\ Terminate({currentProcess})

Die ==
  /\ Running
  /\ Terminate(Descendants(currentProcess))

(* SYS3.                                                                    *)
Passeren(s) ==
  /\ Running
  /\ sem' = [sem EXCEPT ![s] = @ - 1]
  /\ IF sem'[s] < 0
     THEN BlockCurrentProcess(s)
     ELSE UNCHANGED <<cpuVars, blocked, active, semAdd, softBlockCount>>
  /\ UNCHANGED <<procVars, device>>

(* SYS4.                                                                    *)
Verhogen(s) ==
  /\ Running
  /\ sem[s] < SemMax
  /\ sem' = [sem EXCEPT ![s] = @ + 1]
  /\ IF sem'[s] <= 0
     THEN RemoveBlocked({s}) /\ readyQueue' = WithFirstBlocked(readyQueue, s)
     ELSE UNCHANGED <<blocked, active, semAdd, readyQueue>>
  /\ UNCHANGED <<procVars, currentProcess, mode, softBlockCount, device>>

(* SYS5 on the device whose semaphore is i.  A command written to a busy    *)
(* device is lost; any other one acknowledges what the device showed and    *)
(* starts the operation.  The clients of a device exclude each other, so no *)
(* process is waiting for it.                                               *)
CommandWritten(i) ==
  IF device[i].status = "busy" THEN device
  ELSE [device EXCEPT ![i] = [status |-> "busy", by |-> currentProcess]]

DoIO(i) ==
  /\ Running
  /\ Waiters(i) = {}
  /\ sem[i] > -DriftMax
  /\ sem' = [sem EXCEPT ![i] = @ - 1]
  /\ device' = CommandWritten(i)
  /\ BlockCurrentProcess(i)
  /\ UNCHANGED procVars

(* SYS7.                                                                    *)
WaitForClock ==
  /\ Running
  /\ sem[Clock] > -DriftMax
  /\ sem' = [sem EXCEPT ![Clock] = @ - 1]
  /\ BlockCurrentProcess(Clock)
  /\ UNCHANGED <<procVars, device>>

(* Mutant of Requeue: the process stays on the processor.                   *)
KeepProcessor == UNCHANGED cpuVars

(* SYS10.                                                                   *)
Requeue ==
  Schedule(InsertProcQ(readyQueue, currentProcess, prio),
           processCount, softBlockCount)

Yield ==
  /\ Running
  /\ Requeue
  /\ UNCHANGED <<procVars, semVars, device>>

-----------------------------------------------------------------------------
(* The interrupts.  Each is taken while a process runs or while the kernel  *)
(* waits; the processor's own timer is masked while it waits.               *)
(* Mutant of InterruptsOn: the kernel waits with interrupts disabled.       *)
InterruptsOnlyRunning == mode = "run"

InterruptsOn == mode \in {"run", "wait"}

(* The end of the time slice.                                               *)
TimerInterrupt ==
  /\ Running
  /\ Requeue
  /\ UNCHANGED <<procVars, semVars, device>>

(* The pseudo-clock tick: everyone waiting for it becomes ready, and its    *)
(* semaphore starts again from zero.                                        *)
ClockTick ==
  LET woken == blocked[Clock]
  IN  /\ InterruptsOn
      /\ blocked' = [blocked EXCEPT ![Clock] = <<>>]
      /\ active' = active \ {Clock}
      /\ semAdd' = [p \in Pcbs |-> IF p \in Range(woken) THEN NULL
                                                         ELSE semAdd[p]]
      /\ sem' = [sem EXCEPT ![Clock] = 0]
      /\ softBlockCount' = softBlockCount - Len(woken)
      /\ ResumeOrSchedule(InsertAllProcQ(readyQueue, woken, prio),
                          softBlockCount')
      /\ UNCHANGED <<procVars, device>>

(* Mutants of Signalled: a V on every semaphore, and one too few.           *)
SignalledAll(S)   == S
SignalledLater(S) == {s \in S : sem[s] < -1}

(* The V of the interrupt handler on the semaphores S, whose devices it has *)
(* acknowledged; rq is the ready queue with the woken processes.            *)
Signalled(S) == {s \in S : sem[s] < 0}

Acknowledge(S) ==
  device' = [i \in IoDevices |->
               IF i \in S /\ device[i].status # "busy" THEN Idle
                                                       ELSE device[i]]

SignalDevices(S, rq) ==
  /\ sem' = [s \in Semaphores |-> IF s \in Signalled(S) THEN sem[s] + 1
                                                        ELSE sem[s]]
  /\ RemoveBlocked(Signalled(S))
  /\ softBlockCount' = softBlockCount - Cardinality(FirstBlocked(Signalled(S)))
  /\ Acknowledge(S)
  /\ ResumeOrSchedule(rq, softBlockCount')
  /\ UNCHANGED procVars

(* The ready queue q after the V on the device semaphore s.                 *)
WithSignalled(q, s) == IF sem[s] < 0 THEN WithFirstBlocked(q, s) ELSE q

Finished(i) == device[i].status = "done"

(* Lines 3 to 6: the lowest-numbered device with an interrupt pending on    *)
(* the line.                                                                *)
DeviceInterrupt(i) ==
  /\ InterruptsOn
  /\ Finished(i)
  /\ \A j \in PlainDevices : j \div 8 = i \div 8 /\ Finished(j) => i <= j
  /\ SignalDevices({i}, WithSignalled(readyQueue, i))

(* Line 7: the lowest-numbered terminal with either side finished.  The     *)
(* handler then serves both sides, since the status byte it tests is not    *)
(* zero for an installed terminal in any state: first transmission, then    *)
(* reception.                                                               *)
TerminalFinished(d) == Finished(32 + d) \/ Finished(40 + d)

TerminalInterrupt(d) ==
  /\ InterruptsOn
  /\ TerminalFinished(d)
  /\ \A e \in Terminals : TerminalFinished(e) => d <= e
  /\ SignalDevices({40 + d, 32 + d},
       WithSignalled(WithSignalled(readyQueue, 40 + d), 32 + d))

(* The hardware finishes an operation.                                      *)
DeviceFinishes(i) ==
  /\ InterruptsOn
  /\ device[i].status = "busy"
  /\ device' = [device EXCEPT ![i].status = "done"]
  /\ UNCHANGED <<procVars, cpuVars, semVars>>

(* HALT and PANIC stop the machine.                                         *)
Stopped ==
  /\ mode \in {"halt", "panic"}
  /\ UNCHANGED vars

Next ==
  \/ \E p \in Pcbs, k \in Prios : CreateProcess(p, k)
  \/ \E t \in Pcbs : TerminateProcess(t)
  \/ Die
  \/ \E s \in UserSems : Passeren(s)
  \/ \E s \in UserSems : Verhogen(s)
  \/ \E i \in IoDevices : DoIO(i)
  \/ WaitForClock
  \/ Yield
  \/ TimerInterrupt
  \/ ClockTick
  \/ \E i \in PlainDevices : DeviceInterrupt(i)
  \/ \E d \in Terminals : TerminalInterrupt(d)
  \/ \E i \in IoDevices : DeviceFinishes(i)
  \/ Stopped

Spec == Init /\ [][Next]_vars

(* The hardware: operations end, timers fire, and a pending interrupt is    *)
(* taken, since processes run with interrupts enabled.                      *)
Fairness ==
  /\ WF_vars(TimerInterrupt)
  /\ WF_vars(ClockTick)
  /\ \A i \in IoDevices : WF_vars(DeviceFinishes(i))
  /\ \A i \in PlainDevices : WF_vars(DeviceInterrupt(i))
  /\ \A d \in Terminals : WF_vars(TerminalInterrupt(d))

FairSpec == Spec /\ Fairness
-----------------------------------------------------------------------------
(* What must be true.                                                       *)

TypeOK ==
  /\ pcbFree \subseteq Pcbs
  /\ parent \in [Pcbs -> Pcbs \cup {NULL}]
  /\ prio \in [Pcbs -> Int]
  /\ semAdd \in [Pcbs -> Semaphores \cup {NULL}]
  /\ readyQueue \in Seq(Pcbs)
  /\ currentProcess \in Pcbs \cup {NULL}
  /\ processCount \in Int
  /\ softBlockCount \in Int
  /\ sem \in [Semaphores -> Int]
  /\ blocked \in [Semaphores -> Seq(Pcbs)]
  /\ active \subseteq Semaphores
  /\ device \in [IoDevices -> DeviceState]
  /\ mode \in {"run", "wait", "halt", "panic", "fallthrough"}

(* Every live process is in exactly one place, the one its PCB names: on    *)
(* the processor, once in the ready queue, or once in the queue of the      *)
(* semaphore in p_semAdd, which then has a descriptor.  A free PCB is in    *)
(* none of them.  No block, wake-up, preemption or termination, in any      *)
(* order, loses or doubles a process.                                       *)
ProcessesPlaced ==
  /\ mode = "run" <=> currentProcess # NULL
  /\ currentProcess # NULL => currentProcess \in Live /\ semAdd[currentProcess] = NULL
  /\ IsInjective(readyQueue)
  /\ Range(readyQueue) = {p \in Live : semAdd[p] = NULL} \ {currentProcess}
  /\ \A p \in pcbFree : semAdd[p] = NULL
  /\ \A s \in Semaphores :
       /\ IsInjective(blocked[s])
       /\ Range(blocked[s]) = Waiters(s)
       /\ Waiters(s) # {} => s \in active

(* "Every live process is always reachable" (README.md:112): a pid lookup   *)
(* from the root finds every process that has not been terminated, so a     *)
(* terminated process leaves no orphan behind (exception.c:304), and the    *)
(* end of the root is the end of all.                                       *)
NoOrphans ==
  /\ Live \subseteq Descendants(rootProcess)
  /\ \A p \in pcbFree : parent[p] = NULL /\ \A q \in Pcbs : parent[q] # p

(* The two counters the scheduler decides with count what they say: the     *)
(* live processes, and those blocked on a device or on the pseudo-clock,    *)
(* whatever mix of blocks, interrupts and terminations led here.            *)
CountsExact ==
  /\ processCount = Cardinality(Live)
  /\ softBlockCount = Cardinality({p \in Pcbs : semAdd[p] \in DeviceSems})

(* A user semaphore below zero has as many waiters as its value says, and   *)
(* one at or above zero has none (exception.c:419).                         *)
UserSemaphoresExact ==
  \A s \in UserSems :
    Cardinality(Waiters(s)) = IF sem[s] < 0 THEN -sem[s] ELSE 0

(* A device semaphore is low enough for the interrupt handler to wake every *)
(* waiter of it.  It may be lower still: the unit of a waiter that was      *)
(* terminated is not given back at once.                                    *)
DeviceSemaphoresLow ==
  \A s \in DeviceSems : sem[s] <= -Cardinality(Waiters(s))

(* A process waiting for a device has an operation coming: the device is    *)
(* busy, or its interrupt is pending, so that no waiter is stranded by an   *)
(* interrupt served for someone else.                                       *)
WaitersAwaited ==
  \A i \in IoDevices : Waiters(i) # {} => device[i].status # "ready"

(* The ready queue and the semaphore queues are ordered by priority.        *)
QueuesOrdered ==
  /\ Ordered(readyQueue, prio)
  /\ \A s \in Semaphores : Ordered(blocked[s], prio)

(* The handlers above take several processes out of a queue, or move them,  *)
(* at once.  That is what the loops do one by one: the tick with the waiters*)
(* of a semaphore (interrupt.c:214), and a termination with the processes of*)
(* a subtree, in whatever order it visits them (functions.c:231-266).       *)
ClosedFormsAreLoops ==
  /\ \A s \in Semaphores :
       InsertAllProcQ(readyQueue, blocked[s], prio) = InsertEach(readyQueue, blocked[s], prio)
  /\ \A q \in {readyQueue} \cup {blocked[s] : s \in Semaphores}, D \in SUBSET Pcbs :
       \A d \in [1..Cardinality(D) -> D] :
         Range(d) = D => OutAllProcQ(q, D) = OutEach(q, d)

(* What the scheduler concludes is true (README.md:65-67): it halts when no *)
(* process is left, it panics when every live process waits for a V that    *)
(* only one of them could do, it waits when one of them waits for the       *)
(* hardware, and it never falls through its four cases.                     *)
HonestStop ==
  /\ mode = "halt" <=> Live = {}
  /\ mode = "panic" => \A p \in Live : semAdd[p] \in UserSems
  /\ mode = "wait" => /\ \A p \in Live : semAdd[p] # NULL
                      /\ \E p \in Live : semAdd[p] \in DeviceSems
  /\ mode # "fallthrough"

(* Nobody is overtaken: a process behind another in a queue does not leave  *)
(* the queue before it, unless it is terminated, and does not get ahead.    *)
Ahead(q, x, y) == \E i, j \in DOMAIN q : i < j /\ q[i] = x /\ q[j] = y

KeepsOrder(q, q1) ==
  \A i, j \in DOMAIN q :
    i < j /\ q[i] \in Range(q1) /\ q[j] \notin pcbFree' => Ahead(q1, q[i], q[j])

NoOvertaking ==
  [][/\ KeepsOrder(readyQueue, readyQueue')
     /\ \A s \in Semaphores : KeepsOrder(blocked[s], blocked'[s])]_vars

-----------------------------------------------------------------------------
(* What must happen, under FairSpec.                                        *)

(* The kernel never sleeps for ever: when the scheduler chose to WAIT, an   *)
(* interrupt makes a process run.                                           *)
WaitEnds == mode = "wait" ~> mode # "wait"

(* A process blocked on a device or on the pseudo-clock gets out.           *)
SoftBlockedWake ==
  \A p \in Pcbs, s \in DeviceSems : semAdd[p] = s ~> semAdd[p] # s

(* A ready process gets the processor, unless it is terminated or a process *)
(* of higher priority is alive: the processes of the top priority share the *)
(* processor.                                                               *)
ReadyRuns ==
  \A p \in Pcbs :
    p \in Range(readyQueue)
      ~> \/ currentProcess = p
         \/ p \in pcbFree
         \/ \E q \in Live : prio[q] > prio[p]
=============================================================================

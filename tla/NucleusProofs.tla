---------------------------- MODULE NucleusProofs ----------------------------
(****************************************************************************)
(* The safety of the nucleus, for every number of PCBs, priorities,         *)
(* semaphores and devices: its types, that every process is in one place,   *)
(* the process tree, and the discipline of the queues.                      *)
(****************************************************************************)
EXTENDS Nucleus, ProcessQueueProofs

-----------------------------------------------------------------------------
(* Types.                                                                   *)

(* The processor is with a process exactly in mode "run".                   *)
ModeOK == mode = "run" <=> currentProcess # NULL

TypeInv == TypeOK /\ ModeOK

(* The parts of TypeOK that the scheduler sets, and the others.             *)
CpuTypeOK ==
  /\ readyQueue \in Seq(Pcbs)
  /\ currentProcess \in Pcbs \cup {NULL}
  /\ mode \in {"run", "wait", "halt", "panic", "fallthrough"}
  /\ ModeOK

ProcTypeOK ==
  /\ pcbFree \subseteq Pcbs
  /\ parent \in [Pcbs -> Pcbs \cup {NULL}]
  /\ prio \in [Pcbs -> Int]
  /\ processCount \in Int

SemTypeOK ==
  /\ semAdd \in [Pcbs -> Semaphores \cup {NULL}]
  /\ softBlockCount \in Int
  /\ sem \in [Semaphores -> Int]
  /\ blocked \in [Semaphores -> Seq(Pcbs)]
  /\ active \subseteq Semaphores

DeviceTypeOK == device \in [IoDevices -> DeviceState]

LEMMA TypeInvParts ==
  /\ TypeInv <=> CpuTypeOK /\ ProcTypeOK /\ SemTypeOK /\ DeviceTypeOK
  /\ TypeInv' <=> CpuTypeOK' /\ ProcTypeOK' /\ SemTypeOK' /\ DeviceTypeOK'
BY DEF TypeInv, TypeOK, CpuTypeOK, ProcTypeOK, SemTypeOK, DeviceTypeOK

(* What the scheduler leaves, given a ready queue.                          *)
LEMMA ScheduleType ==
  ASSUME NEW rq \in Seq(Pcbs), NEW n, NEW m, Schedule(rq, n, m)
  PROVE  CpuTypeOK'
<1>1. CASE rq # <<>>
  <2>1. /\ currentProcess' = Head(rq) /\ readyQueue' = Tail(rq)
        /\ mode' = "run"
    BY <1>1 DEF Schedule
  <2>2. Head(rq) \in Pcbs /\ Tail(rq) \in Seq(Pcbs)
    BY <1>1, TailLists
  <2> QED
    BY <2>1, <2>2, PcbsAssumption DEF CpuTypeOK, ModeOK
<1>2. CASE rq = <<>>
  <2>1. StopMode(n, m) \in {"wait", "halt", "panic", "fallthrough"}
    BY DEF StopMode
  <2> QED
    BY <1>2, <2>1 DEF Schedule, CpuTypeOK, ModeOK
<1> QED
  BY <1>1, <1>2

LEMMA ResumeOrScheduleType ==
  ASSUME CpuTypeOK, NEW rq \in Seq(Pcbs), NEW m, ResumeOrSchedule(rq, m)
  PROVE  CpuTypeOK'
<1>1. CASE currentProcess # NULL
  BY <1>1 DEF ResumeOrSchedule, CpuTypeOK, ModeOK
<1>2. CASE currentProcess = NULL
  BY <1>2, ScheduleType DEF ResumeOrSchedule
<1> QED
  BY <1>1, <1>2

LEMMA BlockType ==
  ASSUME TypeInv, Running, NEW s \in Semaphores,
         sem' \in [Semaphores -> Int], BlockCurrentProcess(s)
  PROVE  CpuTypeOK' /\ SemTypeOK'
<1> USE DEF TypeInv, TypeOK, ModeOK, Running
<1>1. currentProcess \in Pcbs
  OBVIOUS
<1>2. CpuTypeOK'
  BY ScheduleType DEF BlockCurrentProcess
<1>3. blocked' \in [Semaphores -> Seq(Pcbs)] /\ active' \subseteq Semaphores
  <2>1. InsertProcQ(blocked[s], currentProcess, prio) \in Seq(Pcbs)
    BY <1>1, InsertProcQLists
  <2> QED
    BY <2>1 DEF BlockCurrentProcess, InsertBlocked
<1>4. semAdd' \in [Pcbs -> Semaphores \cup {NULL}] /\ softBlockCount' \in Int
  BY DEF BlockCurrentProcess
<1> QED
  BY <1>2, <1>3, <1>4 DEF SemTypeOK

LEMMA RemoveBlockedType ==
  ASSUME TypeInv, NEW S \in SUBSET Semaphores, RemoveBlocked(S)
  PROVE  /\ semAdd' \in [Pcbs -> Semaphores \cup {NULL}]
         /\ blocked' \in [Semaphores -> Seq(Pcbs)]
         /\ active' \subseteq Semaphores
<1> USE DEF TypeInv, TypeOK
<1>1. ASSUME NEW s \in Semaphores, blocked[s] # <<>>
      PROVE  Tail(blocked[s]) \in Seq(Pcbs)
  BY <1>1, TailLists
<1> QED
  BY <1>1 DEF RemoveBlocked

LEMMA WithFirstBlockedType ==
  ASSUME TypeInv, NEW q \in Seq(Pcbs), NEW s \in Semaphores
  PROVE  /\ WithFirstBlocked(q, s) \in Seq(Pcbs)
         /\ WithSignalled(q, s) \in Seq(Pcbs)
<1>1. ASSUME blocked[s] # <<>> PROVE Head(blocked[s]) \in Pcbs
  BY <1>1, TailLists DEF TypeInv, TypeOK
<1> QED
  BY <1>1, InsertProcQLists DEF WithFirstBlocked, WithSignalled

(* The processes of a subtree are among the live PCBs.                      *)
LEMMA FinitePcbs ==
  ASSUME NEW S, S \subseteq Pcbs
  PROVE  IsFiniteSet(S) /\ Cardinality(S) \in Nat
BY PcbsAssumption, FS_Subset, FS_CardinalityType

LEMMA TerminateType ==
  ASSUME TypeInv, NEW D, D \subseteq Pcbs, Terminate(D)
  PROVE  TypeInv'
<1> USE DEF TypeInv, TypeOK
<1>1. /\ \A s \in Semaphores : Cardinality(Removed(D, s)) \in Nat
      /\ Cardinality(UNION {Removed(D, s) : s \in DeviceSems}) \in Nat
      /\ Cardinality(D) \in Nat
  <2>1. \A s : Removed(D, s) \subseteq Pcbs
    BY DEF Removed
  <2>2. UNION {Removed(D, s) : s \in DeviceSems} \subseteq Pcbs
    BY <2>1
  <2> QED
    BY <2>1, <2>2, FinitePcbs
<1>2. \A q \in Seq(Pcbs) : \A E : OutAllProcQ(q, E) \in Seq(Pcbs)
  BY OutAllProcQLists
<1>3. CpuTypeOK'
  <2>1. CASE currentProcess \in D
    BY <1>2, <2>1, ScheduleType DEF Terminate
  <2>2. CASE currentProcess \notin D
    BY <1>2, <2>2 DEF Terminate, CpuTypeOK, ModeOK
  <2> QED
    BY <2>1, <2>2
<1>4. ProcTypeOK'
  BY <1>1 DEF Terminate, ProcTypeOK
<1>5. SemTypeOK'
  <2>1. blocked' \in [Semaphores -> Seq(Pcbs)]
    BY <1>2 DEF Terminate
  <2>2. sem' \in [Semaphores -> Int]
    BY <1>1 DEF Terminate
  <2>3. softBlockCount' \in Int
    BY <1>1 DEF Terminate
  <2>4. semAdd' \in [Pcbs -> Semaphores \cup {NULL}]
    BY DEF Terminate
  <2>5. active' \subseteq Semaphores
    BY DEF Terminate
  <2> QED
    BY <2>1, <2>2, <2>3, <2>4, <2>5 DEF SemTypeOK
<1>6. DeviceTypeOK'
  BY DEF Terminate, DeviceTypeOK
<1> QED
  BY <1>3, <1>4, <1>5, <1>6, TypeInvParts

LEMMA SignalDevicesType ==
  ASSUME TypeInv, NEW S \in SUBSET DeviceSems, NEW rq \in Seq(Pcbs),
         SignalDevices(S, rq)
  PROVE  TypeInv'
<1> USE DEF TypeInv, TypeOK
<1>1. Signalled(S) \in SUBSET Semaphores
  BY DEF Signalled, Semaphores
<1>2. /\ semAdd' \in [Pcbs -> Semaphores \cup {NULL}]
      /\ blocked' \in [Semaphores -> Seq(Pcbs)]
      /\ active' \subseteq Semaphores
  BY <1>1, RemoveBlockedType DEF SignalDevices
<1>3. softBlockCount' \in Int
  <2>1. FirstBlocked(Signalled(S)) \subseteq Pcbs
    <3> SUFFICES ASSUME NEW s \in Semaphores, blocked[s] # <<>>
                 PROVE  Head(blocked[s]) \in Pcbs
      BY <1>1 DEF FirstBlocked
    <3> QED
      BY TailLists
  <2>2. Cardinality(FirstBlocked(Signalled(S))) \in Nat
    BY <2>1, FinitePcbs
  <2> QED
    BY <2>2 DEF SignalDevices
<1>4. sem' \in [Semaphores -> Int]
  BY DEF SignalDevices
<1>5. CpuTypeOK'
  <2>1. CpuTypeOK
    BY DEF CpuTypeOK
  <2> QED
    BY <2>1, ResumeOrScheduleType DEF SignalDevices
<1>6. DeviceTypeOK'
  <2>1. Idle \in DeviceState
    BY DEF Idle, DeviceState
  <2> QED
    BY <2>1 DEF SignalDevices, Acknowledge, DeviceTypeOK
<1>7. ProcTypeOK'
  BY DEF SignalDevices, procVars, ProcTypeOK
<1> QED
  BY <1>2, <1>3, <1>4, <1>5, <1>6, <1>7, TypeInvParts DEF SemTypeOK

LEMMA TypeInvInit == Init => TypeInv
<1> SUFFICES ASSUME Init PROVE TypeInv
  OBVIOUS
<1>1. rootProcess \in Pcbs /\ NULL \notin Pcbs
  BY PcbsAssumption
<1>2. <<>> \in Seq(Pcbs)
  OBVIOUS
<1>3. device \in [IoDevices -> DeviceState]
  BY DEF Init, Idle, DeviceState
<1> QED
  BY <1>1, <1>2, <1>3 DEF Init, TypeInv, TypeOK, ModeOK

LEMMA DescendantsAreLive ==
  ASSUME NEW t
  PROVE  Descendants(t) \subseteq Live /\ Descendants(t) \subseteq Pcbs
BY DEF Descendants, Live

(* Every step of the nucleus keeps the types.                               *)
LEMMA TypeInvStep == TypeInv /\ [Next]_vars => TypeInv'
<1> SUFFICES ASSUME TypeInv, [Next]_vars PROVE TypeInv'
  OBVIOUS
<1> USE DEF Running
<1>0. /\ CpuTypeOK /\ ProcTypeOK /\ SemTypeOK /\ DeviceTypeOK
      /\ Running => currentProcess \in Pcbs
  BY TypeInvParts DEF CpuTypeOK, ModeOK
<1>1. ASSUME NEW p \in Pcbs, NEW k \in Prios, CreateProcess(p, k)
      PROVE  TypeInv'
  <2>1. readyQueue' \in Seq(Pcbs)
    BY <1>0, <1>1, InsertProcQLists DEF CreateProcess, CpuTypeOK
  <2>2. CpuTypeOK'
    BY <1>0, <1>1, <2>1 DEF CreateProcess, CpuTypeOK, ModeOK
  <2>3. ProcTypeOK'
    BY <1>0, <1>1, PcbsAssumption DEF CreateProcess, ProcTypeOK
  <2>4. SemTypeOK' /\ DeviceTypeOK'
    BY <1>0, <1>1 DEF CreateProcess, SemTypeOK, DeviceTypeOK, semVars
  <2> QED
    BY <2>2, <2>3, <2>4, TypeInvParts
<1>2. ASSUME NEW t \in Pcbs, TerminateProcess(t) PROVE TypeInv'
  BY <1>2, DescendantsAreLive, TerminateType DEF TerminateProcess
<1>3. CASE Die
  BY <1>3, DescendantsAreLive, TerminateType DEF Die
<1>4. ASSUME NEW s \in UserSems, Passeren(s) PROVE TypeInv'
  <2>1. s \in Semaphores
    BY DEF Semaphores
  <2>2. sem' \in [Semaphores -> Int]
    BY <1>0, <1>4, <2>1 DEF Passeren, SemTypeOK
  <2>3. ProcTypeOK' /\ DeviceTypeOK'
    BY <1>0, <1>4 DEF Passeren, procVars, ProcTypeOK, DeviceTypeOK
  <2>4. CASE sem'[s] < 0
    BY <1>4, <2>1, <2>2, <2>3, <2>4, BlockType, TypeInvParts DEF Passeren
  <2>5. CASE ~(sem'[s] < 0)
    <3>1. CpuTypeOK' /\ SemTypeOK'
      BY <1>0, <1>4, <2>2, <2>5
      DEF Passeren, cpuVars, CpuTypeOK, ModeOK, SemTypeOK
    <3> QED
      BY <2>3, <3>1, TypeInvParts
  <2> QED
    BY <2>4, <2>5
<1>5. ASSUME NEW s \in UserSems, Verhogen(s) PROVE TypeInv'
  <2>1. s \in Semaphores /\ {s} \in SUBSET Semaphores
    BY DEF Semaphores
  <2>2. sem' \in [Semaphores -> Int]
    BY <1>0, <1>5, <2>1 DEF Verhogen, SemTypeOK
  <2>3. /\ semAdd' \in [Pcbs -> Semaphores \cup {NULL}]
        /\ blocked' \in [Semaphores -> Seq(Pcbs)]
        /\ active' \subseteq Semaphores
        /\ readyQueue' \in Seq(Pcbs)
    <3>1. CASE sem'[s] <= 0
      BY <1>0, <1>5, <2>1, <3>1, RemoveBlockedType, WithFirstBlockedType
      DEF Verhogen, CpuTypeOK
    <3>2. CASE ~(sem'[s] <= 0)
      BY <1>0, <1>5, <3>2 DEF Verhogen, CpuTypeOK, SemTypeOK
    <3> QED
      BY <3>1, <3>2
  <2>4. CpuTypeOK' /\ SemTypeOK' /\ ProcTypeOK' /\ DeviceTypeOK'
    BY <1>0, <1>5, <2>2, <2>3
    DEF Verhogen, procVars, CpuTypeOK, ModeOK, SemTypeOK, ProcTypeOK, DeviceTypeOK
  <2> QED
    BY <2>4, TypeInvParts
<1>6. ASSUME NEW i \in IoDevices, DoIO(i) PROVE TypeInv'
  <2>1. i \in Semaphores
    BY DEF Semaphores, IoDevices
  <2>2. sem' \in [Semaphores -> Int]
    BY <1>0, <1>6, <2>1 DEF DoIO, SemTypeOK
  <2>3. DeviceTypeOK'
    BY <1>0, <1>6 DEF DoIO, CommandWritten, DeviceTypeOK, DeviceState
  <2>4. ProcTypeOK'
    BY <1>0, <1>6 DEF DoIO, procVars, ProcTypeOK
  <2> QED
    BY <1>6, <2>1, <2>2, <2>3, <2>4, BlockType, TypeInvParts DEF DoIO
<1>7. CASE WaitForClock
  <2>1. Clock \in Semaphores
    BY SemaphoresAssumption DEF Semaphores
  <2>2. sem' \in [Semaphores -> Int]
    BY <1>0, <1>7, <2>1 DEF WaitForClock, SemTypeOK
  <2>3. ProcTypeOK' /\ DeviceTypeOK'
    BY <1>0, <1>7 DEF WaitForClock, procVars, ProcTypeOK, DeviceTypeOK
  <2> QED
    BY <1>7, <2>1, <2>2, <2>3, BlockType, TypeInvParts DEF WaitForClock
<1>8. CASE Yield \/ TimerInterrupt
  <2>1. Running /\ Requeue /\ UNCHANGED <<procVars, semVars, device>>
    BY <1>8 DEF Yield, TimerInterrupt
  <2>2. InsertProcQ(readyQueue, currentProcess, prio) \in Seq(Pcbs)
    BY <1>0, <2>1, InsertProcQLists DEF CpuTypeOK
  <2>3. CpuTypeOK'
    BY <2>1, <2>2, ScheduleType DEF Requeue
  <2>4. ProcTypeOK' /\ SemTypeOK' /\ DeviceTypeOK'
    BY <1>0, <2>1 DEF procVars, semVars, ProcTypeOK, SemTypeOK, DeviceTypeOK
  <2> QED
    BY <2>3, <2>4, TypeInvParts
<1>9. CASE ClockTick
  <2>1. Clock \in Semaphores /\ blocked[Clock] \in Seq(Pcbs)
    BY <1>0, SemaphoresAssumption DEF Semaphores, SemTypeOK
  <2>2. InsertAllProcQ(readyQueue, blocked[Clock], prio) \in Seq(Pcbs)
    BY <1>0, <2>1, InsertAllProcQLists DEF CpuTypeOK, ProcTypeOK
  <2>3. CpuTypeOK'
    BY <1>0, <1>9, <2>2, ResumeOrScheduleType DEF ClockTick
  <2>4. SemTypeOK'
    BY <1>0, <1>9, <2>1 DEF ClockTick, SemTypeOK
  <2>5. ProcTypeOK' /\ DeviceTypeOK'
    BY <1>0, <1>9 DEF ClockTick, procVars, ProcTypeOK, DeviceTypeOK
  <2> QED
    BY <2>3, <2>4, <2>5, TypeInvParts
<1>10. ASSUME NEW i \in PlainDevices, DeviceInterrupt(i) PROVE TypeInv'
  <2>1. {i} \in SUBSET DeviceSems /\ i \in Semaphores
    BY DEF PlainDevices, Semaphores
  <2>2. WithSignalled(readyQueue, i) \in Seq(Pcbs)
    BY <1>0, <2>1, WithFirstBlockedType DEF CpuTypeOK
  <2> QED
    BY <1>10, <2>1, <2>2, SignalDevicesType DEF DeviceInterrupt
<1>11. ASSUME NEW d \in Terminals, TerminalInterrupt(d) PROVE TypeInv'
  <2>1. 40 + d \in DeviceSems /\ 32 + d \in DeviceSems
    BY SemaphoresAssumption DEF Terminals
  <2>2. 40 + d \in Semaphores /\ 32 + d \in Semaphores
    BY <2>1 DEF Semaphores
  <2>3. {40 + d, 32 + d} \in SUBSET DeviceSems
    BY <2>1
  <2>4. WithSignalled(readyQueue, 40 + d) \in Seq(Pcbs)
    BY <1>0, <2>2, WithFirstBlockedType DEF CpuTypeOK
  <2>5. WithSignalled(WithSignalled(readyQueue, 40 + d), 32 + d) \in Seq(Pcbs)
    BY <2>2, <2>4, WithFirstBlockedType
  <2> QED
    BY <1>11, <2>3, <2>5, SignalDevicesType DEF TerminalInterrupt
<1>12. ASSUME NEW i \in IoDevices, DeviceFinishes(i) PROVE TypeInv'
  <2>1. DeviceTypeOK'
    BY <1>0, <1>12 DEF DeviceFinishes, DeviceTypeOK, DeviceState
  <2>2. CpuTypeOK' /\ ProcTypeOK' /\ SemTypeOK'
    BY <1>0, <1>12
    DEF DeviceFinishes, procVars, cpuVars, semVars,
        CpuTypeOK, ModeOK, ProcTypeOK, SemTypeOK
  <2> QED
    BY <2>1, <2>2, TypeInvParts
<1>13. CASE UNCHANGED vars
  BY <1>13
  DEF TypeInv, TypeOK, ModeOK, vars, procVars, cpuVars, semVars
<1>14. CASE Stopped
  BY <1>13, <1>14 DEF Stopped
<1> QED
  BY <1>1, <1>2, <1>3, <1>4, <1>5, <1>6, <1>7, <1>8, <1>9, <1>10, <1>11,
     <1>12, <1>13, <1>14 DEF Next

(* The variables keep their types, and the processor is with a process      *)
(* exactly when the last handler ended with an LDST.                        *)
THEOREM TypeCorrect == Spec => []TypeOK
<1>1. TypeInv => TypeOK
  BY DEF TypeInv
<1> QED
  BY <1>1, TypeInvInit, TypeInvStep, PTL DEF Spec

-----------------------------------------------------------------------------
(* Every process in one place.  First the parts of ProcessesPlaced that the *)
(* scheduler sets, and the others.                                          *)

Unblocked == {p \in Live : semAdd[p] = NULL}

CpuPlaced ==
  /\ ModeOK
  /\ currentProcess # NULL => currentProcess \in Unblocked
  /\ IsInjective(readyQueue)
  /\ Range(readyQueue) = Unblocked \ {currentProcess}

FreePlaced == \A p \in pcbFree : semAdd[p] = NULL

QueuePlaced(s) ==
  /\ IsInjective(blocked[s])
  /\ Range(blocked[s]) = Waiters(s)
  /\ Waiters(s) # {} => s \in active

QueuesPlaced == \A s \in Semaphores : QueuePlaced(s)

LEMMA PlacedParts ==
  /\ ProcessesPlaced <=> CpuPlaced /\ FreePlaced /\ QueuesPlaced
  /\ ProcessesPlaced' <=> CpuPlaced' /\ FreePlaced' /\ QueuesPlaced'
BY DEF ProcessesPlaced, CpuPlaced, FreePlaced, QueuesPlaced, QueuePlaced,
       ModeOK, Unblocked

Placed == TypeInv /\ CpuPlaced /\ FreePlaced /\ QueuesPlaced

(* Who is where, of an unblocked process, a waiter and a first waiter.      *)
LEMMA Places ==
  ASSUME Placed
  PROVE  /\ NULL \notin Pcbs /\ NULL \notin Semaphores
         /\ Live \subseteq Pcbs /\ Unblocked \subseteq Pcbs
         /\ \A s \in Semaphores : Waiters(s) \subseteq Live \ Unblocked
         /\ \A s, t \in Semaphores : s # t => Waiters(s) \cap Waiters(t) = {}
<1> USE DEF Placed
<1>1. NULL \notin Pcbs /\ NULL \notin Semaphores
  BY PcbsAssumption, SemaphoresAssumption
<1> QED
  BY <1>1 DEF Live, Unblocked, Waiters, FreePlaced

LEMMA FiniteSemaphores ==
  IsFiniteSet(Semaphores) /\ Cardinality(Semaphores) \in Nat
<1>1. IsFiniteSet(0..48)
  <2>1. \A a, b \in Int : IsFiniteSet(a..b)
    BY FS_Interval
  <2>2. 0 \in Int /\ 48 \in Int
    OBVIOUS
  <2> QED
    BY <2>1, <2>2, Zenon
<1>2. IsFiniteSet(DeviceSems)
  BY <1>1, FS_Subset, SemaphoresAssumption
<1>3. IsFiniteSet(DeviceSems \cup UserSems)
  BY <1>2, FS_Union, SemaphoresAssumption
<1> QED
  BY <1>3, FS_CardinalityType DEF Semaphores

-----------------------------------------------------------------------------
(* What the helpers of the handlers do to the places.                       *)

LEMMA SchedulePlaces ==
  ASSUME NEW rq \in Seq(Pcbs), IsInjective(rq), Range(rq) = Unblocked',
         NEW n, NEW m, Schedule(rq, n, m)
  PROVE  CpuPlaced'
<1>0. NULL \notin Pcbs
  BY PcbsAssumption
<1>1. CASE rq # <<>>
  <2>1. /\ currentProcess' = Head(rq) /\ readyQueue' = Tail(rq)
        /\ mode' = "run"
    BY <1>1 DEF Schedule
  <2>2. /\ Head(rq) \in Pcbs /\ Head(rq) \in Range(rq)
        /\ IsInjective(Tail(rq))
        /\ Range(Tail(rq)) = Range(rq) \ {Head(rq)}
    BY <1>1, TailLists
  <2> QED
    BY <1>0, <2>1, <2>2 DEF CpuPlaced, ModeOK
<1>2. CASE rq = <<>>
  <2>1. /\ currentProcess' = NULL /\ readyQueue' = <<>>
        /\ mode' # "run"
    BY <1>2 DEF Schedule, StopMode
  <2>2. Range(<<>>) = {} /\ IsInjective(<<>>)
    BY <1>2, EmptyLists
  <2> QED
    BY <1>2, <2>1, <2>2 DEF CpuPlaced, ModeOK
<1> QED
  BY <1>1, <1>2

LEMMA ResumeOrSchedulePlaces ==
  ASSUME CpuPlaced, NEW rq \in Seq(Pcbs), IsInjective(rq),
         currentProcess # NULL => currentProcess \in Unblocked',
         Range(rq) = Unblocked' \ {currentProcess}, Unblocked' \subseteq Pcbs,
         NEW m, ResumeOrSchedule(rq, m)
  PROVE  CpuPlaced'
<1>1. CASE currentProcess # NULL
  BY <1>1 DEF ResumeOrSchedule, CpuPlaced, ModeOK
<1>2. CASE currentProcess = NULL
  <2>1. Range(rq) = Unblocked'
    BY <1>2, PcbsAssumption
  <2> QED
    BY <1>2, <2>1, SchedulePlaces DEF ResumeOrSchedule
<1> QED
  BY <1>1, <1>2

(* insertBlocked finds a descriptor.                                        *)
LEMMA DescriptorLeft ==
  ASSUME DescriptorsSuffice, TypeInv, NEW s \in Semaphores, s \notin active
  PROVE  Cardinality(active) < MAXPROC
<1>1. active \subseteq Semaphores /\ active # Semaphores
  BY DEF TypeInv, TypeOK
<1>2. /\ Cardinality(active) < Cardinality(Semaphores)
      /\ Cardinality(active) \in Nat /\ Cardinality(Semaphores) \in Nat
  BY <1>1, FiniteSemaphores, ProperSubset
<1> QED
  BY <1>2, PcbsAssumption DEF DescriptorsSuffice

LEMMA BlockPlaces ==
  ASSUME DescriptorsSuffice, Placed, Running, NEW s \in Semaphores,
         BlockCurrentProcess(s), pcbFree' = pcbFree
  PROVE  CpuPlaced' /\ FreePlaced' /\ QueuesPlaced'
<1> DEFINE c == currentProcess
<1>1. /\ c \in Pcbs /\ c \in Live /\ c \in Unblocked /\ semAdd[c] = NULL
      /\ c # NULL /\ s # NULL /\ c \notin pcbFree
      /\ c \notin Range(readyQueue)
      /\ \A t \in Semaphores : c \notin Waiters(t)
  BY Places DEF Placed, CpuPlaced, ModeOK, Running, Unblocked, Waiters, Live
<1>2. /\ semAdd \in [Pcbs -> Semaphores \cup {NULL}]
      /\ readyQueue \in Seq(Pcbs)
      /\ blocked \in [Semaphores -> Seq(Pcbs)]
  BY DEF Placed, TypeInv, TypeOK
<1>3. /\ semAdd' = [semAdd EXCEPT ![c] = s]
      /\ active' = active \cup {s}
      /\ blocked' = [blocked EXCEPT ![s] = InsertProcQ(blocked[s], c, prio)]
      /\ Schedule(readyQueue, processCount, softBlockCount')
  BY DescriptorLeft DEF Placed, BlockCurrentProcess, InsertBlocked
<1>4. \A t \in Semaphores :
        Waiters(t)' = IF t = s THEN Waiters(t) \cup {c} ELSE Waiters(t)
  BY <1>1, <1>2, <1>3 DEF Waiters
<1>5. Unblocked' = Unblocked \ {c}
  BY <1>1, <1>2, <1>3 DEF Unblocked, Live
<1>6. /\ IsInjective(blocked[s]) /\ Range(blocked[s]) = Waiters(s)
      /\ blocked[s] \in Seq(Pcbs)
  BY <1>2 DEF Placed, QueuesPlaced, QueuePlaced
<1>7. /\ IsInjective(InsertProcQ(blocked[s], c, prio))
      /\ Range(InsertProcQ(blocked[s], c, prio)) = Waiters(s) \cup {c}
  BY <1>1, <1>6, InsertProcQLists
<1>8. QueuesPlaced'
  <2> SUFFICES ASSUME NEW t \in Semaphores PROVE QueuePlaced(t)'
    BY DEF QueuesPlaced
  <2>1. CASE t = s
    <3>1. blocked'[t] = InsertProcQ(blocked[s], c, prio) /\ t \in active'
      BY <1>2, <1>3, <2>1
    <3> QED
      BY <1>4, <1>7, <2>1, <3>1 DEF QueuePlaced
  <2>2. CASE t # s
    <3>1. blocked'[t] = blocked[t] /\ (t \in active => t \in active')
      BY <1>2, <1>3, <2>2
    <3> QED
      BY <1>4, <2>2, <3>1 DEF Placed, QueuesPlaced, QueuePlaced
  <2> QED
    BY <2>1, <2>2
<1>9. FreePlaced'
  BY <1>1, <1>2, <1>3 DEF Placed, FreePlaced
<1>10. CpuPlaced'
  <2>1. IsInjective(readyQueue) /\ Range(readyQueue) = Unblocked'
    BY <1>5 DEF Placed, CpuPlaced
  <2> QED
    BY <1>2, <1>3, <2>1, SchedulePlaces
<1> QED
  BY <1>8, <1>9, <1>10

(* removeBlocked on the semaphores of S unblocks the first waiters.         *)
LEMMA RemoveBlockedPlaces ==
  ASSUME Placed, NEW S \in SUBSET Semaphores, RemoveBlocked(S),
         pcbFree' = pcbFree
  PROVE  /\ FreePlaced' /\ QueuesPlaced'
         /\ Unblocked' = Unblocked \cup FirstBlocked(S)
         /\ FirstBlocked(S) \subseteq Pcbs
         /\ FirstBlocked(S) \cap Unblocked = {}
<1> DEFINE First == FirstBlocked(S)
<1>1. /\ semAdd \in [Pcbs -> Semaphores \cup {NULL}]
      /\ blocked \in [Semaphores -> Seq(Pcbs)]
      /\ active \subseteq Semaphores
      /\ NULL \notin Semaphores
  BY Places DEF Placed, TypeInv, TypeOK
<1>2. /\ \A p \in Pcbs : semAdd'[p] = IF p \in First THEN NULL ELSE semAdd[p]
      /\ \A s \in Semaphores :
           blocked'[s] = IF s \in S /\ blocked[s] # <<>> THEN Tail(blocked[s])
                                                        ELSE blocked[s]
      /\ active' = active \ {s \in S : Len(blocked[s]) <= 1}
  BY DEF RemoveBlocked
<1>3. ASSUME NEW s \in Semaphores, blocked[s] # <<>>
      PROVE  /\ Head(blocked[s]) \in Waiters(s)
             /\ IsInjective(Tail(blocked[s]))
             /\ Range(Tail(blocked[s])) = Waiters(s) \ {Head(blocked[s])}
             /\ Len(blocked[s]) <= 1 => Range(Tail(blocked[s])) = {}
  <2>1. /\ blocked[s] \in Seq(Pcbs) /\ IsInjective(blocked[s])
        /\ Range(blocked[s]) = Waiters(s)
    BY <1>1 DEF Placed, QueuesPlaced, QueuePlaced
  <2>2. /\ Head(blocked[s]) \in Range(blocked[s])
        /\ IsInjective(Tail(blocked[s]))
        /\ Tail(blocked[s]) \in Seq(Pcbs)
        /\ Range(Tail(blocked[s])) = Range(blocked[s]) \ {Head(blocked[s])}
    BY <1>3, <2>1, TailLists
  <2>3. ASSUME Len(blocked[s]) <= 1 PROVE Range(Tail(blocked[s])) = {}
    <3>1. Tail(blocked[s]) = <<>>
      BY <1>3, <2>1, <2>3
    <3> QED
      BY <2>2, <3>1, EmptyLists
  <2> QED
    BY <2>1, <2>2, <2>3
<1>4. /\ \A p \in First : \E s \in S : blocked[s] # <<>> /\ p = Head(blocked[s])
      /\ \A s \in S : blocked[s] # <<>> => Head(blocked[s]) \in First
  BY DEF FirstBlocked
<1> HIDE DEF First
<1>5. /\ First \subseteq Live \ Unblocked /\ First \subseteq Pcbs
      /\ \A p \in First : semAdd[p] # NULL
  BY <1>3, <1>4, Places DEF Unblocked
<1>6. ASSUME NEW s \in Semaphores
      PROVE  /\ Waiters(s)' = Waiters(s) \ First
             /\ Waiters(s) \cap First =
                  IF s \in S /\ blocked[s] # <<>> THEN {Head(blocked[s])} ELSE {}
  <2>1. Waiters(s)' = Waiters(s) \ First
    BY <1>1, <1>2, <1>5 DEF Waiters
  <2>2. ASSUME NEW p \in Waiters(s), p \in First
        PROVE  s \in S /\ blocked[s] # <<>> /\ p = Head(blocked[s])
    <3>1. PICK t \in S : blocked[t] # <<>> /\ p = Head(blocked[t])
      BY <1>4, <2>2
    <3>2. p \in Waiters(t) /\ t \in Semaphores
      BY <1>3, <3>1
    <3> QED
      BY <2>2, <3>1, <3>2, Places
  <2>3. s \in S /\ blocked[s] # <<>>
          => Head(blocked[s]) \in First /\ Head(blocked[s]) \in Waiters(s)
    BY <1>3, <1>4
  <2> QED
    BY <2>1, <2>2, <2>3
<1>7. QueuesPlaced'
  <2> SUFFICES ASSUME NEW s \in Semaphores PROVE QueuePlaced(s)'
    BY DEF QueuesPlaced
  <2>1. QueuePlaced(s)
    BY DEF Placed, QueuesPlaced
  <2>2. CASE s \in S /\ blocked[s] # <<>>
    <3>1. blocked'[s] = Tail(blocked[s])
      BY <1>2, <2>2
    <3>2. Waiters(s)' = Waiters(s) \ {Head(blocked[s])}
      BY <1>6, <2>2
    <3>3. Waiters(s)' # {} => s \in active'
      BY <1>2, <1>3, <2>1, <2>2, <3>2 DEF QueuePlaced
    <3> QED
      BY <1>3, <2>2, <3>1, <3>2, <3>3 DEF QueuePlaced
  <2>3. CASE ~(s \in S /\ blocked[s] # <<>>)
    <3>1. blocked'[s] = blocked[s]
      BY <1>2, <2>3
    <3>2. Waiters(s)' = Waiters(s)
      BY <1>6, <2>3
    <3>3. Waiters(s)' # {} => s \in active'
      <4>1. CASE s \in S
        <5>1. Range(blocked[s]) = {}
          BY <2>3, <4>1, <1>1, EmptyLists
        <5> QED
          BY <2>1, <3>2, <5>1 DEF QueuePlaced
      <4>2. CASE s \notin S
        BY <1>2, <2>1, <3>2, <4>2 DEF QueuePlaced
      <4> QED
        BY <4>1, <4>2
    <3> QED
      BY <2>1, <3>1, <3>2, <3>3 DEF QueuePlaced
  <2> QED
    BY <2>2, <2>3
<1>8. Unblocked' = Unblocked \cup First
  BY <1>2, <1>5, Places DEF Unblocked, Live
<1>9. FreePlaced'
  BY <1>2, Places DEF Placed, FreePlaced, TypeInv, TypeOK
<1> QED
  BY <1>5, <1>7, <1>8, <1>9 DEF First

(* The process that removeBlocked returned joins the queue q.               *)
LEMMA FirstBlockedJoins ==
  ASSUME Placed, NEW q \in Seq(Pcbs), NEW s \in Semaphores,
         IsInjective(q), Range(q) \cap FirstBlocked({s}) = {}
  PROVE  /\ WithFirstBlocked(q, s) \in Seq(Pcbs)
         /\ IsInjective(WithFirstBlocked(q, s))
         /\ Range(WithFirstBlocked(q, s)) = Range(q) \cup FirstBlocked({s})
<1>1. CASE blocked[s] = <<>>
  BY <1>1 DEF WithFirstBlocked, FirstBlocked
<1>2. CASE blocked[s] # <<>>
  <2> DEFINE h == Head(blocked[s])
  <2>1. FirstBlocked({s}) = {h}
    BY <1>2 DEF FirstBlocked
  <2>2. h \in Pcbs
    BY <1>2, TailLists DEF Placed, TypeInv, TypeOK
  <2>3. WithFirstBlocked(q, s) = InsertProcQ(q, h, prio)
    BY <1>2 DEF WithFirstBlocked
  <2> HIDE DEF h
  <2>4. h \notin Range(q)
    BY <2>1
  <2>5. /\ InsertProcQ(q, h, prio) \in Seq(Pcbs)
        /\ IsInjective(InsertProcQ(q, h, prio))
        /\ Range(InsertProcQ(q, h, prio)) = Range(q) \cup {h}
    BY <2>2, <2>4, InsertProcQLists
  <2> QED
    BY <2>1, <2>3, <2>5
<1> QED
  BY <1>1, <1>2

(* The V of the interrupt handler on the device semaphores S.               *)
LEMMA SignalPlaces ==
  ASSUME Placed, NEW S \in SUBSET DeviceSems, NEW rq \in Seq(Pcbs),
         IsInjective(rq),
         Range(rq) = Range(readyQueue) \cup FirstBlocked(Signalled(S)),
         SignalDevices(S, rq)
  PROVE  CpuPlaced' /\ FreePlaced' /\ QueuesPlaced'
<1> DEFINE First == FirstBlocked(Signalled(S))
<1>1. Signalled(S) \in SUBSET Semaphores
  BY DEF Signalled, Semaphores
<1>2. /\ RemoveBlocked(Signalled(S)) /\ pcbFree' = pcbFree
      /\ ResumeOrSchedule(rq, softBlockCount')
  BY DEF SignalDevices, procVars
<1>3. /\ FreePlaced' /\ QueuesPlaced'
      /\ Unblocked' = Unblocked \cup First
      /\ First \subseteq Pcbs /\ First \cap Unblocked = {}
  BY <1>1, <1>2, RemoveBlockedPlaces
<1> HIDE DEF First
<1>4. /\ CpuPlaced /\ Unblocked \subseteq Pcbs /\ NULL \notin Pcbs
      /\ currentProcess # NULL => currentProcess \in Unblocked
      /\ Range(readyQueue) = Unblocked \ {currentProcess}
  BY Places DEF Placed, CpuPlaced
<1>5. /\ Range(rq) = Unblocked' \ {currentProcess}
      /\ Unblocked' \subseteq Pcbs
      /\ currentProcess # NULL => currentProcess \in Unblocked'
  BY <1>3, <1>4 DEF First
<1>6. CpuPlaced'
  BY <1>2, <1>4, <1>5, ResumeOrSchedulePlaces
<1> QED
  BY <1>3, <1>6

(* The V of the interrupt handler on one semaphore of a list of them.       *)
LEMMA SignalledJoins ==
  ASSUME Placed, NEW q \in Seq(Pcbs), NEW s \in Semaphores,
         IsInjective(q), Range(q) \cap FirstBlocked({s}) = {}
  PROVE  /\ WithSignalled(q, s) \in Seq(Pcbs)
         /\ IsInjective(WithSignalled(q, s))
         /\ Range(WithSignalled(q, s))
              = Range(q) \cup FirstBlocked(Signalled({s}))
<1>1. CASE sem[s] < 0
  <2>1. Signalled({s}) = {s}
    BY <1>1 DEF Signalled
  <2> QED
    BY <1>1, <2>1, FirstBlockedJoins DEF WithSignalled
<1>2. CASE ~(sem[s] < 0)
  <2>1. Signalled({s}) = {}
    BY <1>2 DEF Signalled
  <2> QED
    BY <1>2, <2>1 DEF WithSignalled, FirstBlocked
<1> QED
  BY <1>1, <1>2

(* A subtree D of the live processes is terminated.                         *)
LEMMA RemovedWaiters ==
  ASSUME Placed, NEW D, NEW s \in Semaphores
  PROVE  Removed(D, s) = D \cap Waiters(s)
<1>1. Range(blocked[s]) = Waiters(s) /\ Waiters(s) \subseteq Pcbs
  BY DEF Placed, QueuesPlaced, QueuePlaced, Waiters
<1> QED
  BY <1>1 DEF Removed, Waiters

LEMMA TerminatePlaces ==
  ASSUME Placed, NEW D, D \subseteq Live, Terminate(D)
  PROVE  CpuPlaced' /\ FreePlaced' /\ QueuesPlaced'
<1> DEFINE rq == OutAllProcQ(readyQueue, D)
<1>1. /\ semAdd \in [Pcbs -> Semaphores \cup {NULL}]
      /\ blocked \in [Semaphores -> Seq(Pcbs)]
      /\ readyQueue \in Seq(Pcbs)
      /\ NULL \notin Semaphores /\ NULL \notin Pcbs
      /\ D \subseteq Pcbs
  BY Places DEF Placed, TypeInv, TypeOK
<1>2. /\ pcbFree' = pcbFree \cup D
      /\ active' = active
      /\ \A p \in Pcbs : semAdd'[p] = IF p \in D THEN NULL ELSE semAdd[p]
      /\ \A s \in Semaphores :
           blocked'[s] = OutAllProcQ(blocked[s], Removed(D, s))
  BY DEF Terminate
<1>3. FreePlaced'
  BY <1>1, <1>2 DEF Placed, FreePlaced, TypeInv, TypeOK
<1>4. QueuesPlaced'
  <2> SUFFICES ASSUME NEW s \in Semaphores PROVE QueuePlaced(s)'
    BY DEF QueuesPlaced
  <2>1. /\ QueuePlaced(s) /\ blocked[s] \in Seq(Pcbs)
        /\ IsInjective(blocked[s]) /\ Range(blocked[s]) = Waiters(s)
    BY <1>1 DEF Placed, QueuesPlaced, QueuePlaced
  <2>2. Waiters(s)' = Waiters(s) \ D
    BY <1>1, <1>2 DEF Waiters
  <2>3. /\ IsInjective(OutAllProcQ(blocked[s], Removed(D, s)))
        /\ Range(OutAllProcQ(blocked[s], Removed(D, s)))
             = Waiters(s) \ Removed(D, s)
    BY <2>1, OutAllProcQLists
  <2>4. Waiters(s) \ Removed(D, s) = Waiters(s) \ D
    BY RemovedWaiters
  <2> QED
    BY <1>2, <2>1, <2>2, <2>3, <2>4 DEF QueuePlaced
<1>5. Unblocked' = Unblocked \ D
  BY <1>1, <1>2 DEF Unblocked, Live
<1>6. /\ rq \in Seq(Pcbs) /\ IsInjective(rq)
      /\ Range(rq) = Range(readyQueue) \ D
  BY <1>1, OutAllProcQLists DEF Placed, CpuPlaced
<1>7. /\ currentProcess \in D => Schedule(rq, processCount', softBlockCount')
      /\ currentProcess \notin D =>
           readyQueue' = rq /\ currentProcess' = currentProcess /\ mode' = mode
  BY DEF Terminate
<1> HIDE DEF rq
<1>8. CpuPlaced'
  <2>1. CASE currentProcess \in D
    <3>1. Range(rq) = Unblocked'
      BY <1>5, <1>6, <2>1 DEF Placed, CpuPlaced
    <3> QED
      BY <1>6, <1>7, <2>1, <3>1, SchedulePlaces
  <2>2. CASE currentProcess \notin D
    BY <1>5, <1>6, <1>7, <2>2 DEF Placed, CpuPlaced, ModeOK
  <2> QED
    BY <2>1, <2>2
<1> QED
  BY <1>3, <1>4, <1>8

-----------------------------------------------------------------------------
(* Every handler keeps the places.                                          *)

LEMMA FirstAreWaiters ==
  ASSUME Placed
  PROVE  /\ \A s \in Semaphores : FirstBlocked({s}) \subseteq Waiters(s)
         /\ \A S \in SUBSET Semaphores :
              FirstBlocked(S) \cap Range(readyQueue) = {}
<1>1. ASSUME NEW s \in Semaphores, blocked[s] # <<>>
      PROVE  Head(blocked[s]) \in Waiters(s)
  BY <1>1, TailLists
  DEF Placed, TypeInv, TypeOK, QueuesPlaced, QueuePlaced
<1>2. Range(readyQueue) \subseteq Unblocked
  BY DEF Placed, CpuPlaced
<1> QED
  BY <1>1, <1>2, Places DEF FirstBlocked

LEMMA UnchangedPlaces ==
  ASSUME Placed, UNCHANGED <<pcbFree, semAdd, blocked, active, cpuVars>>
  PROVE  CpuPlaced' /\ FreePlaced' /\ QueuesPlaced'
BY DEF Placed, CpuPlaced, FreePlaced, QueuesPlaced, QueuePlaced, ModeOK,
       Unblocked, Live, Waiters, cpuVars

LEMMA CreatePlaces ==
  ASSUME Placed, NEW p \in Pcbs, NEW k \in Prios, CreateProcess(p, k)
  PROVE  CpuPlaced' /\ FreePlaced' /\ QueuesPlaced'
<1>1. /\ p \in pcbFree /\ pcbFree' = pcbFree \ {p}
      /\ readyQueue' = InsertProcQ(readyQueue, p, prio')
      /\ UNCHANGED <<currentProcess, mode, semAdd, blocked, active>>
  BY DEF CreateProcess, semVars
<1>2. /\ semAdd[p] = NULL /\ p \notin Unblocked
      /\ Unblocked' = Unblocked \cup {p}
  BY <1>1 DEF Placed, FreePlaced, Unblocked, Live
<1>3. p \notin Range(readyQueue) /\ readyQueue \in Seq(Pcbs)
  BY <1>2 DEF Placed, CpuPlaced, TypeInv, TypeOK
<1>4. /\ IsInjective(readyQueue')
      /\ Range(readyQueue') = Range(readyQueue) \cup {p}
  BY <1>1, <1>3, InsertProcQLists DEF Placed, CpuPlaced
<1>5. p # currentProcess
  BY <1>2, PcbsAssumption DEF Placed, CpuPlaced
<1>6. CpuPlaced'
  BY <1>1, <1>2, <1>4, <1>5 DEF Placed, CpuPlaced, ModeOK
<1>7. FreePlaced' /\ QueuesPlaced'
  BY <1>1 DEF Placed, FreePlaced, QueuesPlaced, QueuePlaced, Waiters
<1> QED
  BY <1>6, <1>7

LEMMA VerhogenPlaces ==
  ASSUME Placed, NEW s \in UserSems, Verhogen(s)
  PROVE  CpuPlaced' /\ FreePlaced' /\ QueuesPlaced'
<1>1. s \in Semaphores /\ {s} \in SUBSET Semaphores
  BY DEF Semaphores
<1>2. /\ UNCHANGED <<pcbFree, currentProcess, mode>>
      /\ \/ /\ RemoveBlocked({s})
            /\ readyQueue' = WithFirstBlocked(readyQueue, s)
         \/ UNCHANGED <<blocked, active, semAdd, readyQueue>>
  BY DEF Verhogen, procVars
<1>3. CASE UNCHANGED <<blocked, active, semAdd, readyQueue>>
  BY <1>2, <1>3, UnchangedPlaces DEF cpuVars
<1>4. CASE /\ RemoveBlocked({s})
           /\ readyQueue' = WithFirstBlocked(readyQueue, s)
  <2>1. /\ FreePlaced' /\ QueuesPlaced'
        /\ Unblocked' = Unblocked \cup FirstBlocked({s})
        /\ FirstBlocked({s}) \cap Unblocked = {}
        /\ FirstBlocked({s}) \subseteq Pcbs
    BY <1>1, <1>2, <1>4, RemoveBlockedPlaces
  <2>2. /\ readyQueue \in Seq(Pcbs) /\ IsInjective(readyQueue)
        /\ Range(readyQueue) = Unblocked \ {currentProcess}
        /\ currentProcess # NULL => currentProcess \in Unblocked
        /\ NULL \notin Pcbs
    BY PcbsAssumption DEF Placed, CpuPlaced, TypeInv, TypeOK
  <2>3. /\ IsInjective(readyQueue')
        /\ Range(readyQueue') = Range(readyQueue) \cup FirstBlocked({s})
    BY <1>1, <1>4, <2>1, <2>2, FirstBlockedJoins
  <2>4. Range(readyQueue') = Unblocked' \ {currentProcess}
    BY <2>1, <2>2, <2>3
  <2>5. CpuPlaced'
    BY <1>2, <2>1, <2>2, <2>3, <2>4 DEF Placed, CpuPlaced, ModeOK
  <2> QED
    BY <2>1, <2>5
<1> QED
  BY <1>2, <1>3, <1>4

LEMMA RequeuePlaces ==
  ASSUME Placed, Running, Requeue, UNCHANGED <<pcbFree, semAdd, blocked, active>>
  PROVE  CpuPlaced' /\ FreePlaced' /\ QueuesPlaced'
<1> DEFINE c == currentProcess
           rq == InsertProcQ(readyQueue, c, prio)
<1>1. /\ c \in Unblocked /\ c \in Pcbs
      /\ readyQueue \in Seq(Pcbs) /\ IsInjective(readyQueue)
      /\ Range(readyQueue) = Unblocked \ {c}
  BY Places DEF Placed, CpuPlaced, ModeOK, Running, TypeInv, TypeOK
<1>2. /\ rq \in Seq(Pcbs) /\ IsInjective(rq)
      /\ Range(rq) = Range(readyQueue) \cup {c}
  BY <1>1, InsertProcQLists
<1>3. Unblocked' = Unblocked
  BY DEF Unblocked, Live
<1>4. Schedule(rq, processCount, softBlockCount)
  BY DEF Requeue
<1> HIDE DEF rq
<1>5. Range(rq) = Unblocked'
  BY <1>1, <1>2, <1>3
<1>6. CpuPlaced'
  BY <1>2, <1>4, <1>5, SchedulePlaces
<1> QED
  BY <1>6 DEF Placed, FreePlaced, QueuesPlaced, QueuePlaced, Waiters

LEMMA ClockTickPlaces ==
  ASSUME Placed, ClockTick
  PROVE  CpuPlaced' /\ FreePlaced' /\ QueuesPlaced'
<1> DEFINE woken == blocked[Clock]
           rq == InsertAllProcQ(readyQueue, woken, prio)
           W == Waiters(Clock)
<1>1. /\ Clock \in Semaphores
      /\ woken \in Seq(Pcbs) /\ IsInjective(woken) /\ Range(woken) = W
      /\ readyQueue \in Seq(Pcbs) /\ IsInjective(readyQueue)
      /\ prio \in [Pcbs -> Int]
      /\ blocked \in [Semaphores -> Seq(Pcbs)]
      /\ semAdd \in [Pcbs -> Semaphores \cup {NULL}]
  <2>1. Clock \in Semaphores
    BY SemaphoresAssumption DEF Semaphores
  <2> QED
    BY <2>1
    DEF Placed, TypeInv, TypeOK, CpuPlaced, QueuesPlaced, QueuePlaced
<1>2. /\ W \subseteq Live \ Unblocked /\ Unblocked \subseteq Pcbs
      /\ Live \subseteq Pcbs
      /\ NULL \notin Pcbs /\ NULL \notin Semaphores
      /\ \A s \in Semaphores : s # Clock => Waiters(s) \cap W = {}
  BY <1>1, Places
<1>3. /\ Range(readyQueue) = Unblocked \ {currentProcess}
      /\ currentProcess # NULL => currentProcess \in Unblocked
  BY DEF Placed, CpuPlaced
<1>4. /\ blocked' = [blocked EXCEPT ![Clock] = <<>>]
      /\ active' = active \ {Clock}
      /\ pcbFree' = pcbFree
      /\ \A p \in Pcbs : semAdd'[p] = IF p \in Range(woken) THEN NULL
                                                          ELSE semAdd[p]
      /\ ResumeOrSchedule(rq, softBlockCount')
  BY DEF ClockTick, procVars
<1> HIDE DEF woken, W
<1>5. /\ rq \in Seq(Pcbs)
      /\ Range(rq) = Range(readyQueue) \cup Range(woken)
      /\ IsInjective(rq)
  <2>1. Range(readyQueue) \cap Range(woken) = {}
    BY <1>1, <1>2, <1>3
  <2>2. /\ readyQueue \in Seq(Pcbs) /\ woken \in Seq(Pcbs)
        /\ prio \in [Pcbs -> Int]
    BY <1>1
  <2>3. rq \in Seq(Pcbs) /\ Range(rq) = Range(readyQueue) \cup Range(woken)
    BY <2>2, InsertAllProcQLists
  <2>4. IsInjective(readyQueue) /\ IsInjective(woken)
    BY <1>1
  <2>5. IsInjective(rq)
    BY <2>1, <2>2, <2>4, InsertAllProcQLists
  <2> QED
    BY <2>3, <2>5
<1> HIDE DEF rq
<1>6. Unblocked' = Unblocked \cup W
  BY <1>1, <1>2, <1>4 DEF Unblocked, Live
<1>7. CpuPlaced'
  <2>1. /\ Range(rq) = Unblocked' \ {currentProcess}
        /\ Unblocked' \subseteq Pcbs
        /\ currentProcess # NULL => currentProcess \in Unblocked'
    BY <1>1, <1>2, <1>3, <1>5, <1>6
  <2> QED
    BY <1>4, <1>5, <2>1, ResumeOrSchedulePlaces DEF Placed
<1>8. FreePlaced'
  BY <1>1, <1>4 DEF Placed, FreePlaced, TypeInv, TypeOK
<1>9. QueuesPlaced'
  <2> SUFFICES ASSUME NEW s \in Semaphores PROVE QueuePlaced(s)'
    BY DEF QueuesPlaced
  <2>1. CASE s = Clock
    <3>1. blocked'[s] = <<>>
      BY <1>1, <1>4, <2>1
    <3>2. Waiters(s)' = {}
      BY <1>1, <1>2, <1>4, <2>1 DEF Waiters, W
    <3>3. IsInjective(<<>>) /\ Range(<<>>) = {}
      BY <1>1, EmptyLists
    <3> QED
      BY <3>1, <3>2, <3>3 DEF QueuePlaced
  <2>2. CASE s # Clock
    <3>1. blocked'[s] = blocked[s] /\ (s \in active => s \in active')
      BY <1>1, <1>4, <2>2
    <3>2. Waiters(s)' = Waiters(s)
      BY <1>1, <1>2, <1>4, <2>2 DEF Waiters
    <3> QED
      BY <3>1, <3>2 DEF Placed, QueuesPlaced, QueuePlaced
  <2> QED
    BY <2>1, <2>2
<1> QED
  BY <1>7, <1>8, <1>9

LEMMA DeviceInterruptPlaces ==
  ASSUME Placed, NEW i \in PlainDevices, DeviceInterrupt(i)
  PROVE  CpuPlaced' /\ FreePlaced' /\ QueuesPlaced'
<1>1. i \in Semaphores /\ {i} \in SUBSET Semaphores /\ {i} \in SUBSET DeviceSems
  BY DEF PlainDevices, Semaphores
<1>2. readyQueue \in Seq(Pcbs) /\ IsInjective(readyQueue)
  BY DEF Placed, TypeInv, TypeOK, CpuPlaced
<1>3. Range(readyQueue) \cap FirstBlocked({i}) = {}
  BY <1>1, FirstAreWaiters
<1>4. /\ WithSignalled(readyQueue, i) \in Seq(Pcbs)
      /\ IsInjective(WithSignalled(readyQueue, i))
      /\ Range(WithSignalled(readyQueue, i))
           = Range(readyQueue) \cup FirstBlocked(Signalled({i}))
  BY <1>1, <1>2, <1>3, SignalledJoins
<1> QED
  BY <1>1, <1>4, SignalPlaces DEF DeviceInterrupt

LEMMA TerminalInterruptPlaces ==
  ASSUME Placed, NEW d \in Terminals, TerminalInterrupt(d)
  PROVE  CpuPlaced' /\ FreePlaced' /\ QueuesPlaced'
<1> DEFINE tx == 40 + d
           rx == 32 + d
           q == WithSignalled(readyQueue, tx)
           r == WithSignalled(q, rx)
<1>1. /\ tx \in DeviceSems /\ rx \in DeviceSems /\ tx # rx
      /\ tx \in Semaphores /\ rx \in Semaphores
      /\ {tx, rx} \in SUBSET DeviceSems
  BY SemaphoresAssumption DEF Terminals, Semaphores
<1>2. SignalDevices({tx, rx}, r)
  BY DEF TerminalInterrupt
<1> HIDE DEF tx, rx
<1>3. /\ readyQueue \in Seq(Pcbs) /\ IsInjective(readyQueue)
      /\ FirstBlocked({tx}) \cap Range(readyQueue) = {}
      /\ FirstBlocked({rx}) \cap Range(readyQueue) = {}
      /\ FirstBlocked({tx}) \cap FirstBlocked({rx}) = {}
  <2>1. {tx} \in SUBSET Semaphores /\ {rx} \in SUBSET Semaphores
    BY <1>1
  <2>2. /\ FirstBlocked({tx}) \subseteq Waiters(tx)
        /\ FirstBlocked({rx}) \subseteq Waiters(rx)
        /\ Waiters(tx) \cap Waiters(rx) = {}
    BY <1>1, FirstAreWaiters, Places
  <2> QED
    BY <2>1, <2>2, FirstAreWaiters DEF Placed, TypeInv, TypeOK, CpuPlaced
<1>4. /\ q \in Seq(Pcbs) /\ IsInjective(q)
      /\ Range(q) = Range(readyQueue) \cup FirstBlocked(Signalled({tx}))
  BY <1>1, <1>3, SignalledJoins
<1> HIDE DEF q
<1>5. FirstBlocked(Signalled({tx})) \subseteq FirstBlocked({tx})
  BY DEF FirstBlocked, Signalled
<1>6. /\ r \in Seq(Pcbs) /\ IsInjective(r)
      /\ Range(r) = Range(q) \cup FirstBlocked(Signalled({rx}))
  <2>1. Range(q) \cap FirstBlocked({rx}) = {}
    BY <1>3, <1>4, <1>5
  <2> QED
    BY <1>1, <1>4, <2>1, SignalledJoins
<1> HIDE DEF r
<1>7. FirstBlocked(Signalled({tx, rx}))
        = FirstBlocked(Signalled({tx})) \cup FirstBlocked(Signalled({rx}))
  BY DEF FirstBlocked, Signalled
<1>8. Range(r) = Range(readyQueue) \cup FirstBlocked(Signalled({tx, rx}))
  BY <1>4, <1>6, <1>7
<1> QED
  BY <1>1, <1>2, <1>6, <1>8, SignalPlaces

LEMMA PlacedInit == Init => Placed
<1> SUFFICES ASSUME Init PROVE Placed
  OBVIOUS
<1>1. rootProcess \in Pcbs /\ NULL \notin Pcbs /\ NULL \notin Semaphores
  BY PcbsAssumption, SemaphoresAssumption
<1>2. Range(<<>>) = {} /\ IsInjective(<<>>)
  <2>1. <<>> \in Seq(Pcbs)
    BY EmptySeq
  <2> QED
    BY <2>1, EmptyLists
<1>3. Unblocked = {rootProcess}
  BY <1>1 DEF Init, Unblocked, Live
<1>4. CpuPlaced
  BY <1>1, <1>2, <1>3 DEF Init, CpuPlaced, ModeOK
<1>5. FreePlaced /\ QueuesPlaced
  BY <1>1, <1>2 DEF Init, FreePlaced, QueuesPlaced, QueuePlaced, Waiters
<1> QED
  BY <1>4, <1>5, TypeInvInit DEF Placed

LEMMA PlacedStep ==
  ASSUME DescriptorsSuffice
  PROVE  Placed /\ [Next]_vars => Placed'
<1> SUFFICES ASSUME Placed, [Next]_vars
             PROVE  CpuPlaced' /\ FreePlaced' /\ QueuesPlaced'
  BY TypeInvStep DEF Placed
<1>1. ASSUME NEW p \in Pcbs, NEW k \in Prios, CreateProcess(p, k)
      PROVE  CpuPlaced' /\ FreePlaced' /\ QueuesPlaced'
  BY <1>1, CreatePlaces
<1>2. ASSUME NEW t \in Pcbs, TerminateProcess(t)
      PROVE  CpuPlaced' /\ FreePlaced' /\ QueuesPlaced'
  BY <1>2, DescendantsAreLive, TerminatePlaces DEF TerminateProcess
<1>3. CASE Die
  BY <1>3, DescendantsAreLive, TerminatePlaces DEF Die
<1>4. ASSUME NEW s \in UserSems, Passeren(s)
      PROVE  CpuPlaced' /\ FreePlaced' /\ QueuesPlaced'
  <2>1. s \in Semaphores /\ Running /\ pcbFree' = pcbFree
    BY <1>4 DEF Semaphores, Passeren, procVars
  <2>2. CASE BlockCurrentProcess(s)
    BY <2>1, <2>2, BlockPlaces
  <2>3. CASE UNCHANGED <<cpuVars, blocked, active, semAdd>>
    BY <2>1, <2>3, UnchangedPlaces
  <2> QED
    BY <1>4, <2>2, <2>3 DEF Passeren
<1>5. ASSUME NEW s \in UserSems, Verhogen(s)
      PROVE  CpuPlaced' /\ FreePlaced' /\ QueuesPlaced'
  BY <1>5, VerhogenPlaces
<1>6. ASSUME NEW i \in IoDevices, DoIO(i)
      PROVE  CpuPlaced' /\ FreePlaced' /\ QueuesPlaced'
  BY <1>6, BlockPlaces DEF DoIO, procVars, IoDevices, Semaphores
<1>7. CASE WaitForClock
  <2>1. Clock \in Semaphores
    BY SemaphoresAssumption DEF Semaphores
  <2> QED
    BY <1>7, <2>1, BlockPlaces DEF WaitForClock, procVars
<1>8. CASE Yield \/ TimerInterrupt
  BY <1>8, RequeuePlaces DEF Yield, TimerInterrupt, procVars, semVars
<1>9. CASE ClockTick
  BY <1>9, ClockTickPlaces
<1>10. ASSUME NEW i \in PlainDevices, DeviceInterrupt(i)
       PROVE  CpuPlaced' /\ FreePlaced' /\ QueuesPlaced'
  BY <1>10, DeviceInterruptPlaces
<1>11. ASSUME NEW d \in Terminals, TerminalInterrupt(d)
       PROVE  CpuPlaced' /\ FreePlaced' /\ QueuesPlaced'
  BY <1>11, TerminalInterruptPlaces
<1>12. ASSUME NEW i \in IoDevices, DeviceFinishes(i)
       PROVE  CpuPlaced' /\ FreePlaced' /\ QueuesPlaced'
  BY <1>12, UnchangedPlaces DEF DeviceFinishes, procVars, semVars
<1>13. CASE UNCHANGED vars
  BY <1>13, UnchangedPlaces DEF vars, procVars, semVars
<1>14. CASE Stopped
  BY <1>13, <1>14 DEF Stopped
<1> QED
  BY <1>1, <1>2, <1>3, <1>4, <1>5, <1>6, <1>7, <1>8, <1>9, <1>10, <1>11,
     <1>12, <1>13, <1>14 DEF Next

(* Processes are neither lost nor doubled: no block, wake-up, preemption or *)
(* termination, in any order and however many, misplaces one, while the     *)
(* semaphores are no more than the descriptors.                             *)
THEOREM PlacedCorrect ==
  ASSUME DescriptorsSuffice
  PROVE  Spec => []ProcessesPlaced
<1>1. Placed => ProcessesPlaced
  BY PlacedParts DEF Placed
<1>2. Placed /\ [Next]_vars => Placed'
  BY PlacedStep
<1> QED
  BY <1>1, <1>2, PlacedInit, PTL DEF Spec

-----------------------------------------------------------------------------
(* The tree.                                                                *)

Rooted == Placed /\ NoOrphans

(* A set that contains t and the children of its members.                   *)
Closed(S, t) == t \in S /\ \A q \in Pcbs : parent[q] \in S => q \in S

LEMMA DescendantsClosed ==
  ASSUME NEW t, NEW p
  PROVE  p \in Descendants(t)
           <=> p \in Live /\ \A S \in SUBSET Pcbs : Closed(S, t) => p \in S
BY DEF Descendants, Closed

(* A new process is a child of the current one.                             *)
LEMMA CreateRooted ==
  ASSUME Rooted, NEW p \in Pcbs, NEW k \in Prios, CreateProcess(p, k)
  PROVE  NoOrphans'
<1> DEFINE c == currentProcess
<1>1. /\ p \in pcbFree /\ pcbFree' = pcbFree \ {p}
      /\ parent' = [parent EXCEPT ![p] = c]
      /\ parent \in [Pcbs -> Pcbs \cup {NULL}]
      /\ c \in Live /\ c \in Pcbs /\ NULL \notin Pcbs
  BY Places DEF CreateProcess, Running, Rooted, Placed, CpuPlaced, ModeOK,
                Unblocked, Live, TypeInv, TypeOK
<1>2. /\ parent[p] = NULL
      /\ \A q \in Pcbs : parent[q] # p
      /\ \A f \in pcbFree : parent[f] = NULL /\ \A q \in Pcbs : parent[q] # f
      /\ \A q \in Live : q \in Descendants(rootProcess)
  BY <1>1 DEF Rooted, NoOrphans
<1>3. Live' = Live \cup {p}
  BY <1>1 DEF Live
<1> HIDE DEF c
<1>4. ASSUME NEW q \in Live' PROVE q \in Descendants(rootProcess)'
  <2> SUFFICES ASSUME NEW S \in SUBSET Pcbs, Closed(S, rootProcess)'
               PROVE  q \in S
    BY <1>4 DEF Descendants, Closed
  <2>1. Closed(S, rootProcess)
    BY <1>1, <1>2 DEF Closed
  <2>2. \A x \in Live : x \in S
    BY <1>2, <2>1, DescendantsClosed
  <2>3. p \in S
    BY <1>1, <2>2 DEF Closed
  <2> QED
    BY <1>3, <1>4, <2>2, <2>3
<1>5. \A f \in pcbFree' :
        parent'[f] = NULL /\ \A q \in Pcbs : parent'[q] # f
  <2>1. c \notin pcbFree'
    BY <1>1 DEF Live
  <2> QED
    BY <1>1, <1>2, <2>1
<1> QED
  BY <1>4, <1>5 DEF NoOrphans

(* A termination takes a whole subtree.                                     *)
LEMMA TerminateRooted ==
  ASSUME Rooted, NEW t, Terminate(Descendants(t))
  PROVE  NoOrphans'
<1> DEFINE D == Descendants(t)
<1>1. /\ pcbFree' = pcbFree \cup D
      /\ \A p \in Pcbs : parent'[p] = IF p \in D THEN NULL ELSE parent[p]
      /\ pcbFree \subseteq Pcbs
      /\ parent \in [Pcbs -> Pcbs \cup {NULL}] /\ NULL \notin Pcbs
      /\ rootProcess \in Pcbs
  BY Places, PcbsAssumption DEF Terminate, Rooted, Placed, TypeInv, TypeOK
<1>2. /\ \A f \in pcbFree : parent[f] = NULL /\ \A q \in Pcbs : parent[q] # f
      /\ \A q \in Live : q \in Descendants(rootProcess)
  BY DEF Rooted, NoOrphans
<1>3. D \subseteq Live /\ D \subseteq Pcbs
  BY DescendantsAreLive
<1>4. \A q \in Pcbs : parent[q] \in D => q \in D
  <2> SUFFICES ASSUME NEW q \in Pcbs, parent[q] \in D PROVE q \in D
    OBVIOUS
  <2>1. q \in Live
    BY <1>1, <1>2, <1>3 DEF Live
  <2>2. ASSUME NEW S \in SUBSET Pcbs, Closed(S, t) PROVE q \in S
    <3>1. parent[q] \in S
      BY <2>2, DescendantsClosed
    <3> QED
      BY <2>2, <3>1 DEF Closed
  <2> QED
    BY <2>1, <2>2, DescendantsClosed
<1> HIDE DEF D
<1>5. Live' = Live \ D
  BY <1>1, <1>3 DEF Live
<1>6. ASSUME NEW q \in Live' PROVE q \in Descendants(rootProcess)'
  <2> SUFFICES ASSUME NEW S \in SUBSET Pcbs, Closed(S, rootProcess)'
               PROVE  q \in S
    BY <1>6 DEF Descendants, Closed
  <2>1. Closed(S \cup D, rootProcess) /\ S \cup D \in SUBSET Pcbs
    BY <1>1, <1>3, <1>4 DEF Closed
  <2>2. q \in Descendants(rootProcess) /\ q \notin D
    BY <1>2, <1>5, <1>6
  <2> QED
    BY <2>1, <2>2, DescendantsClosed
<1>7. ASSUME NEW f \in pcbFree'
      PROVE  parent'[f] = NULL /\ \A q \in Pcbs : parent'[q] # f
  <2>1. f \in Pcbs /\ (f \in pcbFree \/ f \in D)
    BY <1>1, <1>3, <1>7
  <2> QED
    BY <1>1, <1>2, <1>4, <2>1
<1> QED
  BY <1>6, <1>7 DEF NoOrphans

LEMMA UnchangedRooted ==
  ASSUME Rooted, UNCHANGED <<pcbFree, parent>>
  PROVE  NoOrphans'
BY DEF Rooted, NoOrphans, Descendants, Live

(* No termination leaves an orphan behind, and no new process hangs on a    *)
(* dead one: a search from the root finds every live process, under the     *)
(* same assumption.                                                         *)
THEOREM RootedCorrect ==
  ASSUME DescriptorsSuffice
  PROVE  Spec => []NoOrphans
<1>1. Init => Rooted
  <2> SUFFICES ASSUME Init PROVE NoOrphans
    BY PlacedInit DEF Rooted
  <2>1. Live = {rootProcess} /\ NULL \notin Pcbs
    BY PcbsAssumption DEF Init, Live
  <2> QED
    BY <2>1 DEF Init, NoOrphans, Descendants
<1>2. Rooted /\ [Next]_vars => Rooted'
  <2> SUFFICES ASSUME Rooted, [Next]_vars PROVE NoOrphans'
    BY PlacedStep DEF Rooted
  <2>1. ASSUME NEW p \in Pcbs, NEW k \in Prios, CreateProcess(p, k)
        PROVE  NoOrphans'
    BY <2>1, CreateRooted
  <2>2. ASSUME NEW t \in Pcbs, TerminateProcess(t) PROVE NoOrphans'
    BY <2>2, TerminateRooted DEF TerminateProcess
  <2>3. CASE Die
    BY <2>3, TerminateRooted DEF Die
  <2>4. CASE /\ \A p \in Pcbs, k \in Prios : ~CreateProcess(p, k)
             /\ \A t \in Pcbs : ~TerminateProcess(t)
             /\ ~Die
    <3>1. UNCHANGED <<pcbFree, parent>>
      BY <2>4 DEF Next, Passeren, Verhogen, DoIO, WaitForClock, Yield,
                  TimerInterrupt, ClockTick, DeviceInterrupt,
                  TerminalInterrupt, SignalDevices, DeviceFinishes, Stopped,
                  procVars, vars
    <3> QED
      BY <3>1, UnchangedRooted
  <2> QED
    BY <2>1, <2>2, <2>3, <2>4
<1>3. Rooted => NoOrphans
  BY DEF Rooted
<1> QED
  BY <1>1, <1>2, <1>3, PTL DEF Spec

-----------------------------------------------------------------------------
(* The queue discipline.                                                    *)

(* What a step does to the ready queue, and to those of the semaphores: the *)
(* order of the priorities and the turns are kept.                          *)
ReadyTurns ==
  Ordered(readyQueue', prio') /\ Keeps(readyQueue, readyQueue', pcbFree')

WaitTurns ==
  \A s \in Semaphores :
    Ordered(blocked'[s], prio') /\ Keeps(blocked[s], blocked'[s], pcbFree')

Disciplined == Placed /\ QueuesOrdered

LEMMA ScheduleTurns ==
  ASSUME NEW rq \in Seq(Pcbs), IsInjective(rq), NEW n, NEW m,
         Schedule(rq, n, m), Ordered(rq, prio'), Keeps(readyQueue, rq, pcbFree')
  PROVE  ReadyTurns
<1>1. CASE rq # <<>>
  <2>1. readyQueue' = Tail(rq)
    BY <1>1 DEF Schedule
  <2> QED
    BY <1>1, <2>1, TailOrders DEF ReadyTurns
<1>2. CASE rq = <<>>
  BY <1>2 DEF Schedule, ReadyTurns
<1> QED
  BY <1>1, <1>2

LEMMA ResumeOrScheduleTurns ==
  ASSUME NEW rq \in Seq(Pcbs), IsInjective(rq), NEW m,
         ResumeOrSchedule(rq, m), Ordered(rq, prio'),
         Keeps(readyQueue, rq, pcbFree')
  PROVE  ReadyTurns
<1>1. CASE currentProcess # NULL
  BY <1>1 DEF ResumeOrSchedule, ReadyTurns
<1>2. CASE currentProcess = NULL
  BY <1>2, ScheduleTurns DEF ResumeOrSchedule
<1> QED
  BY <1>1, <1>2

LEMMA UnchangedTurns ==
  ASSUME Disciplined, UNCHANGED <<readyQueue, blocked, prio>>
  PROVE  ReadyTurns /\ WaitTurns
BY KeepsItself DEF Disciplined, QueuesOrdered, ReadyTurns, WaitTurns

LEMMA CreateTurns ==
  ASSUME Disciplined, NEW p \in Pcbs, NEW k \in Prios, CreateProcess(p, k)
  PROVE  ReadyTurns /\ WaitTurns
<1>1. /\ p \in pcbFree
      /\ prio' = [prio EXCEPT ![p] = k]
      /\ readyQueue' = InsertProcQ(readyQueue, p, prio')
      /\ blocked' = blocked
  BY DEF CreateProcess, semVars
<1>2. /\ prio \in [Pcbs -> Int] /\ prio' \in [Pcbs -> Int]
      /\ readyQueue \in Seq(Pcbs)
      /\ \A x \in Pcbs : x # p => prio'[x] = prio[x]
  BY <1>1, PcbsAssumption DEF Disciplined, Placed, TypeInv, TypeOK
<1>3. /\ p \notin Range(readyQueue) /\ Range(readyQueue) \subseteq Pcbs
      /\ \A s \in Semaphores :
           p \notin Range(blocked[s]) /\ Range(blocked[s]) \subseteq Pcbs
  <2>1. p \notin Live /\ Live \subseteq Pcbs
    BY <1>1 DEF Live
  <2>2. Range(readyQueue) \subseteq Live
    BY DEF Disciplined, Placed, CpuPlaced, Unblocked
  <2>3. \A s \in Semaphores : Range(blocked[s]) \subseteq Live
    BY Places DEF Disciplined, Placed, QueuesPlaced, QueuePlaced
  <2> QED
    BY <2>1, <2>2, <2>3
<1>4. /\ Ordered(readyQueue, prio')
      /\ \A s \in Semaphores : Ordered(blocked[s], prio')
  <2>1. \A x \in Range(readyQueue) : prio'[x] = prio[x]
    BY <1>2, <1>3
  <2>2. \A s \in Semaphores : \A x \in Range(blocked[s]) : prio'[x] = prio[x]
    BY <1>2, <1>3
  <2> QED
    BY <2>1, <2>2, OrderedAgrees DEF Disciplined, QueuesOrdered
<1>5. ReadyTurns
  BY <1>1, <1>2, <1>4, InsertProcQOrders DEF ReadyTurns
<1> QED
  BY <1>1, <1>4, <1>5, KeepsItself DEF WaitTurns

LEMMA TerminateTurns ==
  ASSUME Disciplined, NEW D, D \subseteq Live, Terminate(D)
  PROVE  ReadyTurns /\ WaitTurns
<1> DEFINE rq == OutAllProcQ(readyQueue, D)
<1>1. /\ D \subseteq pcbFree'
      /\ \A p \in Pcbs : p \notin D => prio'[p] = prio[p]
      /\ \A s \in Semaphores :
           blocked'[s] = OutAllProcQ(blocked[s], Removed(D, s))
      /\ readyQueue \in Seq(Pcbs) /\ IsInjective(readyQueue)
      /\ blocked \in [Semaphores -> Seq(Pcbs)]
      /\ \/ Schedule(rq, processCount', softBlockCount')
         \/ readyQueue' = rq
  BY DEF Terminate, Disciplined, Placed, TypeInv, TypeOK, CpuPlaced
<1>2. /\ rq \in Seq(Pcbs) /\ IsInjective(rq)
      /\ Range(rq) = Range(readyQueue) \ D
  BY <1>1, OutAllProcQLists
<1>3. Ordered(rq, prio') /\ Keeps(readyQueue, rq, pcbFree')
  <2>1. Ordered(rq, prio) /\ Keeps(readyQueue, rq, pcbFree')
    BY <1>1, OutAllProcQOrders DEF Disciplined, QueuesOrdered
  <2>2. Range(readyQueue) \subseteq Pcbs
    BY Places DEF Disciplined, Placed, CpuPlaced
  <2>3. \A x \in Range(rq) : prio'[x] = prio[x]
    BY <1>1, <1>2, <2>2
  <2> QED
    BY <2>1, <2>3, OrderedAgrees
<1> HIDE DEF rq
<1>4. ReadyTurns
  BY <1>1, <1>2, <1>3, ScheduleTurns DEF ReadyTurns
<1>5. ASSUME NEW s \in Semaphores
      PROVE  Ordered(blocked'[s], prio') /\ Keeps(blocked[s], blocked'[s], pcbFree')
  <2>1. blocked[s] \in Seq(Pcbs) /\ blocked'[s] = OutAllProcQ(blocked[s], Removed(D, s))
    BY <1>1
  <2>2. /\ Removed(D, s) = D \cap Waiters(s)
        /\ Range(blocked[s]) = Waiters(s) /\ Waiters(s) \subseteq Pcbs
    BY RemovedWaiters DEF Disciplined, Placed, QueuesPlaced, QueuePlaced, Waiters
  <2>3. Range(blocked'[s]) = Waiters(s) \ D
    BY <2>1, <2>2, OutAllProcQLists
  <2>4. Ordered(blocked'[s], prio) /\ Keeps(blocked[s], blocked'[s], pcbFree')
    BY <1>1, <2>1, <2>2, OutAllProcQOrders DEF Disciplined, QueuesOrdered
  <2>5. \A x \in Range(blocked'[s]) : prio'[x] = prio[x]
    BY <1>1, <2>2, <2>3
  <2> QED
    BY <2>4, <2>5, OrderedAgrees
<1> QED
  BY <1>4, <1>5 DEF WaitTurns

LEMMA BlockTurns ==
  ASSUME Disciplined, Running, NEW s \in Semaphores, BlockCurrentProcess(s),
         UNCHANGED <<pcbFree, prio>>
  PROVE  ReadyTurns /\ WaitTurns
<1>1. /\ readyQueue \in Seq(Pcbs) /\ IsInjective(readyQueue)
      /\ blocked \in [Semaphores -> Seq(Pcbs)]
      /\ prio \in [Pcbs -> Int] /\ currentProcess \in Pcbs
  BY DEF Disciplined, Placed, TypeInv, TypeOK, CpuPlaced, ModeOK, Running
<1>2. /\ Schedule(readyQueue, processCount, softBlockCount')
      /\ \A t \in Semaphores :
           \/ blocked'[t] = blocked[t]
           \/ blocked'[t] = InsertProcQ(blocked[t], currentProcess, prio)
  BY <1>1 DEF BlockCurrentProcess, InsertBlocked
<1>3. ReadyTurns
  BY <1>1, <1>2, KeepsItself, ScheduleTurns DEF Disciplined, QueuesOrdered
<1>4. ASSUME NEW t \in Semaphores
      PROVE  Ordered(blocked'[t], prio') /\ Keeps(blocked[t], blocked'[t], pcbFree')
  <2>1. blocked[t] \in Seq(Pcbs) /\ Ordered(blocked[t], prio)
    BY <1>1 DEF Disciplined, QueuesOrdered
  <2>2. CASE blocked'[t] = blocked[t]
    BY <2>1, <2>2, KeepsItself
  <2>3. CASE blocked'[t] = InsertProcQ(blocked[t], currentProcess, prio)
    BY <1>1, <2>1, <2>3, InsertProcQOrders
  <2> QED
    BY <1>2, <2>2, <2>3
<1> QED
  BY <1>3, <1>4 DEF WaitTurns

LEMMA RemoveBlockedTurns ==
  ASSUME Disciplined, NEW S, RemoveBlocked(S), UNCHANGED <<pcbFree, prio>>
  PROVE  WaitTurns
<1> SUFFICES ASSUME NEW s \in Semaphores
             PROVE  /\ Ordered(blocked'[s], prio')
                    /\ Keeps(blocked[s], blocked'[s], pcbFree')
  BY DEF WaitTurns
<1>1. /\ blocked[s] \in Seq(Pcbs) /\ IsInjective(blocked[s])
      /\ Ordered(blocked[s], prio)
  BY DEF Disciplined, QueuesOrdered, Placed, TypeInv, TypeOK, QueuesPlaced,
         QueuePlaced
<1>2. \/ blocked'[s] = blocked[s]
      \/ blocked[s] # <<>> /\ blocked'[s] = Tail(blocked[s])
  BY DEF RemoveBlocked
<1>3. CASE blocked'[s] = blocked[s]
  BY <1>1, <1>3, KeepsItself
<1>4. CASE blocked[s] # <<>> /\ blocked'[s] = Tail(blocked[s])
  <2>1. Keeps(blocked[s], blocked[s], pcbFree')
    BY KeepsItself
  <2> QED
    BY <1>1, <1>4, <2>1, TailOrders
<1> QED
  BY <1>2, <1>3, <1>4

(* The process that removeBlocked returned joins the queue q, which the     *)
(* ready queue has become.                                                  *)
LEMMA FirstBlockedTurns ==
  ASSUME Disciplined, NEW q \in Seq(Pcbs), NEW s \in Semaphores, NEW gone,
         Ordered(q, prio), Keeps(readyQueue, q, gone)
  PROVE  /\ Ordered(WithFirstBlocked(q, s), prio)
         /\ Keeps(readyQueue, WithFirstBlocked(q, s), gone)
<1>1. CASE blocked[s] = <<>>
  BY <1>1 DEF WithFirstBlocked
<1>2. CASE blocked[s] # <<>>
  <2> DEFINE h == Head(blocked[s])
             r == InsertProcQ(q, h, prio)
  <2>1. h \in Pcbs /\ h \notin Range(readyQueue)
    <3>1. {s} \in SUBSET Semaphores /\ FirstBlocked({s}) = {h}
      BY <1>2 DEF FirstBlocked
    <3>2. FirstBlocked({s}) \cap Range(readyQueue) = {}
      BY <3>1, FirstAreWaiters DEF Disciplined
    <3>3. h \in Pcbs
      BY <1>2, TailLists DEF Disciplined, Placed, TypeInv, TypeOK
    <3> QED
      BY <3>1, <3>2, <3>3
  <2>2. WithFirstBlocked(q, s) = r
    BY <1>2 DEF WithFirstBlocked
  <2>3. prio \in [Pcbs -> Int]
    BY DEF Disciplined, Placed, TypeInv, TypeOK
  <2> HIDE DEF h
  <2>4. Range(r) = Range(q) \cup {h}
    BY <2>1, InsertProcQLists
  <2>5. Ordered(r, prio) /\ Keeps(q, r, gone)
    BY <2>1, <2>3, InsertProcQOrders
  <2> HIDE DEF r
  <2>6. \A x \in Range(readyQueue) : x \in Range(r) => x \in Range(q)
    BY <2>1, <2>4
  <2>7. Keeps(readyQueue, r, gone)
    BY <2>5, <2>6, KeepsTwice
  <2> QED
    BY <2>2, <2>5, <2>7
<1> QED
  BY <1>1, <1>2

LEMMA SignalledTurns ==
  ASSUME Disciplined, NEW q \in Seq(Pcbs), NEW s \in Semaphores, NEW gone,
         Ordered(q, prio), Keeps(readyQueue, q, gone)
  PROVE  /\ Ordered(WithSignalled(q, s), prio)
         /\ Keeps(readyQueue, WithSignalled(q, s), gone)
BY FirstBlockedTurns DEF WithSignalled

LEMMA VerhogenTurns ==
  ASSUME Disciplined, NEW s \in UserSems, Verhogen(s)
  PROVE  ReadyTurns /\ WaitTurns
<1>1. /\ UNCHANGED <<pcbFree, prio>>
      /\ \/ RemoveBlocked({s}) /\ readyQueue' = WithFirstBlocked(readyQueue, s)
         \/ UNCHANGED <<blocked, readyQueue>>
  BY DEF Verhogen, procVars
<1>2. CASE UNCHANGED <<blocked, readyQueue>>
  BY <1>1, <1>2, UnchangedTurns
<1>3. CASE RemoveBlocked({s}) /\ readyQueue' = WithFirstBlocked(readyQueue, s)
  <2>1. WaitTurns
    BY <1>1, <1>3, RemoveBlockedTurns
  <2>2. s \in Semaphores /\ readyQueue \in Seq(Pcbs) /\ Ordered(readyQueue, prio)
    BY DEF Semaphores, Disciplined, Placed, TypeInv, TypeOK, QueuesOrdered
  <2>3. ReadyTurns
    BY <1>1, <1>3, <2>2, KeepsItself, FirstBlockedTurns DEF ReadyTurns
  <2> QED
    BY <2>1, <2>3
<1> QED
  BY <1>1, <1>2, <1>3

LEMMA RequeueTurns ==
  ASSUME Disciplined, Running, Requeue, UNCHANGED <<pcbFree, prio, blocked>>
  PROVE  ReadyTurns /\ WaitTurns
<1> DEFINE rq == InsertProcQ(readyQueue, currentProcess, prio)
<1>1. /\ readyQueue \in Seq(Pcbs) /\ IsInjective(readyQueue)
      /\ prio \in [Pcbs -> Int] /\ currentProcess \in Pcbs
      /\ Ordered(readyQueue, prio) /\ currentProcess \notin Range(readyQueue)
  BY DEF Disciplined, Placed, TypeInv, TypeOK, CpuPlaced, ModeOK, Running,
         QueuesOrdered
<1>2. rq \in Seq(Pcbs) /\ IsInjective(rq)
  BY <1>1, InsertProcQLists
<1>3. Ordered(rq, prio) /\ Keeps(readyQueue, rq, pcbFree')
  BY <1>1, InsertProcQOrders
<1>4. Schedule(rq, processCount, softBlockCount)
  BY DEF Requeue
<1> HIDE DEF rq
<1>5. ReadyTurns
  BY <1>2, <1>3, <1>4, ScheduleTurns
<1> QED
  BY <1>5, KeepsItself DEF WaitTurns, Disciplined, QueuesOrdered

LEMMA ClockTickTurns ==
  ASSUME Disciplined, ClockTick
  PROVE  ReadyTurns /\ WaitTurns
<1> DEFINE woken == blocked[Clock]
           rq == InsertAllProcQ(readyQueue, woken, prio)
<1>1. /\ Clock \in Semaphores
      /\ woken \in Seq(Pcbs) /\ IsInjective(woken)
      /\ Range(woken) = Waiters(Clock)
      /\ readyQueue \in Seq(Pcbs) /\ IsInjective(readyQueue)
      /\ Ordered(readyQueue, prio)
      /\ prio \in [Pcbs -> Int]
      /\ blocked \in [Semaphores -> Seq(Pcbs)]
  <2>1. Clock \in Semaphores
    BY SemaphoresAssumption DEF Semaphores
  <2> QED
    BY <2>1
    DEF Disciplined, QueuesOrdered, Placed, TypeInv, TypeOK, CpuPlaced,
        QueuesPlaced, QueuePlaced
<1>2. /\ blocked' = [blocked EXCEPT ![Clock] = <<>>]
      /\ pcbFree' = pcbFree /\ prio' = prio
      /\ ResumeOrSchedule(rq, softBlockCount')
  BY DEF ClockTick, procVars
<1>3. Range(readyQueue) \cap Range(woken) = {}
  BY <1>1, Places DEF Disciplined, Placed, CpuPlaced
<1> HIDE DEF woken
<1>4. rq \in Seq(Pcbs) /\ IsInjective(rq)
  BY <1>1, <1>3, InsertAllProcQLists
<1>5. Ordered(rq, prio) /\ Keeps(readyQueue, rq, pcbFree')
  BY <1>1, InsertAllProcQOrders
<1> HIDE DEF rq
<1>6. ReadyTurns
  BY <1>2, <1>4, <1>5, ResumeOrScheduleTurns
<1>7. ASSUME NEW s \in Semaphores
      PROVE  Ordered(blocked'[s], prio') /\ Keeps(blocked[s], blocked'[s], pcbFree')
  <2>1. CASE s = Clock
    <3>1. blocked'[s] = <<>>
      BY <1>1, <1>2, <2>1
    <3>2. Range(<<>>) = {}
      BY <1>1, EmptyLists
    <3>3. Keeps(blocked[s], <<>>, pcbFree')
      BY <3>2 DEF Keeps
    <3> QED
      BY <3>1, <3>3, EmptyOrdered
  <2>2. CASE s # Clock
    BY <1>1, <1>2, <2>2, KeepsItself DEF Disciplined, QueuesOrdered
  <2> QED
    BY <2>1, <2>2
<1> QED
  BY <1>6, <1>7 DEF WaitTurns

LEMMA SignalTurns ==
  ASSUME Disciplined, NEW S, NEW rq \in Seq(Pcbs), IsInjective(rq),
         SignalDevices(S, rq), Ordered(rq, prio),
         \A gone : Keeps(readyQueue, rq, gone)
  PROVE  ReadyTurns /\ WaitTurns
<1>1. /\ RemoveBlocked(Signalled(S)) /\ pcbFree' = pcbFree /\ prio' = prio
      /\ ResumeOrSchedule(rq, softBlockCount')
  BY DEF SignalDevices, procVars
<1>2. WaitTurns
  BY <1>1, RemoveBlockedTurns
<1>3. ReadyTurns
  BY <1>1, ResumeOrScheduleTurns
<1> QED
  BY <1>2, <1>3

LEMMA InterruptTurns ==
  ASSUME Disciplined
  PROVE  /\ \A i \in PlainDevices :
              DeviceInterrupt(i) => ReadyTurns /\ WaitTurns
         /\ \A d \in Terminals :
              TerminalInterrupt(d) => ReadyTurns /\ WaitTurns
<1>1. /\ readyQueue \in Seq(Pcbs) /\ Ordered(readyQueue, prio)
      /\ \A gone : Keeps(readyQueue, readyQueue, gone)
      /\ IsInjective(readyQueue)
  BY KeepsItself
  DEF Disciplined, QueuesOrdered, Placed, TypeInv, TypeOK, CpuPlaced
<1>2. ASSUME NEW i \in PlainDevices, DeviceInterrupt(i)
      PROVE  ReadyTurns /\ WaitTurns
  <2> DEFINE r == WithSignalled(readyQueue, i)
  <2>1. i \in Semaphores /\ {i} \in SUBSET Semaphores
    BY DEF PlainDevices, Semaphores
  <2>2. r \in Seq(Pcbs) /\ IsInjective(r)
    BY <1>1, <2>1, FirstAreWaiters, SignalledJoins DEF Disciplined
  <2>3. Ordered(r, prio) /\ \A gone : Keeps(readyQueue, r, gone)
    BY <1>1, <2>1, SignalledTurns
  <2>4. SignalDevices({i}, r)
    BY <1>2 DEF DeviceInterrupt
  <2> HIDE DEF r
  <2> QED
    BY <2>2, <2>3, <2>4, SignalTurns
<1>3. ASSUME NEW d \in Terminals, TerminalInterrupt(d)
      PROVE  ReadyTurns /\ WaitTurns
  <2> DEFINE tx == 40 + d
             rx == 32 + d
             q == WithSignalled(readyQueue, tx)
             r == WithSignalled(q, rx)
  <2>1. /\ tx \in Semaphores /\ rx \in Semaphores /\ tx # rx
        /\ {tx} \in SUBSET Semaphores /\ {rx} \in SUBSET Semaphores
    BY SemaphoresAssumption DEF Terminals, Semaphores
  <2>2. SignalDevices({tx, rx}, r)
    BY <1>3 DEF TerminalInterrupt
  <2> HIDE DEF tx, rx
  <2>3. /\ FirstBlocked({tx}) \cap Range(readyQueue) = {}
        /\ FirstBlocked({rx}) \cap Range(readyQueue) = {}
        /\ FirstBlocked({tx}) \cap FirstBlocked({rx}) = {}
    <3>1. /\ FirstBlocked({tx}) \subseteq Waiters(tx)
          /\ FirstBlocked({rx}) \subseteq Waiters(rx)
          /\ Waiters(tx) \cap Waiters(rx) = {}
      BY <2>1, FirstAreWaiters, Places DEF Disciplined
    <3> QED
      BY <2>1, <3>1, FirstAreWaiters DEF Disciplined
  <2>4. /\ q \in Seq(Pcbs) /\ IsInjective(q)
        /\ Range(q) \cap FirstBlocked({rx}) = {}
    <3>1. /\ q \in Seq(Pcbs) /\ IsInjective(q)
          /\ Range(q) = Range(readyQueue) \cup FirstBlocked(Signalled({tx}))
      BY <1>1, <2>1, <2>3, SignalledJoins DEF Disciplined
    <3>2. FirstBlocked(Signalled({tx})) \subseteq FirstBlocked({tx})
      BY DEF FirstBlocked, Signalled
    <3> QED
      BY <2>3, <3>1, <3>2
  <2>5. Ordered(q, prio) /\ \A gone : Keeps(readyQueue, q, gone)
    BY <1>1, <2>1, SignalledTurns
  <2> HIDE DEF q
  <2>6. r \in Seq(Pcbs) /\ IsInjective(r)
    BY <2>1, <2>4, SignalledJoins DEF Disciplined
  <2>7. Ordered(r, prio) /\ \A gone : Keeps(readyQueue, r, gone)
    BY <2>1, <2>4, <2>5, SignalledTurns
  <2> HIDE DEF r
  <2> QED
    BY <2>2, <2>6, <2>7, SignalTurns
<1> QED
  BY <1>2, <1>3

LEMMA TurnsStep ==
  ASSUME Disciplined, [Next]_vars
  PROVE  ReadyTurns /\ WaitTurns
<1>1. ASSUME NEW p \in Pcbs, NEW k \in Prios, CreateProcess(p, k)
      PROVE  ReadyTurns /\ WaitTurns
  BY <1>1, CreateTurns
<1>2. ASSUME NEW t \in Pcbs, TerminateProcess(t)
      PROVE  ReadyTurns /\ WaitTurns
  BY <1>2, DescendantsAreLive, TerminateTurns DEF TerminateProcess
<1>3. CASE Die
  BY <1>3, DescendantsAreLive, TerminateTurns DEF Die
<1>4. ASSUME NEW s \in UserSems, Passeren(s)
      PROVE  ReadyTurns /\ WaitTurns
  <2>1. s \in Semaphores /\ Running /\ UNCHANGED <<pcbFree, prio>>
    BY <1>4 DEF Semaphores, Passeren, procVars
  <2>2. CASE BlockCurrentProcess(s)
    BY <2>1, <2>2, BlockTurns
  <2>3. CASE UNCHANGED <<cpuVars, blocked>>
    BY <2>1, <2>3, UnchangedTurns DEF cpuVars
  <2> QED
    BY <1>4, <2>2, <2>3 DEF Passeren
<1>5. ASSUME NEW s \in UserSems, Verhogen(s)
      PROVE  ReadyTurns /\ WaitTurns
  BY <1>5, VerhogenTurns
<1>6. ASSUME NEW i \in IoDevices, DoIO(i)
      PROVE  ReadyTurns /\ WaitTurns
  BY <1>6, BlockTurns DEF DoIO, procVars, IoDevices, Semaphores
<1>7. CASE WaitForClock
  <2>1. Clock \in Semaphores
    BY SemaphoresAssumption DEF Semaphores
  <2> QED
    BY <1>7, <2>1, BlockTurns DEF WaitForClock, procVars
<1>8. CASE Yield \/ TimerInterrupt
  BY <1>8, RequeueTurns DEF Yield, TimerInterrupt, procVars, semVars
<1>9. CASE ClockTick
  BY <1>9, ClockTickTurns
<1>10. ASSUME NEW i \in PlainDevices, DeviceInterrupt(i)
       PROVE  ReadyTurns /\ WaitTurns
  BY <1>10, InterruptTurns
<1>11. ASSUME NEW d \in Terminals, TerminalInterrupt(d)
       PROVE  ReadyTurns /\ WaitTurns
  BY <1>11, InterruptTurns
<1>12. ASSUME NEW i \in IoDevices, DeviceFinishes(i)
       PROVE  ReadyTurns /\ WaitTurns
  BY <1>12, UnchangedTurns DEF DeviceFinishes, procVars, semVars, cpuVars
<1>13. CASE UNCHANGED vars
  BY <1>13, UnchangedTurns DEF vars, procVars, semVars, cpuVars
<1>14. CASE Stopped
  BY <1>13, <1>14 DEF Stopped
<1> QED
  BY <1>1, <1>2, <1>3, <1>4, <1>5, <1>6, <1>7, <1>8, <1>9, <1>10, <1>11,
     <1>12, <1>13, <1>14 DEF Next

LEMMA DisciplinedInvariant ==
  ASSUME DescriptorsSuffice
  PROVE  Spec => []Disciplined
<1>1. Init => Disciplined
  BY PlacedInit, EmptyOrdered DEF Init, Disciplined, QueuesOrdered
<1>2. Disciplined /\ [Next]_vars => Disciplined'
  <2> SUFFICES ASSUME Disciplined, [Next]_vars PROVE Disciplined'
    OBVIOUS
  <2>1. Placed'
    BY PlacedStep DEF Disciplined
  <2>2. QueuesOrdered'
    BY TurnsStep DEF ReadyTurns, WaitTurns, QueuesOrdered
  <2> QED
    BY <2>1, <2>2 DEF Disciplined
<1> QED
  BY <1>1, <1>2, PTL DEF Spec

(* The ready queue and the queue of every semaphore are by decreasing       *)
(* priority, whatever blocks, wakes up, is created or ends: insertProcQ     *)
(* stops at the first lower priority, which is right only in a queue that   *)
(* is in order already.  The semaphores are no more than the descriptors.   *)
THEOREM QueuesInOrder ==
  ASSUME DescriptorsSuffice
  PROVE  Spec => []QueuesOrdered
<1>1. Disciplined => QueuesOrdered
  BY DEF Disciplined
<1> QED
  BY <1>1, DisciplinedInvariant, PTL

(* Nobody is overtaken in a queue: among the processes of one priority the  *)
(* turn is that of arrival, and a process leaves a queue before one ahead   *)
(* of it only by being terminated.  Under the same assumption.              *)
THEOREM NobodyOvertaken ==
  ASSUME DescriptorsSuffice
  PROVE  Spec => NoOvertaking
<1>1. Disciplined /\ [Next]_vars =>
        [/\ KeepsOrder(readyQueue, readyQueue')
         /\ \A s \in Semaphores : KeepsOrder(blocked[s], blocked'[s])]_vars
  <2> SUFFICES ASSUME Disciplined, [Next]_vars
               PROVE  /\ KeepsOrder(readyQueue, readyQueue')
                      /\ \A s \in Semaphores : KeepsOrder(blocked[s], blocked'[s])
    OBVIOUS
  <2>1. /\ Keeps(readyQueue, readyQueue', pcbFree')
        /\ \A s \in Semaphores : Keeps(blocked[s], blocked'[s], pcbFree')
    BY TurnsStep DEF ReadyTurns, WaitTurns
  <2> QED
    BY <2>1 DEF Keeps, KeepsOrder, Ahead
<1> QED
  BY <1>1, DisciplinedInvariant, PTL DEF Spec, NoOvertaking

(* What the tick and the termination do to the queues at once is what the   *)
(* loops of the kernel do to them one process after the other               *)
(* (interrupt.c:213-221, functions.c:231-266), in every state: it takes the *)
(* order of the queues for the first, and for the second that nobody is in  *)
(* a queue twice.  Under the same assumption.                               *)
THEOREM LoopsClosed ==
  ASSUME DescriptorsSuffice
  PROVE  Spec => []ClosedFormsAreLoops
<1>1. ASSUME Disciplined PROVE ClosedFormsAreLoops
  <2>1. /\ readyQueue \in Seq(Pcbs) /\ IsInjective(readyQueue)
        /\ \A s \in Semaphores : blocked[s] \in Seq(Pcbs) /\ IsInjective(blocked[s])
        /\ prio \in [Pcbs -> Int] /\ Ordered(readyQueue, prio)
    BY <1>1 DEF Disciplined, Placed, TypeInv, TypeOK, CpuPlaced, QueuesPlaced,
                QueuePlaced, QueuesOrdered
  <2>2. ASSUME NEW s \in Semaphores
        PROVE  InsertAllProcQ(readyQueue, blocked[s], prio)
                 = InsertEach(readyQueue, blocked[s], prio)
    BY <2>1, InsertEachIs
  <2>3. ASSUME NEW q \in {readyQueue} \cup {blocked[s] : s \in Semaphores},
               NEW D \in SUBSET Pcbs, NEW d \in [1..Cardinality(D) -> D], Range(d) = D
        PROVE  OutAllProcQ(q, D) = OutEach(q, d)
    <3>1. q \in Seq(Pcbs) /\ IsInjective(q)
      BY <2>1
    <3>2. Cardinality(D) \in Nat
      BY PcbsAssumption, FS_Subset, FS_CardinalityType
    <3>3. d \in Seq(D)
      BY <3>2, SequenceShape
    <3>4. OutEach(q, d) = OutAllProcQ(q, Range(d))
      BY <3>1, <3>3, OutEachIs
    <3> QED
      BY <2>3, <3>4
  <2> QED
    BY <2>2, <2>3 DEF ClosedFormsAreLoops
<1> QED
  BY <1>1, DisciplinedInvariant, PTL
=============================================================================

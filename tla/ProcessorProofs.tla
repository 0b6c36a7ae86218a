-------------------------- MODULE ProcessorProofs --------------------------
(****************************************************************************)
(* The processor, for any processes, programs and times: the accounting of  *)
(* its time is exact, and each process finds its registers again through    *)
(* whatever exceptions and switches (the refinement of CallStacks).         *)
(****************************************************************************)
EXTENDS Processor, SequenceTheorems, TLAPS

-----------------------------------------------------------------------------
(* The accounts.                                                            *)

(* Where the processes are (the kernel waits only when none is ready), and  *)
(* that the accounts are numbers.                                           *)
Placed ==
  /\ currentProcess \in Procs \cup {NULL}
  /\ ready \subseteq Procs /\ blocked \subseteq Procs
  /\ ready \cap blocked = {}
  /\ currentProcess \notin ready \cup blocked
  /\ currentProcess = NULL => ready = {}
  /\ now \in Int /\ start \in Int
  /\ p_time \in [Procs -> Int] /\ ran \in [Procs -> Int]

IInv == Placed /\ CpuTimeExact

(* The process p has been charged all it ran.                               *)
Settled(p) == ran[p] = p_time[p]

(* The accounts of those who wait are settled; that of the running process  *)
(* is with what it has not been charged for yet.                            *)
LEMMA Accounts ==
  ASSUME IInv
  PROVE  /\ \A p \in ready \cup blocked : Settled(p)
         /\ currentProcess # NULL =>
              ran[currentProcess] = p_time[currentProcess] + now - start
BY ProcessorAssumption DEF IInv, Placed, CpuTimeExact, Alive, Settled

(* Charging the running process settles its account and no other's.         *)
LEMMA ChargedSettles ==
  ASSUME IInv, currentProcess # NULL
  PROVE  /\ Charged \in [Procs -> Int]
         /\ \A p \in ready \cup blocked \cup {currentProcess} : ran[p] = Charged[p]
<1>1. currentProcess \in Procs
  BY DEF IInv, Placed
<1>2. Charged[currentProcess] = p_time[currentProcess] + now - start
  BY <1>1 DEF Charged, IInv, Placed
<1> QED
  BY <1>1, <1>2, Accounts DEF Charged, Settled, IInv, Placed

(* A step that charges the running process and ends in the scheduler.       *)
LEMMA ScheduleKeeps ==
  ASSUME IInv, NEW rs, NEW ps, currentProcess # NULL,
         rs \subseteq ready \cup {currentProcess},
         blocked' \subseteq blocked \cup ({currentProcess} \ rs),
         p_time' = Charged, Schedule(rs, ps), UNCHANGED <<now, ran>>
  PROVE  IInv'
<1>1. /\ rs \subseteq Procs /\ blocked' \subseteq Procs /\ rs \cap blocked' = {}
      /\ NULL \notin Procs
  BY ProcessorAssumption DEF IInv, Placed
<1>2. \A p \in rs \cup blocked' : ran[p] = Charged[p]
  BY ChargedSettles
<1>3. CASE rs = {}
  <2>1. currentProcess' = NULL /\ ready' = {} /\ start' = start
    BY <1>3 DEF Schedule
  <2>2. Placed'
    BY <1>1, <2>1, ChargedSettles DEF IInv, Placed
  <2>3. CpuTimeExact'
    BY <1>1, <1>2, <2>1, ChargedSettles DEF CpuTimeExact, Alive
  <2> QED
    BY <2>2, <2>3 DEF IInv
<1>4. CASE rs # {}
  <2>1. PICK p \in rs : currentProcess' = p /\ ready' = rs \ {p} /\ start' = now
    BY <1>4 DEF Schedule
  <2>2. Placed'
    BY <1>1, <2>1, ChargedSettles DEF IInv, Placed
  <2>3. CpuTimeExact'
    BY <1>1, <1>2, <2>1, ChargedSettles DEF CpuTimeExact, Alive, IInv, Placed
  <2> QED
    BY <2>2, <2>3 DEF IInv
<1> QED
  BY <1>3, <1>4

(* A step that charges the running process and goes on with it, while some  *)
(* blocked processes become ready.                                          *)
LEMMA ChargeKeeps ==
  ASSUME IInv, currentProcess # NULL, updateCPUTime, NEW W \in SUBSET blocked,
         ready' = ready \cup W, blocked' = blocked \ W,
         UNCHANGED <<currentProcess, now, ran>>
  PROVE  IInv'
<1>1. Placed'
  BY ChargedSettles DEF updateCPUTime, IInv, Placed
<1>2. CpuTimeExact'
  BY ChargedSettles DEF updateCPUTime, CpuTimeExact, Alive, IInv, Placed
<1> QED
  BY <1>1, <1>2 DEF IInv

(* A step that charges nobody and moves nobody.                             *)
LEMMA NothingCharged ==
  ASSUME IInv, UNCHANGED <<schedVars, timeVars>>
  PROVE  IInv'
BY DEF schedVars, timeVars, IInv, Placed, CpuTimeExact, Alive

LEMMA PassUpKeeps ==
  ASSUME IInv, currentProcess # NULL, NEW type, NEW e, passUpOrDie(type, e)
  PROVE  IInv'
<1>1. CASE currentProcess \in Uprocs
  BY <1>1, NothingCharged DEF passUpOrDie
<1>2. CASE currentProcess \notin Uprocs
  BY <1>2, ScheduleKeeps DEF passUpOrDie
<1> QED
  BY <1>1, <1>2

LEMMA ServeKeeps ==
  ASSUME IInv, currentProcess # NULL, NEW n, NEW s, Serve(n, s)
  PROVE  IInv'
<1>1. UNCHANGED <<now, ran>>
  BY DEF Serve
<1>2. CASE getter(s)
  BY <1>1, <1>2, NothingCharged DEF getter, Resume, timeVars
<1>3. CASE getCPUTime(s) \/ passeren(s)
  BY <1>1, <1>3, ChargeKeeps DEF getCPUTime, passeren, Resume, schedVars
<1>4. CASE verhogen(s)
  <2>1. PICK p \in blocked : blocked' = blocked \ {p} /\ ready' = ready \cup {p}
    BY <1>4 DEF verhogen
  <2> QED
    BY <1>1, <1>4, <2>1, ChargeKeeps DEF verhogen
<1>5. CASE wait(s)
  BY <1>1, <1>5, ScheduleKeeps DEF wait, IInv, Placed
<1>6. CASE yield(s)
  BY <1>1, <1>6, ScheduleKeeps DEF yield
<1>7. CASE terminateProcess
  BY <1>1, <1>7, ScheduleKeeps DEF terminateProcess
<1> QED
  BY <1>2, <1>3, <1>4, <1>5, <1>6, <1>7 DEF Serve

LEMMA InterruptKeeps ==
  ASSUME IInv, WakingInterrupt
  PROVE  IInv'
<1>1. PICK W \in SUBSET blocked :
        /\ blocked' = blocked \ W
        /\ IF currentProcess # NULL
           THEN updateCPUTime /\ ready' = ready \cup W /\ UNCHANGED <<currentProcess, cpu, p_s>>
           ELSE /\ UNCHANGED p_time
                /\ IF W = {} THEN start' = now /\ UNCHANGED <<currentProcess, ready, cpu, p_s>>
                             ELSE Schedule(W, p_s)
        /\ UNCHANGED <<exceptState, now, ran>>
  BY DEF WakingInterrupt
<1>2. CASE currentProcess # NULL
  BY <1>1, <1>2, ChargeKeeps
<1>3. CASE currentProcess = NULL /\ W = {}
  BY <1>1, <1>3 DEF IInv, Placed, CpuTimeExact, Alive
<1>4. CASE currentProcess = NULL /\ W # {}
  <2>1. PICK p \in W : currentProcess' = p /\ ready' = W \ {p} /\ start' = now
    BY <1>1, <1>4 DEF Schedule
  <2>2. Placed'
    BY <1>1, <1>4, <2>1, ProcessorAssumption DEF IInv, Placed
  <2>3. CpuTimeExact'
    BY <1>1, <1>4, <2>1, ProcessorAssumption DEF IInv, Placed, CpuTimeExact, Alive
  <2> QED
    BY <2>2, <2>3 DEF IInv
<1> QED
  BY <1>2, <1>3, <1>4

LEMMA TickKeeps ==
  ASSUME IInv, Tick
  PROVE  IInv'
<1>1. CASE currentProcess = NULL
  BY <1>1 DEF Tick, schedVars, IInv, Placed, CpuTimeExact, Alive
<1>2. CASE currentProcess # NULL
  <2>1. /\ currentProcess \in Procs /\ now' = now + 1
        /\ ran' = [ran EXCEPT ![currentProcess] = @ + 1]
        /\ UNCHANGED <<currentProcess, ready, blocked, start, p_time>>
    BY <1>2 DEF Tick, schedVars, IInv, Placed
  <2> QED
    BY <2>1 DEF IInv, Placed, CpuTimeExact, Alive
<1> QED
  BY <1>1, <1>2

LEMMA IInvInit == Init => IInv
BY ProcessorAssumption DEF Init, IInv, Placed, CpuTimeExact, Alive

LEMMA IInvStep == IInv /\ [Next]_vars => IInv'
<1> SUFFICES ASSUME IInv, [Next]_vars PROVE IInv'
  OBVIOUS
<1>1. CASE Step
  BY <1>1, NothingCharged DEF Step, Resume
<1>2. CASE SystemCall
  <2>1. currentProcess # NULL
    BY <1>2 DEF SystemCall, Executes
  <2> DEFINE e == [at |-> Next1, cause |-> "ecall", a0 |-> Instr.a0]
  <2>2. systemCallHandler(Instr.a0, e)
    BY <1>2 DEF SystemCall
  <2> QED
    BY <2>1, <2>2, PassUpKeeps, ServeKeeps DEF systemCallHandler
<1>3. CASE PageFault
  BY <1>3, PassUpKeeps DEF PageFault, Executes
<1>4. CASE Trap
  BY <1>4, PassUpKeeps DEF Trap, Executes
<1>5. CASE Return
  BY <1>5, NothingCharged DEF Return, Resume
<1>6. CASE TimerInterrupt
  BY <1>6, ScheduleKeeps DEF TimerInterrupt
<1>7. CASE WakingInterrupt
  BY <1>7, InterruptKeeps
<1>8. CASE Tick
  BY <1>8, TickKeeps
<1>9. CASE UNCHANGED vars
  BY <1>9, NothingCharged DEF vars
<1> QED
  BY <1>1, <1>2, <1>3, <1>4, <1>5, <1>6, <1>7, <1>8, <1>9 DEF Next

(* Every interval of the processor's time is charged once, to the process   *)
(* that had it (functions.c:311, interrupt.c:158).                          *)
THEOREM TimeExact == Spec => []CpuTimeExact
<1>1. IInv => CpuTimeExact
  BY DEF IInv
<1> QED
  BY <1>1, IInvInit, IInvStep, PTL DEF Spec

-----------------------------------------------------------------------------
(* The types of the clock and of the accounts: nobody is charged more than  *)
(* it ran, and nobody ran longer than the machine.                          *)

TimeTypeOK ==
  /\ now \in 0..MaxTime /\ start \in 0..now
  /\ p_time \in [Procs -> Nat] /\ ran \in [Procs -> Nat]
  /\ \A p \in Procs : p_time[p] <= ran[p] /\ ran[p] <= now

(* What any step but Tick does to the clock.                                *)
ClockRead ==
  /\ now' = now /\ ran' = ran
  /\ start' \in {start, now}
  /\ \/ p_time' = p_time
     \/ currentProcess # NULL /\ p_time' = Charged

LEMMA ScheduleReadsClock ==
  ASSUME NEW rs, NEW ps, Schedule(rs, ps)
  PROVE  start' \in {start, now} /\ p_s' = ps
BY DEF Schedule

LEMMA StepReadsClock ==
  ASSUME [Next]_vars, ~Tick
  PROVE  ClockRead
<1> USE DEF ClockRead
<1>1. ASSUME NEW type, NEW e, currentProcess # NULL, passUpOrDie(type, e)
      PROVE  ClockRead
  BY <1>1, ScheduleReadsClock DEF passUpOrDie, timeVars
<1>2. ASSUME NEW n, NEW s, currentProcess # NULL, Serve(n, s)
      PROVE  ClockRead
  BY <1>2, ScheduleReadsClock
  DEF Serve, getter, getCPUTime, passeren, verhogen, wait, yield,
      terminateProcess, updateCPUTime
<1>3. CASE SystemCall
  <2> DEFINE e == [at |-> Next1, cause |-> "ecall", a0 |-> Instr.a0]
  <2>1. currentProcess # NULL /\ systemCallHandler(Instr.a0, e)
    BY <1>3 DEF SystemCall, Executes
  <2> HIDE DEF ClockRead
  <2> QED
    BY <1>1, <1>2, <2>1 DEF systemCallHandler
<1>4. CASE PageFault \/ Trap
  <2>1. currentProcess # NULL
    BY <1>4 DEF PageFault, Trap, Executes
  <2> HIDE DEF ClockRead
  <2> QED
    BY <1>1, <1>4, <2>1 DEF PageFault, Trap
<1>5. CASE WakingInterrupt
  BY <1>5, ScheduleReadsClock DEF WakingInterrupt, updateCPUTime
<1>6. CASE TimerInterrupt
  BY <1>6, ScheduleReadsClock DEF TimerInterrupt
<1>7. CASE Step \/ Return \/ UNCHANGED vars
  BY <1>7 DEF Step, Return, vars, timeVars
<1> QED
  BY <1>3, <1>4, <1>5, <1>6, <1>7 DEF Next

LEMMA TimeTypeStep ==
  ASSUME IInv, TimeTypeOK, [Next]_vars
  PROVE  TimeTypeOK'
<1>1. CASE Tick
  <2>1. /\ now' = now + 1 /\ now < MaxTime /\ UNCHANGED <<start, p_time>>
        /\ \/ ran' = ran
           \/ ran' = [ran EXCEPT ![currentProcess] = @ + 1]
    BY <1>1 DEF Tick
  <2> QED
    BY <2>1, ProcessorAssumption DEF TimeTypeOK
<1>2. CASE ~Tick
  <2>1. ClockRead
    BY <1>2, StepReadsClock
  <2>2. CASE p_time' = p_time
    BY <2>1, <2>2 DEF ClockRead, TimeTypeOK
  <2>3. CASE currentProcess # NULL /\ p_time' = Charged
    <3>1. /\ currentProcess \in Procs
          /\ ran[currentProcess] = Charged[currentProcess]
          /\ Charged = [p_time EXCEPT ![currentProcess] = Charged[currentProcess]]
      BY <2>3, ChargedSettles DEF IInv, Placed, Charged
    <3> HIDE DEF Charged
    <3> QED
      BY <2>1, <2>3, <3>1 DEF ClockRead, TimeTypeOK
  <2> QED
    BY <2>1, <2>2, <2>3 DEF ClockRead
<1> QED
  BY <1>1, <1>2

-----------------------------------------------------------------------------
(* What a step does to the processes alive and to their states, whatever    *)
(* register or PCB these are in.                                            *)

Stored == cpu \in State /\ p_s \in [Procs -> State]

Elsewhere == Alive' = Alive /\ States' = States /\ exceptState' = exceptState

Proceeds(s) ==
  /\ Alive' = Alive
  /\ States' = [States EXCEPT ![currentProcess] = s]
  /\ exceptState' = exceptState

Dies ==
  /\ Alive' = Alive \ {currentProcess}
  /\ \A p \in Procs \ {currentProcess} : States'[p] = States[p]
  /\ exceptState' = exceptState

Handles(type, e) ==
  /\ currentProcess \in Uprocs
  /\ Alive' = Alive
  /\ States' = [States EXCEPT ![currentProcess] =
                  [level |-> IF type = GENERALEXCEPT THEN 1 ELSE 2, pc |-> 0]]
  /\ exceptState' = [exceptState EXCEPT ![currentProcess][type] = e]

(* The steps by what the running process does.                              *)
Advances ==
  /\ \/ Executes("plain") \/ Executes("load")
     \/ /\ Executes("ecall") /\ ~UserMode
        /\ Instr.a0 \in (-10..-1) \ {TERMPROCESS}
  /\ Proceeds(Next1)

Ends ==
  /\ \/ Executes("ecall") /\ ~UserMode /\ Instr.a0 = TERMPROCESS
     \/ /\ currentProcess \notin Uprocs
        /\ \/ Executes("illegal")
           \/ Executes("ecall") /\ Instr.a0 \notin -10..-1
  /\ Dies

PassesUp ==
  \/ /\ Executes("ecall") /\ Instr.a0 \notin -10..-1
     /\ \E c \in {"ecall", "privileged"} :
          /\ Instr.a0 >= 1 => c = "ecall"
          /\ Handles(GENERALEXCEPT, [at |-> Next1, cause |-> c, a0 |-> Instr.a0])
  \/ /\ Executes("ecall") /\ Instr.a0 \in -10..-1 /\ UserMode
     /\ Handles(GENERALEXCEPT,
                [at |-> Next1, cause |-> "privileged", a0 |-> Instr.a0])
  \/ /\ Executes("illegal")
     /\ Handles(GENERALEXCEPT, [at |-> cpu, cause |-> "trap", a0 |-> 0])

Faults ==
  /\ Executes("load")
  /\ Handles(PGFAULTEXCEPT, [at |-> cpu, cause |-> "page", a0 |-> 0])

Returns ==
  /\ currentProcess # NULL /\ cpu.level > 0 /\ Ended
  /\ Proceeds(exceptState[currentProcess]
                [IF cpu.level = 1 THEN GENERALEXCEPT ELSE PGFAULTEXCEPT].at)

LEMMA RunningState ==
  ASSUME Placed, Stored
  PROVE  /\ Alive \subseteq Procs
         /\ currentProcess # NULL =>
              /\ currentProcess \in Procs /\ currentProcess \in Alive
              /\ States[currentProcess] = cpu
              /\ \A s : Saved(s) = [States EXCEPT ![currentProcess] = s]
         /\ States \in [Procs -> State]
<1>1. Alive \subseteq Procs
  BY DEF Placed, Alive
<1>2. States \in [Procs -> State]
  BY DEF Stored, States
<1>3. ASSUME currentProcess # NULL
      PROVE  /\ currentProcess \in Procs /\ currentProcess \in Alive
             /\ States[currentProcess] = cpu
             /\ \A s : Saved(s) = [States EXCEPT ![currentProcess] = s]
  BY <1>3 DEF Placed, Stored, Alive, States, Saved
<1> QED
  BY <1>1, <1>2, <1>3

LEMMA ScheduleEffect ==
  ASSUME Placed, Stored, NEW rs, NEW ps \in [Procs -> State],
         rs \subseteq Procs, blocked' \subseteq Procs, Schedule(rs, ps)
  PROVE  Alive' = rs \cup blocked' /\ States' = ps /\ Stored'
<1>1. NULL \notin Procs
  BY ProcessorAssumption
<1>2. CASE rs = {}
  BY <1>1, <1>2 DEF Schedule, Alive, States, Stored
<1>3. CASE rs # {}
  <2>1. PICK p \in rs : /\ currentProcess' = p /\ ready' = rs \ {p}
                        /\ cpu' = ps[p] /\ p_s' = ps
    BY <1>3 DEF Schedule
  <2> QED
    BY <1>1, <2>1 DEF Alive, States, Stored
<1> QED
  BY <1>2, <1>3

(* The running process goes on, with the state s.                           *)
LEMMA ResumeEffect ==
  ASSUME Placed, Stored, currentProcess # NULL, NEW s \in State, cpu' = s,
         p_s' = p_s \/ p_s' = Saved(s),
         ready' \cup blocked' = ready \cup blocked,
         UNCHANGED <<currentProcess, exceptState>>
  PROVE  Proceeds(s) /\ Stored'
<1>1. currentProcess \in Procs
  BY RunningState
<1>2. Stored'
  BY <1>1 DEF Stored, Saved
<1>3. States' = [States EXCEPT ![currentProcess] = s]
  BY <1>1 DEF Stored, Saved, States
<1>4. Alive' = Alive
  BY DEF Alive
<1> QED
  BY <1>2, <1>3, <1>4 DEF Proceeds

(* It leaves the processor, with the state s.                               *)
LEMMA SwitchEffect ==
  ASSUME Placed, Stored, currentProcess # NULL, NEW s \in State, NEW rs,
         Schedule(rs, Saved(s)), UNCHANGED exceptState,
         rs \cup blocked' = ready \cup blocked \cup {currentProcess}
  PROVE  Proceeds(s) /\ Stored'
<1>1. /\ currentProcess \in Procs /\ Alive \subseteq Procs
      /\ Alive = ready \cup blocked \cup {currentProcess}
      /\ Saved(s) = [States EXCEPT ![currentProcess] = s]
  BY RunningState DEF Alive
<1>2. Saved(s) \in [Procs -> State]
  BY DEF Stored, Saved
<1> QED
  BY <1>1, <1>2, ScheduleEffect DEF Proceeds

LEMMA DieEffect ==
  ASSUME Placed, Stored, currentProcess # NULL, Schedule(ready, p_s),
         UNCHANGED <<blocked, exceptState>>
  PROVE  Dies /\ Stored'
<1>1. /\ ready \subseteq Procs /\ blocked \subseteq Procs
      /\ Alive \ {currentProcess} = ready \cup blocked
      /\ p_s \in [Procs -> State]
  BY DEF Placed, Stored, Alive
<1>2. Alive' = ready \cup blocked /\ States' = p_s /\ Stored'
  BY <1>1, ScheduleEffect
<1> QED
  BY <1>1, <1>2 DEF Dies, States

LEMMA PassUpEffect ==
  ASSUME Placed, Stored, currentProcess # NULL, NEW type, NEW e,
         passUpOrDie(type, e)
  PROVE  /\ currentProcess \in Uprocs => Handles(type, e)
         /\ currentProcess \notin Uprocs => Dies
         /\ Stored'
<1>1. CASE currentProcess \in Uprocs
  <2> DEFINE s == [level |-> IF type = GENERALEXCEPT THEN 1 ELSE 2, pc |-> 0]
  <2>1. /\ exceptState' = [exceptState EXCEPT ![currentProcess][type] = e]
        /\ cpu' = s /\ UNCHANGED <<currentProcess, ready, blocked, p_s>>
    BY <1>1 DEF passUpOrDie, schedVars
  <2>2. s \in State
    BY DEF State
  <2> HIDE DEF s
  <2>3. Alive' = Alive /\ States' = [States EXCEPT ![currentProcess] = s] /\ Stored'
    BY <2>1, <2>2, RunningState DEF Alive, States, Stored
  <2> QED
    BY <1>1, <2>1, <2>3 DEF Handles, s
<1>2. CASE currentProcess \notin Uprocs
  BY <1>2, DieEffect DEF passUpOrDie
<1> QED
  BY <1>1, <1>2

LEMMA ServeEffect ==
  ASSUME Placed, Stored, currentProcess # NULL, NEW n \in -10..-1,
         NEW s \in State, Serve(n, s)
  PROVE  /\ n = TERMPROCESS => Dies
         /\ n # TERMPROCESS => Proceeds(s)
         /\ Stored'
<1> USE DEF Getters, CREATEPROCESS, TERMPROCESS, PASSEREN, VERHOGEN, DOIO,
            GETTIME, CLOCKWAIT, GETSUPPORTPTR, GETPROCESSID, YIELD
<1>1. exceptState' = exceptState
  BY DEF Serve
<1>2. CASE n # TERMPROCESS /\ (getter(s) \/ getCPUTime(s) \/ passeren(s))
  BY <1>1, <1>2, ResumeEffect
  DEF getter, getCPUTime, passeren, Resume, schedVars
<1>3. CASE n # TERMPROCESS /\ verhogen(s)
  <2>1. ready' \cup blocked' = ready \cup blocked
    BY <1>3 DEF verhogen
  <2> QED
    BY <1>1, <1>3, <2>1, ResumeEffect DEF verhogen
<1>4. CASE n # TERMPROCESS /\ (wait(s) \/ yield(s))
  <2>1. PICK rs : /\ Schedule(rs, Saved(s))
                  /\ rs \cup blocked' = ready \cup blocked \cup {currentProcess}
    BY <1>4 DEF wait, yield
  <2> QED
    BY <1>1, <1>4, <2>1, SwitchEffect
<1>5. CASE n = TERMPROCESS /\ terminateProcess
  BY <1>1, <1>5, DieEffect DEF terminateProcess
<1> QED
  BY <1>2, <1>3, <1>4, <1>5 DEF Serve

LEMMA InterruptEffect ==
  ASSUME Placed, Stored, TimerInterrupt \/ WakingInterrupt
  PROVE  Elsewhere /\ Stored'
<1>0. cpu \in State
  BY DEF Stored
<1>1. CASE TimerInterrupt
  <2>1. currentProcess # NULL
    BY <1>1 DEF TimerInterrupt
  <2>2. Proceeds(cpu) /\ Stored'
    BY <1>0, <1>1, <2>1, SwitchEffect DEF TimerInterrupt
  <2>3. [States EXCEPT ![currentProcess] = cpu] = States
    BY <2>1, RunningState
  <2> QED
    BY <2>2, <2>3 DEF Proceeds, Elsewhere
<1>2. ASSUME NEW W \in SUBSET blocked, blocked' = blocked \ W,
             exceptState' = exceptState,
             \/ /\ ready' = ready \cup W
                /\ UNCHANGED <<currentProcess, cpu, p_s>>
             \/ /\ W = {}
                /\ UNCHANGED <<currentProcess, ready, cpu, p_s>>
      PROVE  Elsewhere /\ Stored'
  BY <1>2 DEF Elsewhere, Alive, States, Stored
<1>3. ASSUME NEW W \in SUBSET blocked, blocked' = blocked \ W, W # {},
             currentProcess = NULL, Schedule(W, p_s), exceptState' = exceptState
      PROVE  Elsewhere /\ Stored'
  <2>1. /\ W \subseteq Procs /\ blocked' \subseteq Procs
        /\ p_s \in [Procs -> State] /\ W \cup blocked' = blocked
    BY <1>3 DEF Placed, Stored
  <2>2. Alive' = blocked /\ States' = p_s /\ Stored'
    BY <1>3, <2>1, ScheduleEffect
  <2>3. States = p_s
    BY <1>3, ProcessorAssumption DEF States, Stored
  <2>4. ready = {}
    BY <1>3 DEF Placed
  <2> QED
    BY <1>3, <2>2, <2>3, <2>4 DEF Elsewhere, Alive
<1> QED
  BY <1>1, <1>2, <1>3 DEF WakingInterrupt

(* Every step is one of these; Instr is an Instruction, and the states a    *)
(* handler saved are states.                                                *)
LEMMA StepEffect ==
  ASSUME Placed, Stored, [Next]_vars,
         currentProcess # NULL /\ ~Ended => Instr \in Instruction,
         exceptState \in [Uprocs -> [0..1 -> Exception]],
         currentProcess # NULL /\ cpu.level > 0 => currentProcess \in Uprocs
  PROVE  /\ Elsewhere \/ Advances \/ Ends \/ PassesUp \/ Faults \/ Returns
         /\ Stored'
<1> DEFINE Result == /\ Elsewhere \/ Advances \/ Ends \/ PassesUp \/ Faults \/ Returns
                     /\ Stored'
<1>0. Next1 \in State /\ cpu \in State
  BY DEF Stored, State, Next1
<1>1. CASE Step
  <2>1. currentProcess # NULL /\ (Executes("plain") \/ Executes("load"))
    BY <1>1 DEF Step, Executes
  <2>2. Proceeds(Next1) /\ Stored'
    BY <1>0, <1>1, <2>1, ResumeEffect DEF Step, Resume, schedVars
  <2> QED
    BY <2>1, <2>2 DEF Advances
<1>2. CASE SystemCall
  <2> DEFINE n == Instr.a0
             e == [at |-> Next1, cause |-> "ecall", a0 |-> n]
  <2>1. /\ currentProcess # NULL /\ ~Ended /\ Executes("ecall")
        /\ systemCallHandler(n, e)
    BY <1>2 DEF SystemCall, Executes
  <2>2. n \in Int
    BY <2>1 DEF Instruction
  <2>3. /\ e.at = Next1
        /\ [e EXCEPT !.cause = "privileged"]
             = [at |-> Next1, cause |-> "privileged", a0 |-> n]
    OBVIOUS
  <2> HIDE DEF n, e
  <2>4. CASE n >= 1 \/ (~UserMode /\ n \notin -10..-1)
    <3>1. passUpOrDie(GENERALEXCEPT, e) /\ n \notin -10..-1
      BY <2>1, <2>2, <2>4 DEF systemCallHandler
    <3>2. /\ currentProcess \in Uprocs => Handles(GENERALEXCEPT, e)
          /\ currentProcess \notin Uprocs => Dies
          /\ Stored'
      BY <2>1, <3>1, PassUpEffect
    <3> QED
      BY <2>1, <3>1, <3>2 DEF PassesUp, Ends, n, e
  <2>5. CASE ~(n >= 1) /\ UserMode
    <3>1. passUpOrDie(GENERALEXCEPT, [e EXCEPT !.cause = "privileged"])
      BY <2>1, <2>5 DEF systemCallHandler
    <3>2. /\ Handles(GENERALEXCEPT, [at |-> Next1, cause |-> "privileged", a0 |-> n])
          /\ Stored'
      BY <2>1, <2>3, <2>5, <3>1, PassUpEffect DEF UserMode
    <3> QED
      BY <2>1, <2>5, <3>2 DEF PassesUp, n
  <2>6. CASE ~(n >= 1) /\ ~UserMode /\ n \in -10..-1
    <3>1. Serve(n, Next1)
      BY <2>1, <2>3, <2>6 DEF systemCallHandler
    <3>2. /\ n = TERMPROCESS => Dies
          /\ n # TERMPROCESS => Proceeds(Next1)
          /\ Stored'
      BY <1>0, <2>1, <2>6, <3>1, ServeEffect
    <3> QED
      BY <2>1, <2>6, <3>2 DEF Ends, Advances, n
  <2> QED
    BY <2>4, <2>5, <2>6
<1>3. CASE PageFault
  <2>1. /\ Executes("load") /\ currentProcess # NULL /\ currentProcess \in Uprocs
        /\ passUpOrDie(PGFAULTEXCEPT, [at |-> cpu, cause |-> "page", a0 |-> 0])
    BY <1>3 DEF PageFault, Executes
  <2> QED
    BY <2>1, PassUpEffect DEF Faults
<1>4. CASE Trap
  <2>1. /\ Executes("illegal") /\ currentProcess # NULL
        /\ passUpOrDie(GENERALEXCEPT, [at |-> cpu, cause |-> "trap", a0 |-> 0])
    BY <1>4 DEF Trap, Executes
  <2> QED
    BY <2>1, PassUpEffect DEF PassesUp, Ends
<1>5. CASE Return
  <2> DEFINE s == exceptState[currentProcess]
                    [IF cpu.level = 1 THEN GENERALEXCEPT ELSE PGFAULTEXCEPT].at
  <2>1. currentProcess # NULL /\ cpu.level > 0 /\ Ended
    BY <1>5 DEF Return
  <2>2. s \in State
    BY <2>1 DEF Exception, GENERALEXCEPT, PGFAULTEXCEPT
  <2>3. /\ cpu' = s /\ p_s' = p_s
        /\ UNCHANGED <<currentProcess, ready, blocked, exceptState>>
    BY <1>5 DEF Return, Resume, schedVars
  <2>4. Proceeds(s) /\ Stored'
    BY <2>1, <2>2, <2>3, ResumeEffect
  <2> QED
    BY <2>1, <2>4 DEF Returns
<1>6. CASE TimerInterrupt \/ WakingInterrupt
  BY <1>6, InterruptEffect
<1>7. CASE Tick \/ UNCHANGED vars
  BY <1>7 DEF Tick, vars, schedVars, Elsewhere, Alive, States, Stored
<1> QED
  BY <1>1, <1>2, <1>3, <1>4, <1>5, <1>6, <1>7 DEF Next

-----------------------------------------------------------------------------
(* The inductive invariant: what the states saved are states of.  A U-proc  *)
(* is in its own code, or in the general handler called from there, or in   *)
(* the pager called from one of the two.  The handler of what nobody serves *)
(* never comes to its end.                                                  *)

InProgram(p, s) == s.level = 0 /\ s.pc <= Len(Program[p])

Within(why, pc) ==
  /\ pc <= Len(supportGeneralExHandler(why))
  /\ why = Illegal => pc < Len(supportGeneralExHandler(why))

InHandler(p, e, s) ==
  /\ p \in Uprocs /\ s.level = 1
  /\ Within(Why(e[GENERALEXCEPT]), s.pc)
  /\ InProgram(p, e[GENERALEXCEPT].at)

InPager(p, e, s) ==
  /\ p \in Uprocs /\ s.level = 2 /\ s.pc <= Len(pager)
  /\ e[PGFAULTEXCEPT].cause = "page"
  /\ \/ InProgram(p, e[PGFAULTEXCEPT].at)
     \/ InHandler(p, e, e[PGFAULTEXCEPT].at)

Framed(p, e, s) == InProgram(p, s) \/ InHandler(p, e, s) \/ InPager(p, e, s)

Frames == \A p \in Alive : Framed(p, exceptState[p], States[p])

FramesInv ==
  /\ Placed /\ Stored
  /\ exceptState \in [Uprocs -> [0..1 -> Exception]]
  /\ Frames

(* The code of the support level: accesses to memory and calls of services  *)
(* of the nucleus; what ends a process is its last instruction.             *)
HandlerInstruction == {Load} \cup {Ecall(n) : n \in (-10..-1) \ {TERMPROCESS}}

LEMMA HandlerCode ==
  ASSUME NEW why
  PROVE  /\ supportGeneralExHandler(why) \in Seq(Instruction)
         /\ \A i \in 1..Len(supportGeneralExHandler(why)) :
              \/ supportGeneralExHandler(why)[i] \in HandlerInstruction
              \/ /\ why \notin {Ecall(4), Ecall(5), Ecall(6)}
                 /\ supportGeneralExHandler(why)[i] = Ecall(TERMPROCESS)
                 /\ i = Len(supportGeneralExHandler(why))
         /\ why \notin {Ecall(4), Ecall(5), Ecall(6)} =>
              /\ Len(supportGeneralExHandler(why)) = 3
              /\ supportGeneralExHandler(why)[3] = Ecall(TERMPROCESS)
<1>5. /\ why \in {Ecall(4), Ecall(5), Ecall(6)} =>
           supportGeneralExHandler(why)
             \in {sys4_writeTerminal, sys5_readTerminal, sys6_execute}
      /\ why \notin {Ecall(4), Ecall(5), Ecall(6)} =>
           supportGeneralExHandler(why) = programTrapHandler
  BY Zenon DEF supportGeneralExHandler
<1> USE DEF Ecall, Load, CREATEPROCESS, TERMPROCESS, PASSEREN, VERHOGEN, DOIO,
            GETSUPPORTPTR, HandlerInstruction
<1>1. /\ sys4_writeTerminal \in Seq(Instruction) /\ Len(sys4_writeTerminal) = 5
      /\ \A i \in 1..5 : sys4_writeTerminal[i] \in HandlerInstruction
  BY DEF sys4_writeTerminal, Instruction
<1>2. /\ sys5_readTerminal \in Seq(Instruction) /\ Len(sys5_readTerminal) = 5
      /\ \A i \in 1..5 : sys5_readTerminal[i] \in HandlerInstruction
  BY DEF sys5_readTerminal, Instruction
<1>3. /\ sys6_execute \in Seq(Instruction) /\ Len(sys6_execute) = 3
      /\ \A i \in 1..3 : sys6_execute[i] \in HandlerInstruction
  BY DEF sys6_execute, Instruction
<1>4. /\ programTrapHandler \in Seq(Instruction) /\ Len(programTrapHandler) = 3
      /\ \A i \in 1..2 : programTrapHandler[i] \in HandlerInstruction
      /\ programTrapHandler[3] = Ecall(TERMPROCESS)
  BY DEF programTrapHandler, Instruction
<1>6. CASE why \in {Ecall(4), Ecall(5), Ecall(6)}
  BY <1>1, <1>2, <1>3, <1>5, <1>6
<1>7. CASE why \notin {Ecall(4), Ecall(5), Ecall(6)}
  <2>1. \A i \in 1..3 : i \in 1..2 \/ i = 3
    OBVIOUS
  <2> QED
    BY <1>4, <1>5, <1>7, <2>1
<1> QED
  BY <1>6, <1>7

LEMMA PagerCode ==
  /\ pager \in Seq(Instruction) /\ Len(pager) = 4
  /\ \A i \in 1..4 : pager[i] \in HandlerInstruction /\ pager[i] # Load
BY DEF pager, Instruction, Ecall, Load, TERMPROCESS, PASSEREN, VERHOGEN, DOIO,
       GETSUPPORTPTR, HandlerInstruction

LEMMA WhyCases ==
  ASSUME NEW e \in Exception
  PROVE  /\ Why(e) \in Instruction
         /\ e.cause = "page" => Why(e) = Load
         /\ e.cause = "ecall" /\ e.a0 \in {4, 5, 6} => Why(e) = Ecall(e.a0)
         /\ e.cause # "page" /\ ~(e.cause = "ecall" /\ e.a0 \in {4, 5, 6})
              => Why(e) = Illegal
         /\ Load # Illegal /\ Plain # Illegal /\ \A n : Ecall(n) # Illegal
<1>1. "page" # "ecall"
  OBVIOUS
<1>2. /\ e.cause = "page" => Why(e) = Load
      /\ e.cause = "ecall" /\ e.a0 \in {4, 5, 6} => Why(e) = Ecall(e.a0)
      /\ e.cause # "page" /\ ~(e.cause = "ecall" /\ e.a0 \in {4, 5, 6})
           => Why(e) = Illegal
  BY <1>1, Zenon DEF Why
<1>3. /\ Load \in Instruction /\ Illegal \in Instruction
      /\ \A n \in Int : Ecall(n) \in Instruction
      /\ e.a0 \in Int
  BY DEF Load, Illegal, Ecall, Instruction, Exception
<1>4. Load # Illegal /\ Plain # Illegal /\ \A n : Ecall(n) # Illegal
  BY DEF Load, Plain, Illegal, Ecall
<1> QED
  BY <1>2, <1>3, <1>4

-----------------------------------------------------------------------------
(* A stack is its first activation and those below it.                      *)

Acts == [level : 0..2, pc : Nat, why : Instruction]

TopWhy(e, s) ==
  IF s.level = 0 THEN Plain
  ELSE IF s.level = 1 THEN Why(e[GENERALEXCEPT]) ELSE Why(e[PGFAULTEXCEPT])

Below(e, s) ==
  IF s.level = 0 THEN <<>>
  ELSE IF s.level = 1 THEN <<Activation(e[GENERALEXCEPT].at, Plain)>>
  ELSE IF e[PGFAULTEXCEPT].at.level = 0
  THEN <<Activation(e[PGFAULTEXCEPT].at, Plain)>>
  ELSE <<Activation(e[PGFAULTEXCEPT].at, Why(e[GENERALEXCEPT]))>>
         \o <<Activation(e[GENERALEXCEPT].at, Plain)>>

LEMMA Cons ==
  ASSUME NEW P, NEW a \in P, NEW r \in Seq(P)
  PROVE  /\ <<a>> \o r \in Seq(P) /\ <<a>> \o r # <<>>
         /\ Len(<<a>> \o r) = Len(r) + 1
         /\ Head(<<a>> \o r) = a /\ Tail(<<a>> \o r) = r
<1> DEFINE c == <<a>> \o r
<1>1. <<a>> \in Seq(P) /\ Len(<<a>>) = 1 /\ <<a>>[1] = a
  OBVIOUS
<1>2. /\ c \in Seq(P) /\ Len(c) = 1 + Len(r)
      /\ \A i \in 1..(1 + Len(r)) : c[i] = IF i <= 1 THEN <<a>>[i] ELSE r[i - 1]
      /\ Len(r) \in Nat
  BY <1>1, ConcatProperties, LenProperties
<1> HIDE DEF c
<1>3. c # <<>> /\ c[1] = a
  BY <1>1, <1>2, EmptySeq
<1>4. Head(c) = a
  BY <1>2, <1>3
<1>5. Tail(c) = r
  <2>1. /\ Tail(c) \in Seq(P) /\ Len(Tail(c)) = Len(r)
        /\ \A i \in 1..Len(Tail(c)) : Tail(c)[i] = c[i + 1]
    BY <1>2, <1>3, HeadTailProperties
  <2>2. ASSUME NEW i \in 1..Len(Tail(c)) PROVE Tail(c)[i] = r[i]
    <3>1. i + 1 \in 1..(1 + Len(r)) /\ ~(i + 1 <= 1) /\ (i + 1) - 1 = i
      BY <1>2, <2>1
    <3> QED
      BY <1>2, <2>1, <3>1
  <2> QED
    BY <2>1, <2>2, SeqEqual
<1> QED
  BY <1>2, <1>3, <1>4, <1>5 DEF c

LEMMA StackShape ==
  ASSUME NEW e, NEW s \in State, s.level # 0 => e \in [0..1 -> Exception]
  PROVE  /\ Activation(s, TopWhy(e, s)) \in Acts
         /\ Below(e, s) \in Seq(Acts)
         /\ Stack(e, s) = <<Activation(s, TopWhy(e, s))>> \o Below(e, s)
<1> USE DEF GENERALEXCEPT, PGFAULTEXCEPT
<1>1. s.level \in 0..2 /\ Plain \in Instruction
  BY DEF State, Plain, Instruction
<1>2. \A t \in State, w \in Instruction : Activation(t, w) \in Acts
  BY DEF State, Activation, Acts
<1>3. \A a \in Acts : <<a>> \in Seq(Acts) /\ <<a>> \o <<>> = <<a>>
  <2>1. \A a \in Acts : <<a>> \in Seq(Acts)
    OBVIOUS
  <2> QED
    BY <2>1, ConcatEmptySeq
<1>4. CASE s.level = 0
  <2>1. TopWhy(e, s) = Plain /\ Below(e, s) = <<>>
    BY <1>4 DEF TopWhy, Below
  <2>2. Activation(s, Plain) \in Acts /\ <<>> \in Seq(Acts)
    BY <1>1, <1>2, EmptySeq
  <2> QED
    BY <1>3, <1>4, <2>1, <2>2 DEF Stack
<1>5. CASE s.level # 0
  <2>1. /\ e[0] \in Exception /\ e[1] \in Exception
        /\ e[0].at \in State /\ e[1].at \in State
    BY <1>5 DEF Exception
  <2>2. Why(e[0]) \in Instruction /\ Why(e[1]) \in Instruction
    BY <2>1, WhyCases
  <2>3. Activation(s, TopWhy(e, s)) \in Acts
    BY <1>2, <1>5, <2>2 DEF TopWhy
  <2>4. Below(e, s) \in Seq(Acts)
    <3>1. /\ Activation(e[0].at, Why(e[1])) \in Acts
          /\ Activation(e[0].at, Plain) \in Acts
          /\ Activation(e[1].at, Plain) \in Acts
      BY <1>1, <1>2, <2>1, <2>2
    <3>2. <<Activation(e[0].at, Why(e[1]))>> \o <<Activation(e[1].at, Plain)>>
            \in Seq(Acts)
      BY <1>3, <3>1, Cons
    <3> QED
      BY <1>3, <1>5, <3>1, <3>2 DEF Below
  <2>5. CASE s.level = 1
    BY <2>3, <2>4, <2>5 DEF Stack, Below, TopWhy
  <2>6. CASE s.level = 2
    BY <2>3, <2>4, <2>6 DEF Stack, Below, TopWhy
  <2> QED
    BY <1>1, <1>5, <2>5, <2>6
<1> QED
  BY <1>4, <1>5

LEMMA StackTop ==
  ASSUME NEW e, NEW s \in State, s.level # 0 => e \in [0..1 -> Exception]
  PROVE  /\ Stack(e, s) # <<>> /\ Stack(e, s) \in Seq(Acts)
         /\ Head(Stack(e, s)) = Activation(s, TopWhy(e, s))
         /\ Tail(Stack(e, s)) = Below(e, s)
         /\ Len(Stack(e, s)) = Len(Below(e, s)) + 1
         /\ Len(Below(e, s)) \in Nat
<1> DEFINE a == Activation(s, TopWhy(e, s))
           r == Below(e, s)
<1>1. a \in Acts /\ r \in Seq(Acts) /\ Stack(e, s) = <<a>> \o r
  BY StackShape
<1> HIDE DEF a, r
<1> QED
  BY <1>1, Cons, LenProperties DEF a, r

(* Below a handler is the stack it was called with.                         *)
LEMMA StackBelow ==
  ASSUME NEW e \in [0..1 -> Exception], NEW s \in State
  PROVE  /\ s.level = 1 /\ e[GENERALEXCEPT].at.level = 0
              => Below(e, s) = Stack(e, e[GENERALEXCEPT].at)
         /\ s.level = 2 /\ e[PGFAULTEXCEPT].at.level \in {0, 1}
              => Below(e, s) = Stack(e, e[PGFAULTEXCEPT].at)
BY DEF Below, Stack

(* An instruction moves the first activation only.                          *)
LEMMA StackAdvances ==
  ASSUME NEW e, NEW s \in State, s.level # 0 => e \in [0..1 -> Exception]
  PROVE  LET t == [s EXCEPT !.pc = @ + 1]
             a == Activation(s, TopWhy(e, s))
         IN  Stack(e, t) = <<[a EXCEPT !.pc = @ + 1]>> \o Below(e, s)
<1> DEFINE t == [s EXCEPT !.pc = @ + 1]
           a == Activation(s, TopWhy(e, s))
<1>1. t \in State /\ t.level = s.level /\ t.pc = s.pc + 1
  BY DEF State
<1> HIDE DEF t
<1>2. TopWhy(e, t) = TopWhy(e, s) /\ Below(e, t) = Below(e, s)
  BY <1>1 DEF TopWhy, Below
<1>3. Activation(t, TopWhy(e, s)) = [a EXCEPT !.pc = @ + 1]
  BY <1>1 DEF Activation
<1> QED
  BY <1>1, <1>2, <1>3, StackShape DEF t

-----------------------------------------------------------------------------
(* What the running process executes, seen from its stack.                  *)

LEMMA RunningCode ==
  ASSUME FramesInv, currentProcess # NULL
  PROVE  LET p == currentProcess
             e == exceptState[p]
             code == Code(p, Running)
         IN  /\ p \in Procs
             /\ Activations[p] = Stack(e, cpu)
             /\ Running = Activation(cpu, TopWhy(e, cpu))
             /\ Running.level = cpu.level /\ Running.pc = cpu.pc
             /\ code \in Seq(Instruction) /\ cpu.pc <= Len(code)
             /\ cpu.pc \in Nat /\ cpu.level \in 0..2
             /\ cpu.level = 0 \/ (p \in Uprocs /\ e \in [0..1 -> Exception])
             /\ Framed(p, e, cpu)
             /\ ~Ended => cpu.pc + 1 \in 1..Len(code) /\ Instr \in Instruction
<1> DEFINE p == currentProcess
           e == exceptState[p]
           code == Code(p, Running)
<1>1. p \in Procs /\ p \in Alive /\ States[p] = cpu /\ cpu \in State
  BY RunningState DEF FramesInv, Stored
<1>2. Activations[p] = Stack(e, cpu)
  BY <1>1 DEF Activations
<1>3. Framed(p, e, cpu)
  BY <1>1 DEF FramesInv, Frames
<1>4. cpu.pc \in Nat /\ cpu.level \in 0..2
  BY <1>1 DEF State
<1>5. cpu.level = 0 \/ (p \in Uprocs /\ e \in [0..1 -> Exception])
  BY <1>3 DEF Framed, InProgram, InHandler, InPager, FramesInv
<1>6. Running = Activation(cpu, TopWhy(e, cpu))
  BY <1>1, <1>5, StackTop DEF Running
<1>7. /\ Running.level = cpu.level /\ Running.pc = cpu.pc
      /\ Running.why = TopWhy(e, cpu)
  BY <1>6 DEF Activation
<1> HIDE DEF p, e
<1>8. code \in Seq(Instruction) /\ cpu.pc <= Len(code)
  <2>1. CASE cpu.level = 0
    <3>1. code = Program[p]
      <4>1. Running.level = 0 /\ 0 # 1 /\ 0 # 2
        BY <1>7, <2>1
      <4> QED
        BY <4>1, Zenon DEF Code
    <3>2. cpu.pc <= Len(Program[p])
      BY <1>3, <2>1 DEF Framed, InProgram, InHandler, InPager
    <3> QED
      BY <1>1, <3>1, <3>2, ProgramAssumption
  <2>2. CASE cpu.level = 1
    <3>1. code = supportGeneralExHandler(Why(e[GENERALEXCEPT]))
      <4>1. Running.why = Why(e[GENERALEXCEPT]) /\ Running.level = 1
        BY <1>7, <2>2 DEF TopWhy
      <4>2. 1 # 0 /\ 1 # 2
        OBVIOUS
      <4> QED
        BY <4>1, <4>2, Zenon DEF Code
    <3>2. Within(Why(e[GENERALEXCEPT]), cpu.pc)
      BY <1>3, <2>2 DEF Framed, InProgram, InHandler, InPager
    <3> QED
      BY <3>1, <3>2, HandlerCode DEF Within
  <2>3. CASE cpu.level = 2
    <3>1. code = pager
      <4>1. Running.level = 2 /\ 2 # 0 /\ 2 # 1
        BY <1>7, <2>3
      <4> QED
        BY <4>1, Zenon DEF Code
    <3>2. cpu.pc <= Len(pager)
      BY <1>3, <2>3 DEF Framed, InProgram, InHandler, InPager
    <3> QED
      BY <3>1, <3>2, PagerCode
  <2> QED
    BY <1>4, <2>1, <2>2, <2>3
<1> HIDE DEF code
<1>9. ASSUME ~Ended PROVE cpu.pc + 1 \in 1..Len(code) /\ Instr \in Instruction
  <2>1. cpu.pc # Len(code) /\ Instr = code[cpu.pc + 1]
    BY <1>9 DEF Ended, Instr, code, p
  <2>2. Len(code) \in Nat
    BY <1>8, LenProperties
  <2>3. cpu.pc + 1 \in 1..Len(code)
    BY <1>4, <1>8, <2>1, <2>2
  <2> QED
    BY <1>8, <2>1, <2>3, ElementOfSeq
<1> QED
  BY <1>1, <1>2, <1>3, <1>4, <1>5, <1>6, <1>7, <1>8, <1>9 DEF p, e, code

(* In a handler of the support level the processor executes nothing but     *)
(* accesses to memory, not in the pager, and calls of the nucleus.          *)
LEMMA HandlerRuns ==
  ASSUME FramesInv, currentProcess # NULL, ~Ended, cpu.level > 0
  PROVE  LET why == Why(exceptState[currentProcess][GENERALEXCEPT])
         IN  /\ Instr.op \in {"load", "ecall"}
             /\ Instr.op = "ecall" => Instr.a0 \in -10..-1
             /\ Instr.op = "load" => cpu.level = 1
             /\ /\ cpu.level = 1 /\ why = Illegal
                /\ ~(Instr.op = "ecall" /\ Instr.a0 = TERMPROCESS)
                => cpu.pc + 1 < Len(supportGeneralExHandler(why))
<1> DEFINE p == currentProcess
           e == exceptState[p]
           why == Why(e[GENERALEXCEPT])
<1>1. /\ Running = Activation(cpu, TopWhy(e, cpu)) /\ Running.level = cpu.level
      /\ cpu.pc + 1 \in 1..Len(Code(p, Running))
      /\ Framed(p, e, cpu) /\ cpu.pc \in Nat /\ cpu.level \in 0..2
      /\ cpu.pc # Len(Code(p, Running))
  BY RunningCode DEF Ended
<1>2. Instr = Code(p, Running)[cpu.pc + 1]
  BY DEF Instr
<1>3. \A i : i \in HandlerInstruction \/ i = Ecall(TERMPROCESS) =>
        /\ i.op \in {"load", "ecall"}
        /\ i.op = "ecall" => i.a0 \in -10..-1
        /\ i \in HandlerInstruction => ~(i.op = "ecall" /\ i.a0 = TERMPROCESS)
        /\ i = Ecall(TERMPROCESS) => i.op = "ecall" /\ i.a0 = TERMPROCESS
        /\ i.op = "load" => i = Load
  BY DEF HandlerInstruction, Load, Ecall, TERMPROCESS
<1>4. CASE cpu.level = 1
  <2>1. Code(p, Running) = supportGeneralExHandler(why)
    <3>1. Running.level = 1 /\ 1 # 0 /\ 1 # 2 /\ Running.why = why
      BY <1>1, <1>4 DEF Activation, TopWhy
    <3> QED
      BY <3>1, Zenon DEF Code
  <2> DEFINE h == supportGeneralExHandler(why)
  <2>2. \/ Instr \in HandlerInstruction
        \/ Instr = Ecall(TERMPROCESS)
    BY <1>1, <1>2, <2>1, HandlerCode
  <2>3. ASSUME why = Illegal, ~(Instr.op = "ecall" /\ Instr.a0 = TERMPROCESS)
        PROVE  cpu.pc + 1 < Len(h)
    <3>1. why \notin {Ecall(4), Ecall(5), Ecall(6)}
      BY <2>3 DEF Illegal, Ecall
    <3>2. Len(h) = 3 /\ h[3] = Ecall(TERMPROCESS)
      BY <3>1, HandlerCode
    <3>3. cpu.pc + 1 # 3
      BY <1>2, <1>3, <2>1, <2>3, <3>2
    <3> QED
      BY <1>1, <2>1, <3>2, <3>3
  <2> QED
    BY <1>3, <1>4, <2>2, <2>3
<1>5. CASE cpu.level = 2
  <2>1. Code(p, Running) = pager
    <3>1. Running.level = 2 /\ 2 # 0 /\ 2 # 1
      BY <1>1, <1>5
    <3> QED
      BY <3>1, Zenon DEF Code
  <2>2. Instr \in HandlerInstruction /\ Instr # Load
    BY <1>1, <1>2, <2>1, PagerCode
  <2> QED
    BY <1>3, <1>5, <2>2
<1> QED
  BY <1>1, <1>4, <1>5

(* So the steps are those of StepEffect.                                    *)
LEMMA FramesEffect ==
  ASSUME FramesInv, [Next]_vars
  PROVE  /\ Elsewhere \/ Advances \/ Ends \/ PassesUp \/ Faults \/ Returns
         /\ Stored'
<1>1. currentProcess # NULL /\ ~Ended => Instr \in Instruction
  BY RunningCode
<1>2. currentProcess # NULL /\ cpu.level > 0 => currentProcess \in Uprocs
  BY RunningCode
<1> QED
  BY <1>1, <1>2, StepEffect DEF FramesInv

-----------------------------------------------------------------------------
(* The invariant is inductive.                                              *)

LEMMA OthersFramed ==
  ASSUME FramesInv,
         Alive' \subseteq Alive,
         \A p \in Procs \ {currentProcess} : States'[p] = States[p],
         \A p \in Uprocs \ {currentProcess} : exceptState'[p] = exceptState[p]
  PROVE  \A p \in Alive' \ {currentProcess} :
           Framed(p, exceptState'[p], States'[p])
<1> SUFFICES ASSUME NEW p \in Alive' \ {currentProcess}
             PROVE  Framed(p, exceptState'[p], States'[p])
  OBVIOUS
<1>1. p \in Alive /\ p \in Procs
  BY RunningState DEF FramesInv
<1>2. Framed(p, exceptState[p], States[p]) /\ States'[p] = States[p]
  BY <1>1 DEF FramesInv, Frames
<1>3. CASE p \in Uprocs
  BY <1>2, <1>3
<1>4. CASE p \notin Uprocs
  BY <1>2, <1>4 DEF Framed, InProgram, InHandler, InPager
<1> QED
  BY <1>3, <1>4

LEMMA ProceedsFramed ==
  ASSUME FramesInv, currentProcess # NULL, NEW s \in State, Proceeds(s),
         Framed(currentProcess, exceptState[currentProcess], s)
  PROVE  Frames'
<1>1. currentProcess \in Procs /\ States \in [Procs -> State]
  BY RunningState DEF FramesInv
<1>2. /\ \A p \in Procs \ {currentProcess} : States'[p] = States[p]
      /\ States'[currentProcess] = s
  BY <1>1 DEF Proceeds
<1>3. \A p \in Alive' \ {currentProcess} :
        Framed(p, exceptState'[p], States'[p])
  BY <1>2, OthersFramed DEF Proceeds
<1> QED
  BY <1>2, <1>3 DEF Proceeds, Frames

LEMMA AdvancesFramed ==
  ASSUME FramesInv, Advances
  PROVE  Frames'
<1> DEFINE p == currentProcess
           e == exceptState[p]
           why == Why(e[GENERALEXCEPT])
<1>1. p # NULL /\ ~Ended /\ Proceeds(Next1)
  BY DEF Advances, Executes
<1>2. /\ cpu.pc \in Nat /\ cpu.pc + 1 \in 1..Len(Code(p, Running))
      /\ Running = Activation(cpu, TopWhy(e, cpu))
      /\ Running.level = cpu.level
      /\ Framed(p, e, cpu) /\ cpu \in State
  BY <1>1, RunningCode DEF FramesInv, Stored
<1>3. Next1 \in State /\ Next1.level = cpu.level /\ Next1.pc = cpu.pc + 1
  BY <1>2 DEF Next1, State
<1> HIDE DEF p, e
<1>4. CASE InProgram(p, cpu)
  <2>1. Code(p, Running) = Program[p]
    <3>1. Running.level = 0 /\ 0 # 1 /\ 0 # 2
      BY <1>2, <1>4 DEF InProgram
    <3> QED
      BY <3>1, Zenon DEF Code
  <2>2. InProgram(p, Next1)
    BY <1>2, <1>3, <1>4, <2>1 DEF InProgram
  <2> QED
    BY <1>1, <1>3, <2>2, ProceedsFramed DEF Framed, p, e
<1>5. CASE InHandler(p, e, cpu)
  <2>1. Code(p, Running) = supportGeneralExHandler(why)
    <3>1. Running.level = 1 /\ 1 # 0 /\ 1 # 2 /\ Running.why = why
      BY <1>2, <1>5 DEF Activation, TopWhy, InHandler
    <3> QED
      BY <3>1, Zenon DEF Code
  <2>2. ~(Instr.op = "ecall" /\ Instr.a0 = TERMPROCESS)
    BY DEF Advances, Executes
  <2>3. why = Illegal => cpu.pc + 1 < Len(supportGeneralExHandler(why))
    BY <1>1, <1>5, <2>2, HandlerRuns DEF InHandler, p, e
  <2>4. Within(why, cpu.pc + 1)
    BY <1>2, <2>1, <2>3 DEF Within
  <2>5. InHandler(p, e, Next1)
    BY <1>3, <1>5, <2>4 DEF InHandler
  <2> QED
    BY <1>1, <1>3, <2>5, ProceedsFramed DEF Framed, p, e
<1>6. CASE InPager(p, e, cpu)
  <2>1. Code(p, Running) = pager
    <3>1. Running.level = 2 /\ 2 # 0 /\ 2 # 1
      BY <1>2, <1>6 DEF InPager
    <3> QED
      BY <3>1, Zenon DEF Code
  <2>2. InPager(p, e, Next1)
    BY <1>2, <1>3, <1>6, <2>1 DEF InPager
  <2> QED
    BY <1>1, <1>3, <2>2, ProceedsFramed DEF Framed, p, e
<1> QED
  BY <1>2, <1>4, <1>5, <1>6 DEF Framed

LEMMA ReturnsFramed ==
  ASSUME FramesInv, Returns
  PROVE  Frames'
<1> DEFINE p == currentProcess
           e == exceptState[p]
           s == e[IF cpu.level = 1 THEN GENERALEXCEPT ELSE PGFAULTEXCEPT].at
<1>1. /\ p # NULL /\ cpu.level > 0 /\ Proceeds(s)
      /\ Framed(p, e, cpu) /\ p \in Uprocs /\ e \in [0..1 -> Exception]
  BY RunningCode DEF Returns
<1>2. s \in State
  BY <1>1 DEF Exception, GENERALEXCEPT, PGFAULTEXCEPT
<1>3. Framed(p, e, s)
  BY <1>1 DEF Framed, InProgram, InHandler, InPager
<1> QED
  BY <1>1, <1>2, <1>3, ProceedsFramed

LEMMA EndsFramed ==
  ASSUME FramesInv, Ends
  PROVE  Frames'
<1>1. Dies
  BY DEF Ends
<1> QED
  BY <1>1, OthersFramed DEF Dies, Frames

LEMMA HandlesFramed ==
  ASSUME FramesInv, currentProcess # NULL, NEW type \in 0..1, NEW x \in Exception,
         Handles(type, x)
  PROVE  LET p == currentProcess
             s == [level |-> IF type = GENERALEXCEPT THEN 1 ELSE 2, pc |-> 0]
             e == [exceptState[p] EXCEPT ![type] = x]
         IN  /\ exceptState' \in [Uprocs -> [0..1 -> Exception]]
             /\ p \in Uprocs /\ p \in Procs
             /\ e \in [0..1 -> Exception] /\ s \in State
             /\ States'[p] = s /\ exceptState'[p] = e
             /\ e[type] = x
             /\ \A t \in 0..1 : t # type => e[t] = exceptState[p][t]
             /\ Framed(p, e, s) => Frames'
<1> DEFINE p == currentProcess
           s == [level |-> IF type = GENERALEXCEPT THEN 1 ELSE 2, pc |-> 0]
           e == [exceptState[p] EXCEPT ![type] = x]
<1>1. /\ p \in Procs /\ p \in Uprocs /\ States \in [Procs -> State]
      /\ exceptState \in [Uprocs -> [0..1 -> Exception]]
  BY RunningState DEF FramesInv, Handles
<1>2. s \in State
  BY DEF State
<1> HIDE DEF s
<1>3. /\ States'[p] = s
      /\ \A q \in Procs \ {p} : States'[q] = States[q]
  BY <1>1 DEF Handles, s
<1>4. exceptState' = [exceptState EXCEPT ![p] = e]
  BY DEF Handles
<1>5. /\ e \in [0..1 -> Exception] /\ e[type] = x
      /\ \A t \in 0..1 : t # type => e[t] = exceptState[p][t]
  <2>1. exceptState[p] \in [0..1 -> Exception]
    BY <1>1
  <2> QED
    BY <2>1
<1> HIDE DEF e
<1>6. /\ exceptState' \in [Uprocs -> [0..1 -> Exception]]
      /\ exceptState'[p] = e
      /\ \A q \in Uprocs \ {p} : exceptState'[q] = exceptState[q]
  BY <1>1, <1>4, <1>5
<1>7. ASSUME Framed(p, e, s) PROVE Frames'
  <2>1. \A q \in Alive' \ {p} : Framed(q, exceptState'[q], States'[q])
    BY <1>3, <1>6, OthersFramed DEF Handles
  <2> QED
    BY <1>3, <1>6, <1>7, <2>1 DEF Frames
<1> QED
  BY <1>1, <1>2, <1>3, <1>5, <1>6, <1>7 DEF s, e

LEMMA PassesUpFramed ==
  ASSUME FramesInv, PassesUp
  PROVE  Frames' /\ exceptState' \in [Uprocs -> [0..1 -> Exception]]
<1> DEFINE p == currentProcess
<1>1. p # NULL /\ ~Ended /\ (Executes("ecall") \/ Executes("illegal"))
  BY DEF PassesUp, Executes
<1>2. /\ cpu.pc \in Nat /\ cpu.pc + 1 \in 1..Len(Code(p, Running))
      /\ Running = Activation(cpu, TopWhy(exceptState[p], cpu))
      /\ Running.level = cpu.level
      /\ Framed(p, exceptState[p], cpu) /\ cpu \in State /\ Instr \in Instruction
      /\ cpu.level \in 0..2 /\ p # NULL /\ ~Ended
  BY <1>1, RunningCode DEF FramesInv, Stored, Executes
<1>3. cpu.level = 0
  <2>1. ASSUME cpu.level > 0 PROVE FALSE
    <3>1. /\ Instr.op \in {"load", "ecall"}
          /\ Instr.op = "ecall" => Instr.a0 \in -10..-1
      BY <1>2, <2>1, HandlerRuns
    <3>2. Executes("ecall") /\ Instr.a0 \in -10..-1 /\ UserMode
      BY <3>1 DEF PassesUp, Executes
    <3> QED
      BY <2>1, <3>2 DEF UserMode
  <2> QED
    BY <1>2, <2>1
<1>4. InProgram(p, cpu) /\ InProgram(p, Next1) /\ Next1 \in State
  <2>1. Code(p, Running) = Program[p]
    <3>1. Running.level = 0 /\ 0 # 1 /\ 0 # 2
      BY <1>2, <1>3
    <3> QED
      BY <3>1, Zenon DEF Code
  <2>2. Next1 \in State /\ Next1.level = 0 /\ Next1.pc = cpu.pc + 1
    BY <1>2, <1>3 DEF Next1, State
  <2>3. InProgram(p, cpu)
    BY <1>2, <1>3 DEF Framed, InHandler, InPager
  <2> QED
    BY <1>2, <2>1, <2>2, <2>3 DEF InProgram
<1>5. PICK x \in Exception :
        /\ Handles(GENERALEXCEPT, x) /\ InProgram(p, x.at) /\ x.cause # "page"
  <2>1. CASE \E c \in {"ecall", "privileged"} :
               Handles(GENERALEXCEPT, [at |-> Next1, cause |-> c, a0 |-> Instr.a0])
    <3>1. PICK c \in {"ecall", "privileged"} :
            Handles(GENERALEXCEPT, [at |-> Next1, cause |-> c, a0 |-> Instr.a0])
      BY <2>1
    <3>2. [at |-> Next1, cause |-> c, a0 |-> Instr.a0] \in Exception
      BY <1>2, <1>4 DEF Exception, Instruction
    <3> QED
      BY <1>4, <3>1, <3>2
  <2>2. CASE Handles(GENERALEXCEPT, [at |-> cpu, cause |-> "trap", a0 |-> 0])
    <3>1. [at |-> cpu, cause |-> "trap", a0 |-> 0] \in Exception
      BY <1>2 DEF Exception
    <3> QED
      BY <1>4, <2>2, <3>1
  <2> QED
    BY <2>1, <2>2 DEF PassesUp
<1> DEFINE e == [exceptState[p] EXCEPT ![GENERALEXCEPT] = x]
           s == [level |-> 1, pc |-> 0]
<1>6. /\ p \in Uprocs /\ e[GENERALEXCEPT] = x
      /\ Framed(p, e, s) => Frames'
      /\ exceptState' \in [Uprocs -> [0..1 -> Exception]]
  <2>1. GENERALEXCEPT \in 0..1 /\ s = [level |-> IF GENERALEXCEPT = GENERALEXCEPT THEN 1 ELSE 2, pc |-> 0]
    BY DEF GENERALEXCEPT
  <2> QED
    BY <1>2, <1>5, <2>1, HandlesFramed
<1>7. s.level = 1 /\ s.pc = 0
  OBVIOUS
<1> HIDE DEF e, s
<1>8. Within(Why(x), 0)
  <2>1. Len(supportGeneralExHandler(Why(x))) \in Nat
    BY HandlerCode, LenProperties
  <2>2. ASSUME Why(x) = Illegal PROVE Len(supportGeneralExHandler(Why(x))) = 3
    <3>1. Why(x) \notin {Ecall(4), Ecall(5), Ecall(6)}
      BY <2>2 DEF Illegal, Ecall
    <3> QED
      BY <3>1, HandlerCode
  <2> QED
    BY <2>1, <2>2 DEF Within
<1>9. InHandler(p, e, s)
  BY <1>5, <1>6, <1>7, <1>8 DEF InHandler
<1> QED
  BY <1>6, <1>9 DEF Framed

LEMMA FaultsFramed ==
  ASSUME FramesInv, Faults
  PROVE  Frames' /\ exceptState' \in [Uprocs -> [0..1 -> Exception]]
<1> DEFINE p == currentProcess
           x == [at |-> cpu, cause |-> "page", a0 |-> 0]
           e == [exceptState[p] EXCEPT ![PGFAULTEXCEPT] = x]
           s == [level |-> 2, pc |-> 0]
<1>1. p # NULL /\ ~Ended /\ Instr.op = "load" /\ Handles(PGFAULTEXCEPT, x)
  BY DEF Faults, Executes
<1>2. /\ Framed(p, exceptState[p], cpu) /\ cpu \in State /\ cpu.level \in 0..2
  BY <1>1, RunningCode DEF FramesInv, Stored
<1>3. x \in Exception /\ x.cause = "page" /\ x.at = cpu
  BY <1>2 DEF Exception
<1>4. cpu.level # 2
  BY <1>1, <1>2, HandlerRuns
<1>5. s.level = 2 /\ s.pc = 0 /\ 2 # 1
  OBVIOUS
<1> HIDE DEF x
<1>6. /\ p \in Uprocs /\ e[PGFAULTEXCEPT] = x
      /\ e[GENERALEXCEPT] = exceptState[p][GENERALEXCEPT]
      /\ Framed(p, e, s) => Frames'
      /\ exceptState' \in [Uprocs -> [0..1 -> Exception]]
  <2>1. /\ PGFAULTEXCEPT \in 0..1 /\ GENERALEXCEPT \in 0..1
        /\ GENERALEXCEPT # PGFAULTEXCEPT
        /\ s = [level |-> IF PGFAULTEXCEPT = GENERALEXCEPT THEN 1 ELSE 2, pc |-> 0]
    BY DEF GENERALEXCEPT, PGFAULTEXCEPT
  <2> QED
    BY <1>1, <1>3, <2>1, HandlesFramed
<1> HIDE DEF e, s
<1>7. InPager(p, e, s)
  <2>1. InProgram(p, cpu) \/ InHandler(p, exceptState[p], cpu)
    BY <1>2, <1>4 DEF Framed, InPager
  <2>2. InProgram(p, cpu) \/ InHandler(p, e, cpu)
    BY <1>6, <2>1 DEF InHandler
  <2> QED
    BY <1>3, <1>5, <1>6, <2>2, PagerCode DEF InPager
<1> QED
  BY <1>6, <1>7 DEF Framed

LEMMA FramesInvInit == Init => IInv /\ TimeTypeOK /\ FramesInv
<1> SUFFICES ASSUME Init PROVE TimeTypeOK /\ FramesInv
  BY IInvInit
<1>1. TimeTypeOK
  BY ProcessorAssumption DEF Init, TimeTypeOK
<1>2. Placed
  BY IInvInit DEF IInv
<1>3. cpu \in State /\ cpu.level = 0 /\ cpu.pc = 0
  BY DEF Init, State
<1>4. Stored /\ exceptState \in [Uprocs -> [0..1 -> Exception]]
  <2>1. [at |-> cpu, cause |-> "none", a0 |-> 0] \in Exception
    BY <1>3 DEF Exception
  <2> QED
    BY <1>3, <2>1 DEF Init, Stored
<1>5. Frames
  <2> SUFFICES ASSUME NEW p \in Alive PROVE InProgram(p, States[p])
    BY DEF Frames, Framed
  <2>1. p \in Procs /\ States[p] = cpu
    BY <1>2, <1>4, RunningState DEF Init, States
  <2>2. Len(Program[p]) \in Nat
    BY <2>1, ProgramAssumption, LenProperties
  <2> QED
    BY <1>3, <2>1, <2>2 DEF InProgram
<1> QED
  BY <1>1, <1>2, <1>4, <1>5 DEF FramesInv

LEMMA FramesInvStep ==
  ASSUME IInv, FramesInv, [Next]_vars
  PROVE  FramesInv'
<1>1. Placed'
  BY IInvStep DEF IInv
<1>2. /\ Elsewhere \/ Advances \/ Ends \/ PassesUp \/ Faults \/ Returns
      /\ Stored'
  BY FramesEffect
<1>3. Frames' /\ exceptState' \in [Uprocs -> [0..1 -> Exception]]
  <2>1. CASE Elsewhere
    BY <2>1 DEF Elsewhere, FramesInv, Frames
  <2>2. CASE Advances
    BY <2>2, AdvancesFramed DEF FramesInv, Advances, Proceeds
  <2>3. CASE Ends
    BY <2>3, EndsFramed DEF FramesInv, Ends, Dies
  <2>4. CASE PassesUp
    BY <2>4, PassesUpFramed
  <2>5. CASE Faults
    BY <2>5, FaultsFramed
  <2>6. CASE Returns
    BY <2>6, ReturnsFramed DEF FramesInv, Returns, Proceeds
  <2> QED
    BY <1>2, <2>1, <2>2, <2>3, <2>4, <2>5, <2>6
<1> QED
  BY <1>1, <1>2, <1>3 DEF FramesInv

LEMMA ProcessorInvariant == Spec => [](IInv /\ TimeTypeOK /\ FramesInv)
<1>1. IInv /\ TimeTypeOK /\ FramesInv /\ [Next]_vars =>
        (IInv /\ TimeTypeOK /\ FramesInv)'
  BY IInvStep, TimeTypeStep, FramesInvStep
<1> QED
  BY <1>1, FramesInvInit, PTL DEF Spec

(* The types hold, and no process is in two places at once: on the          *)
(* processor, ready or blocked.                                             *)
THEOREM TypeCorrect == Spec => []TypeOK
<1>1. TimeTypeOK /\ FramesInv => TypeOK
  <2> SUFFICES ASSUME TimeTypeOK, FramesInv PROVE TypeOK
    OBVIOUS
  <2>1. p_time \in [Procs -> 0..MaxTime] /\ ran \in [Procs -> 0..MaxTime]
    BY ProcessorAssumption DEF TimeTypeOK
  <2> QED
    BY <2>1 DEF TypeOK, TimeTypeOK, FramesInv, Placed, Stored
<1> QED
  BY <1>1, ProcessorInvariant, PTL

-----------------------------------------------------------------------------
(* The refinement: each step is one of CallStacks, or leaves all stacks.    *)

LEMMA AbstractRunning ==
  ASSUME FramesInv, currentProcess # NULL
  PROVE  LET p == currentProcess
             e == exceptState[p]
         IN  /\ p \in Procs
             /\ Activations[p] = Stack(e, cpu) /\ Activations[p] # <<>>
             /\ Stacks!Top(p) = Activation(cpu, TopWhy(e, cpu))
             /\ Tail(Activations[p]) = Below(e, cpu)
             /\ Len(Activations[p]) = Len(Below(e, cpu)) + 1
             /\ Stacks!Ended(p) <=> Ended
             /\ Stacks!Instr(p) = Instr
             /\ Stacks!Privileged(p) <=> ~UserMode
             /\ Stacks!Advanced(p) = Stack(e, Next1)
<1> DEFINE p == currentProcess
           e == exceptState[p]
           a == Activation(cpu, TopWhy(e, cpu))
<1>1. /\ p \in Procs /\ Activations[p] = Stack(e, cpu) /\ Running = a
      /\ Running.level = cpu.level /\ Running.pc = cpu.pc
      /\ cpu \in State /\ cpu.level \in 0..2
      /\ cpu.level # 0 => e \in [0..1 -> Exception] /\ p \in Uprocs
  BY RunningCode DEF FramesInv, Stored
<1> HIDE DEF e, a
<1>2. /\ Activations[p] # <<>> /\ Head(Activations[p]) = a
      /\ Tail(Activations[p]) = Below(e, cpu)
      /\ Len(Activations[p]) = Len(Below(e, cpu)) + 1
  BY <1>1, StackTop DEF a
<1>3. Stacks!Top(p) = a
  BY <1>2 DEF Stacks!Top
<1>4. (Stacks!Ended(p) <=> Ended) /\ Stacks!Instr(p) = Instr
  BY <1>1, <1>3 DEF Stacks!Ended, Stacks!Instr, Ended, Instr
<1>5. Stacks!Privileged(p) <=> ~UserMode
  BY <1>1, <1>3, ProcessorAssumption DEF Stacks!Privileged, UserMode, Procs
<1>6. Stacks!Advanced(p) = Stack(e, Next1)
  <2>1. Stack(e, Next1) = <<[a EXCEPT !.pc = @ + 1]>> \o Below(e, cpu)
    BY <1>1, StackAdvances DEF Next1, a
  <2> QED
    BY <1>2, <1>3, <2>1 DEF Stacks!Advanced
<1> QED
  BY <1>1, <1>2, <1>3, <1>4, <1>5, <1>6 DEF e, a

LEMMA AbstractExecutes ==
  ASSUME FramesInv, currentProcess # NULL
  PROVE  /\ \A op : Stacks!Executes(currentProcess, op) <=> Executes(op)
         /\ \A S : Stacks!Calls(currentProcess, S)
                     <=> Executes("ecall") /\ Instr.a0 \in S
BY AbstractRunning DEF Stacks!Executes, Stacks!Calls, Executes

LEMMA ActivationsStep ==
  ASSUME FramesInv, currentProcess # NULL
  PROVE  LET p == currentProcess
         IN  /\ \A s \in State : Proceeds(s) =>
                  Activations' = [Activations EXCEPT ![p] = Stack(exceptState[p], s)]
             /\ Dies => Activations' = [Activations EXCEPT ![p] = <<>>]
             /\ \A type \in 0..1, x \in Exception : Handles(type, x) =>
                  Activations' = [Activations EXCEPT ![p] =
                    Stack([exceptState[p] EXCEPT ![type] = x],
                          [level |-> IF type = GENERALEXCEPT THEN 1 ELSE 2,
                           pc |-> 0])]
<1> DEFINE p == currentProcess
<1>1. p \in Procs /\ p \in Alive /\ Alive \subseteq Procs /\ States \in [Procs -> State]
  BY RunningState DEF FramesInv
<1>2. Activations' = [q \in Procs |-> IF q \in Alive' THEN Stack(exceptState'[q], States'[q])
                                                     ELSE <<>>]
  BY DEF Activations
<1>3. ASSUME NEW s \in State, Proceeds(s)
      PROVE  Activations' = [Activations EXCEPT ![p] = Stack(exceptState[p], s)]
  <2>1. /\ Alive' = Alive /\ exceptState' = exceptState
        /\ States'[p] = s /\ \A q \in Procs \ {p} : States'[q] = States[q]
    BY <1>1, <1>3 DEF Proceeds
  <2> QED
    BY <1>1, <1>2, <2>1 DEF Activations
<1>4. ASSUME Dies
      PROVE  Activations' = [Activations EXCEPT ![p] = <<>>]
  BY <1>1, <1>2, <1>4 DEF Dies, Activations
<1>5. ASSUME NEW type \in 0..1, NEW x \in Exception, Handles(type, x)
      PROVE  Activations' = [Activations EXCEPT ![p] =
               Stack([exceptState[p] EXCEPT ![type] = x],
                     [level |-> IF type = GENERALEXCEPT THEN 1 ELSE 2, pc |-> 0])]
  <2> DEFINE s == [level |-> IF type = GENERALEXCEPT THEN 1 ELSE 2, pc |-> 0]
             e == [exceptState[p] EXCEPT ![type] = x]
  <2>1. States'[p] = s /\ exceptState'[p] = e
    BY <1>1, <1>5, HandlesFramed
  <2>2. /\ Alive' = Alive
        /\ \A q \in Procs \ {p} : States'[q] = States[q]
        /\ exceptState' = [exceptState EXCEPT ![p] = e]
    BY <1>1, <1>5 DEF Handles
  <2> HIDE DEF s, e
  <2>3. ASSUME NEW q \in Alive \ {p}
        PROVE  Stack(exceptState'[q], States[q]) = Stack(exceptState[q], States[q])
    <3>1. CASE q \in Uprocs
      BY <2>2, <3>1 DEF FramesInv
    <3>2. CASE q \notin Uprocs
      BY <3>2 DEF FramesInv, Frames, Framed, InProgram, InHandler, InPager, Stack
    <3> QED
      BY <3>1, <3>2
  <2>4. /\ Activations'[p] = Stack(e, s)
        /\ \A q \in Procs \ {p} : Activations'[q] = Activations[q]
    BY <1>1, <1>2, <2>1, <2>2, <2>3 DEF Activations
  <2>5. Activations' = [Activations EXCEPT ![p] = Stack(e, s)]
    BY <1>2, <2>4 DEF Activations
  <2> QED
    BY <2>5 DEF s, e
<1> QED
  BY <1>3, <1>4, <1>5

(* A step of p that changes p's stack only is one of CallStacks.            *)
LEMMA StackStep ==
  ASSUME NEW p \in Procs, Activations[p] # <<>>, NEW new,
         Activations' = [Activations EXCEPT ![p] = new],
         \/ Stacks!Step(p) \/ Stacks!PageFault(p) \/ Stacks!PassUp(p)
         \/ Stacks!Return(p) \/ Stacks!End(p)
  PROVE  Stacks!Next \/ Activations' = Activations
<1>1. CASE Activations'[p] = Activations[p]
  BY <1>1 DEF Activations
<1>2. CASE Activations'[p] # Activations[p]
  BY <1>2 DEF Stacks!Next, Stacks!Procs, Procs
<1> QED
  BY <1>1, <1>2

LEMMA AdvancesStacks ==
  ASSUME FramesInv, Advances
  PROVE  Stacks!Next \/ Activations' = Activations
<1> DEFINE p == currentProcess
           new == Stack(exceptState[p], Next1)
<1>1. p # NULL /\ Proceeds(Next1) /\ Next1 \in State
  BY DEF Advances, Executes, FramesInv, Stored, State, Next1
<1>2. Activations' = [Activations EXCEPT ![p] = new] /\ Stacks!Advanced(p) = new
  BY <1>1, ActivationsStep, AbstractRunning
<1>3. \/ Stacks!Executes(p, "plain") \/ Stacks!Executes(p, "load")
      \/ Stacks!Privileged(p) /\ Stacks!Calls(p, Stacks!Nucleus \ {Stacks!TERMPROCESS})
  BY <1>1, AbstractRunning, AbstractExecutes
  DEF Advances, Stacks!Nucleus, Stacks!TERMPROCESS, TERMPROCESS
<1>4. Stacks!Step(p)
  BY <1>2, <1>3 DEF Stacks!Step
<1> HIDE DEF new
<1> QED
  BY <1>1, <1>2, <1>4, AbstractRunning, StackStep

LEMMA EndsStacks ==
  ASSUME FramesInv, Ends
  PROVE  Stacks!Next \/ Activations' = Activations
<1> DEFINE p == currentProcess
<1>1. p # NULL /\ Dies
  BY DEF Ends, Executes
<1>2. Activations' = [Activations EXCEPT ![p] = <<>>]
  BY <1>1, ActivationsStep
<1>3. p \notin Uprocs => p \in Kprocs
  BY <1>1, AbstractRunning DEF Procs
<1>4. \/ Stacks!Privileged(p) /\ Stacks!Calls(p, {Stacks!TERMPROCESS})
      \/ p \in Kprocs /\ Stacks!Executes(p, "illegal")
      \/ p \in Kprocs /\ Stacks!Executes(p, "ecall") /\ ~Stacks!Calls(p, Stacks!Nucleus)
  BY <1>1, <1>3, AbstractRunning, AbstractExecutes
  DEF Ends, Stacks!Nucleus, Stacks!TERMPROCESS, TERMPROCESS
<1>5. Stacks!End(p)
  BY <1>2, <1>4 DEF Stacks!End
<1> QED
  BY <1>1, <1>2, <1>5, AbstractRunning, StackStep

LEMMA ReturnsStacks ==
  ASSUME FramesInv, Returns
  PROVE  Stacks!Next \/ Activations' = Activations
<1> DEFINE p == currentProcess
           e == exceptState[p]
           s == e[IF cpu.level = 1 THEN GENERALEXCEPT ELSE PGFAULTEXCEPT].at
           new == Stack(e, s)
<1>1. /\ p # NULL /\ cpu.level > 0 /\ Ended /\ Proceeds(s)
      /\ Framed(p, e, cpu) /\ p \in Uprocs /\ e \in [0..1 -> Exception]
      /\ cpu \in State /\ cpu.level \in 0..2
  BY RunningCode DEF Returns, FramesInv, Stored
<1>2. s \in State
  BY <1>1 DEF Exception, GENERALEXCEPT, PGFAULTEXCEPT
<1>3. Activations' = [Activations EXCEPT ![p] = new]
  BY <1>1, <1>2, ActivationsStep
<1>4. Below(e, cpu) = new
  BY <1>1, StackBelow DEF Framed, InProgram, InHandler, InPager
<1>5. Len(Activations[p]) > 1
  <2>1. s.level # 0 => e \in [0..1 -> Exception]
    BY <1>1
  <2>2. Len(new) \in Nat /\ Len(new) >= 1
    BY <1>2, <2>1, StackTop
  <2>3. Len(Activations[p]) = Len(Below(e, cpu)) + 1
    BY <1>1, AbstractRunning
  <2> HIDE DEF new
  <2> QED
    BY <1>4, <2>2, <2>3
<1>6. TopWhy(e, cpu) # Illegal
  <2>1. CASE cpu.level = 1
    <3>1. Within(Why(e[GENERALEXCEPT]), cpu.pc)
      BY <1>1, <2>1 DEF Framed, InProgram, InHandler, InPager
    <3>2. cpu.pc = Len(supportGeneralExHandler(Why(e[GENERALEXCEPT])))
      <4>1. /\ Running.level = 1 /\ 1 # 0 /\ 1 # 2
            /\ Running.why = Why(e[GENERALEXCEPT])
        BY <1>1, <2>1, RunningCode DEF Activation, TopWhy
      <4>2. Code(p, Running) = supportGeneralExHandler(Why(e[GENERALEXCEPT]))
        BY <4>1, Zenon DEF Code
      <4> QED
        BY <1>1, <4>2 DEF Ended
    <3>3. Len(supportGeneralExHandler(Why(e[GENERALEXCEPT]))) \in Nat
      BY HandlerCode, LenProperties
    <3> QED
      BY <2>1, <3>1, <3>2, <3>3 DEF Within, TopWhy
  <2>2. CASE cpu.level = 2
    <3>1. e[PGFAULTEXCEPT].cause = "page" /\ e[PGFAULTEXCEPT] \in Exception
      BY <1>1, <2>2 DEF Framed, InProgram, InHandler, InPager, PGFAULTEXCEPT
    <3> QED
      BY <2>2, <3>1, WhyCases DEF TopWhy
  <2> QED
    BY <1>1, <2>1, <2>2
<1>7. Stacks!Top(p).why # Stacks!Illegal
  BY <1>1, <1>6, AbstractRunning DEF Activation, Illegal, Stacks!Illegal
<1> HIDE DEF new
<1>8. Stacks!Return(p)
  BY <1>1, <1>3, <1>4, <1>5, <1>7, AbstractRunning DEF Stacks!Return
<1> QED
  BY <1>1, <1>3, <1>8, AbstractRunning, StackStep

(* A handler is called: its activation is put on top of the stack with      *)
(* which it will return.                                                    *)
LEMMA HandlesStack ==
  ASSUME FramesInv, currentProcess # NULL, NEW type \in 0..1, NEW x \in Exception,
         Handles(type, x),
         x.at.level = 0 \/ (type = PGFAULTEXCEPT /\ x.at.level = 1)
  PROVE  Activations' =
           [Activations EXCEPT ![currentProcess] =
              <<[level |-> IF type = GENERALEXCEPT THEN 1 ELSE 2, pc |-> 0,
                 why |-> Why(x)]>>
                \o Stack(exceptState[currentProcess], x.at)]
<1> DEFINE p == currentProcess
           s == [level |-> IF type = GENERALEXCEPT THEN 1 ELSE 2, pc |-> 0]
           e == [exceptState[p] EXCEPT ![type] = x]
<1>1. Activations' = [Activations EXCEPT ![p] = Stack(e, s)]
  BY ActivationsStep
<1>2. /\ e \in [0..1 -> Exception] /\ s \in State /\ e[type] = x
      /\ \A t \in 0..1 : t # type => e[t] = exceptState[p][t]
  BY HandlesFramed
<1>3. /\ s.level = IF type = GENERALEXCEPT THEN 1 ELSE 2
      /\ Activation(s, Why(x))
           = [level |-> IF type = GENERALEXCEPT THEN 1 ELSE 2, pc |-> 0,
              why |-> Why(x)]
  BY DEF Activation
<1> HIDE DEF s, e
<1>4. TopWhy(e, s) = Why(x)
  BY <1>2, <1>3 DEF TopWhy, GENERALEXCEPT, PGFAULTEXCEPT
<1>5. Below(e, s) = Stack(e, x.at)
  BY <1>2, <1>3, StackBelow DEF GENERALEXCEPT, PGFAULTEXCEPT
<1>6. Stack(e, x.at) = Stack(exceptState[p], x.at)
  <2>1. CASE x.at.level = 0
    BY <2>1 DEF Stack
  <2>2. CASE type = PGFAULTEXCEPT /\ x.at.level = 1
    <3>1. e[GENERALEXCEPT] = exceptState[p][GENERALEXCEPT] /\ 1 # 0 /\ 1 # 2
      BY <1>2, <2>2 DEF GENERALEXCEPT, PGFAULTEXCEPT
    <3> QED
      BY <2>2, <3>1 DEF Stack
  <2> QED
    BY <2>1, <2>2
<1>7. Stack(e, s) = <<Activation(s, Why(x))>> \o Stack(exceptState[p], x.at)
  BY <1>2, <1>4, <1>5, <1>6, StackShape
<1> QED
  BY <1>1, <1>3, <1>7

LEMMA FaultsStacks ==
  ASSUME FramesInv, Faults
  PROVE  Stacks!Next \/ Activations' = Activations
<1> DEFINE p == currentProcess
           x == [at |-> cpu, cause |-> "page", a0 |-> 0]
           new == <<[level |-> 2, pc |-> 0, why |-> Load]>> \o Activations[p]
<1>1. /\ p # NULL /\ ~Ended /\ Instr.op = "load" /\ Executes("load")
      /\ Handles(PGFAULTEXCEPT, x)
  BY DEF Faults, Executes
<1>2. /\ cpu \in State /\ cpu.level \in 0..2 /\ Activations[p] = Stack(exceptState[p], cpu)
  BY <1>1, RunningCode DEF FramesInv, Stored
<1>3. x \in Exception /\ x.at = cpu /\ x.cause = "page"
  BY <1>2 DEF Exception
<1>4. Why(x) = Load
  BY <1>3, WhyCases
<1>5. cpu.level # 2
  BY <1>1, <1>2, HandlerRuns
<1>6. /\ PGFAULTEXCEPT \in 0..1
      /\ (IF PGFAULTEXCEPT = GENERALEXCEPT THEN 1 ELSE 2) = 2
  BY DEF GENERALEXCEPT, PGFAULTEXCEPT
<1> HIDE DEF x
<1>7. cpu.level = 0 \/ cpu.level = 1
  BY <1>2, <1>5
<1>8. Activations' = [Activations EXCEPT ![p] = new]
  BY <1>1, <1>2, <1>3, <1>4, <1>6, <1>7, HandlesStack
<1>9. p \in Uprocs /\ Stacks!Executes(p, "load")
  BY <1>1, AbstractExecutes DEF Handles
<1>10. Stacks!PageFault(p)
  BY <1>8, <1>9 DEF Stacks!PageFault, Stacks!Call, Stacks!Load, Load
<1> HIDE DEF new
<1> QED
  BY <1>1, <1>8, <1>10, AbstractRunning, StackStep

LEMMA PassesUpStacks ==
  ASSUME FramesInv, PassesUp
  PROVE  Stacks!Next \/ Activations' = Activations
<1> DEFINE p == currentProcess
           handler(why) == [level |-> 1, pc |-> 0, why |-> why]
<1>1. p # NULL /\ ~Ended
  BY DEF PassesUp, Executes
<1>2. /\ cpu \in State /\ cpu.level \in 0..2 /\ Instr \in Instruction
      /\ Activations[p] = Stack(exceptState[p], cpu)
      /\ Running.level = cpu.level
  BY <1>1, RunningCode DEF FramesInv, Stored
<1>3. cpu.level = 0
  <2>1. ASSUME cpu.level > 0 PROVE FALSE
    <3>1. /\ Instr.op \in {"load", "ecall"}
          /\ Instr.op = "ecall" => Instr.a0 \in -10..-1
      BY <1>1, <2>1, HandlerRuns
    <3>2. Executes("ecall") /\ Instr.a0 \in -10..-1 /\ UserMode
      BY <3>1 DEF PassesUp, Executes
    <3> QED
      BY <2>1, <3>2 DEF UserMode
  <2> QED
    BY <1>2, <2>1
<1>4. Next1 \in State /\ Next1.level = 0
  BY <1>2, <1>3 DEF Next1, State
<1>5. ASSUME NEW x \in Exception, Handles(GENERALEXCEPT, x), x.at.level = 0
      PROVE  /\ p \in Uprocs
             /\ Activations' = [Activations EXCEPT ![p] =
                  <<handler(Why(x))>> \o Stack(exceptState[p], x.at)]
  <2>1. /\ GENERALEXCEPT \in 0..1
        /\ (IF GENERALEXCEPT = GENERALEXCEPT THEN 1 ELSE 2) = 1
    BY DEF GENERALEXCEPT
  <2> QED
    BY <1>1, <1>5, <2>1, HandlesStack DEF Handles
<1>6. /\ p \in Procs /\ Activations[p] # <<>>
      /\ Stacks!Top(p).level = 0
      /\ Stacks!Instr(p) = Instr
      /\ Stacks!Advanced(p) = Stack(exceptState[p], Next1)
  BY <1>1, <1>3, AbstractRunning DEF Activation
<1>7. /\ \A op : Stacks!Executes(p, op) <=> Executes(op)
      /\ \A S : Stacks!Calls(p, S) <=> Executes("ecall") /\ Instr.a0 \in S
  BY <1>1, AbstractExecutes
<1>8. ASSUME NEW new, Activations' = [Activations EXCEPT ![p] = new],
             Stacks!PassUp(p)
      PROVE  Stacks!Next \/ Activations' = Activations
  BY <1>6, <1>8, StackStep
<1>9. CASE Executes("illegal")
           /\ Handles(GENERALEXCEPT, [at |-> cpu, cause |-> "trap", a0 |-> 0])
  <2> DEFINE x == [at |-> cpu, cause |-> "trap", a0 |-> 0]
             new == <<handler(Illegal)>> \o Activations[p]
  <2>1. x \in Exception /\ x.at = cpu /\ x.cause = "trap"
    BY <1>2 DEF Exception
  <2>2. Why(x) = Illegal
    BY <2>1, WhyCases
  <2>3. p \in Uprocs /\ Activations' = [Activations EXCEPT ![p] = new]
    <3> HIDE DEF x
    <3> QED
      BY <1>2, <1>3, <1>5, <1>9, <2>1, <2>2 DEF x
  <2>4. Stacks!PassUp(p)
    BY <1>6, <1>7, <1>9, <2>3
    DEF Stacks!PassUp, Stacks!Call, Stacks!Illegal, Illegal
  <2> HIDE DEF new
  <2> QED
    BY <1>8, <2>3, <2>4
<1>10. ASSUME Executes("ecall"), NEW c \in {"ecall", "privileged"},
              Handles(GENERALEXCEPT, [at |-> Next1, cause |-> c, a0 |-> Instr.a0]),
              Instr.a0 >= 1 => c = "ecall"
       PROVE  Stacks!Next \/ Activations' = Activations
  <2> DEFINE n == Instr.a0
             x == [at |-> Next1, cause |-> c, a0 |-> n]
             why == IF n \in Stacks!Support THEN Stacks!Instr(p) ELSE Illegal
             new == <<handler(why)>> \o Stacks!Advanced(p)
  <2>1. /\ x \in Exception /\ x.at = Next1 /\ x.cause = c /\ x.a0 = n
        /\ n \in Int /\ Instr = Ecall(n)
    BY <1>2, <1>4, <1>10 DEF Exception, Instruction, Executes, Ecall
  <2> HIDE DEF n, x
  <2>2. Why(x) = why
    BY <1>6, <1>10, <2>1, WhyCases DEF Stacks!Support, n
  <2>3. p \in Uprocs /\ Activations' = [Activations EXCEPT ![p] = new]
    BY <1>4, <1>5, <1>6, <1>10, <2>1, <2>2 DEF x, n
  <2>4. CASE n \in Stacks!Support
    BY <1>6, <1>7, <1>10, <2>3, <2>4, <1>8 DEF Stacks!PassUp, Stacks!Call, n
  <2>5. CASE n \notin Stacks!Support
    BY <1>6, <1>7, <1>10, <2>3, <2>5, <1>8
    DEF Stacks!PassUp, Stacks!Call, Stacks!Illegal, Illegal, n
  <2> QED
    BY <2>4, <2>5
<1>11. "privileged" \in {"ecall", "privileged"} /\ \A n \in -10..-1 : ~(n >= 1)
  OBVIOUS
<1> QED
  BY <1>9, <1>10, <1>11 DEF PassesUp

LEMMA StacksInit == Init => Stacks!Init
<1> SUFFICES ASSUME Init PROVE Stacks!Init
  OBVIOUS
<1>1. Placed /\ Stored
  BY FramesInvInit DEF FramesInv
<1>2. Alive = Procs /\ cpu = [level |-> 0, pc |-> 0]
  BY <1>1, ProcessorAssumption DEF Init, Alive, Placed
<1>3. ASSUME NEW p \in Procs
      PROVE  Activations[p] = <<[level |-> 0, pc |-> 0, why |-> Plain]>>
  <2>1. States[p] = cpu /\ cpu.level = 0 /\ cpu.pc = 0 /\ 0 # 2
    BY <1>2, <1>3 DEF States, Init
  <2>2. Stack(exceptState[p], cpu) = <<Activation(cpu, Plain)>>
    BY <2>1 DEF Stack
  <2> QED
    BY <1>2, <2>1, <2>2 DEF Activations, Activation
<1> QED
  BY <1>3 DEF Stacks!Init, Stacks!Procs, Procs, Stacks!Plain, Plain, Activations

(* Whatever the order of exceptions, switches, interrupts and returns, the  *)
(* registers the code keeps on the processor, in the PCBs and in            *)
(* sup_exceptState are those of the stack of activations each process has:  *)
(* a handler returns to what it was called from, and a process goes on      *)
(* where it was (exception.c:33, :404, interrupt.c:158, sysSupport.c:22).   *)
THEOREM StacksImplemented == Spec => StacksSpec
<1>1. FramesInv /\ [Next]_vars => [Stacks!Next]_Activations
  <2> SUFFICES ASSUME FramesInv, [Next]_vars
               PROVE  Stacks!Next \/ Activations' = Activations
    OBVIOUS
  <2>1. CASE Elsewhere
    BY <2>1 DEF Elsewhere, Activations
  <2> QED
    BY <2>1, FramesEffect, AdvancesStacks, EndsStacks, PassesUpStacks,
       FaultsStacks, ReturnsStacks
<1> QED
  BY <1>1, StacksInit, ProcessorInvariant, PTL DEF Spec, StacksSpec, Stacks!Spec
=============================================================================

# A verification of PandOS in TLA+

PandOS is a small operating system for the uRISC-V emulator, written in C in
three phases: the queues and the semaphore list (`phase1/`), the nucleus with
its scheduler, system calls and interrupt handler (`phase2/`), and the support
level with demand paging, terminal I/O and a shell (`phase3/`). This directory
holds TLA+ modules translated from that code, the TLC runs that check them on
small instances, and proofs that the TLA+ proof system checks for every
instance.

All source paths below are relative to the repository.

## 1. The system

| component | code | state | operations |
| --- | --- | --- | --- |
| process queues | `phase1/pcb.c:56-141` | a list of PCBs by decreasing `p_prio`, equals in order of arrival | `insertProcQ`, `headProcQ`, `removeProcQ`, `outProcQ` |
| PCB table, process tree | `phase1/pcb.c:8-56,143-179` | `pcbFree_h`, `p_parent`, `p_child`, `p_sib`, `p_pid` | `allocPcb`, `freePcb`, `insertChild`, `removeChild`, `outChild` |
| semaphore list (ASL) | `phase1/asl.c` | `semd_h`, `semdFree_h`; a descriptor is a key and a process queue | `insertBlocked`, `removeBlocked`, `outBlocked`, `headBlocked`, `blockedCount` |
| scheduler | `phase2/scheduler.c` | `readyQueue`, `currentProcess`, `processCount`, `softBlockCount` | dispatch, HALT, WAIT, PANIC |
| system calls | `phase2/exception.c`, `phase2/functions.c` | the same, and the semaphores | SYS1 to SYS10, `recursiveTerminateProcess`, `passUpOrDie` |
| interrupt handler | `phase2/interrupt.c` | the same, and `deviceSemaphores` | end of time slice, pseudo-clock tick, plain devices, terminals |
| exception dispatch | `phase2/exception.c:53-235` | the saved state, cause, mode | `exceptionHandler`, `systemCallHandler`, TLB refill |
| device address map | `phase2/exception.c:463-494`, `phase2/interrupt.c:53-86` | none | register address to semaphore index and back |
| CPU time | `phase2/functions.c:307`, `phase2/interrupt.c:157-166`, `phase2/scheduler.c:17` | `p_time`, `start_time_current_quantum` | charge the interval since the last start |
| virtual memory | `phase3/vmSupport.c`, `phase2/exception.c:53-96` | swap pool, page tables, TLB, flash | `pager`, `updateTLBEntry`, `flashIO`, `uTLB_RefillHandler` |
| support level | `phase3/sysSupport.c`, `phase3/initProc.c` | `masterSemaphore`, `shellSemaphore`, `termMutexTX`, `termMutexRX`, `flashMutex` | TERMINATE, WRITETERMINAL, READTERMINAL, EXECUTE, `test` |
| kernel log | `klog.c` | a ring of lines | print |

**How they interact.** There is one processor. Handlers of the nucleus run with
interrupts off, from the exception that starts them to the `LDST`, `WAIT`,
`HALT` or `PANIC` that ends them, so each is atomic; processes interleave
between handlers. The support level is different: `pager` and the handlers of
`sysSupport.c` run with interrupts on, as part of the process that trapped, and
interleave at every instruction; they exclude each other by semaphores of the
nucleus. The hardware acts on its own: devices finish commands, timers fire.

**What is hard.** The termination of a subtree takes processes out of the
middle of anything they are in. Two counters (`processCount`,
`softBlockCount`), updated in many handlers, decide whether the machine halts,
waits or panics. A device command outlives the process that issued it. One
terminal has two sides and one interrupt. Semaphore descriptors are a bounded
resource whose exhaustion is ignored. In the support level, several U-procs
page against each other, fault in the middle of a system call, and reuse
address-space identifiers. `PROJECT.json` lists each hazard at its line
("hazards"), with the properties that watch it.

**What makes each component correct.**
 - *Queues*: priority order; nobody overtakes; an operation neither loses nor
   doubles a PCB.
 - *PCB table and tree*: every live process hangs on the root; a free PCB
   hangs nowhere.
 - *ASL*: a process blocked on a semaphore is in its queue; a semaphore with
   waiters has a descriptor.
 - *Scheduler and counters*: the counts are exact, so that HALT, WAIT and PANIC
   are the truth; a ready process of the top priority runs.
 - *Semaphores*: a negative value counts the waiters; a waiter for a device is
   woken.
 - *Virtual memory*: a U-proc reads what it wrote last; a frame has one owner.
 - *Exceptions*: a process goes on with the registers it had, however deep the
   handlers it was in, and whoever ran meanwhile; its time is charged once.
 - *Support level*: mutexes are released; the shell waits for its child, and
   gets on after it; the machine halts when the shell has ended.

## 2. The modules

    ProcessQueues ......... the queues, as operators on sequences
      ProcessQueueProofs .. what they return; the closed forms are the loops
      ProcessLists ........ what phase 1 promises: sequences
        LinkedLists ....... phase 1 in memory; implements ProcessLists
          MCLists, ListProofs
      Nucleus ............. scheduler, system calls, interrupts; properties
        MCNucleus ......... the instance for TLC
        NucleusClaims ..... what comments say and the code does not do
        NucleusProofs ..... types, places, tree, queue discipline
          CountProofs ..... the counters, HALT/WAIT/PANIC, device waiters
    DeviceMap ............. addresses, semaphores, interrupts of devices
      DeviceMapProofs
    CallStacks ............ exceptions as the processes see them
      Processor ........... dispatch, saved states, CPU time; implements CallStacks
        MCProcessor, ProcessorProofs
    VirtualMemory ......... what the pager promises
      Pager ............... demand paging; implements VirtualMemory
        MCPager, PagerProofs
    Support ............... the support level and the shell over the nucleus
      SupportProofs

The modules divide the system by the unit of atomicity. `LinkedLists` looks
inside the queue operations, `Nucleus` at whole handlers with interrupts off,
`Processor` at instructions and exceptions, `Support` at the code of a U-proc's
handler between two calls of the nucleus, `Pager` at its accesses to shared
state. What a module takes from the one below it is stated where it is used:
`Nucleus` works on the sequences that `LinkedLists` is shown to implement;
`Support` has `P`, `V`, `DoIO` and `TermProcess` with the effects `Nucleus`
specifies for processes of one priority; the mutexes of `Pager` are the same
semaphores, again with one priority, as queues of U-procs.

### ProcessQueues

A queue is the sequence of the PCBs on a list head. `InsertProcQ` is
`insertProcQ` (`pcb.c:67`), `OutProcQ` is `outProcQ` (`pcb.c:122`). Two loops
of the kernel apply a queue operation to several PCBs: the pseudo-clock tick
inserts every waiter in the ready queue (`interrupt.c:214`), and a termination
takes every process of the subtree out (`functions.c:266`). They are
`InsertEach` and `OutEach`. The handlers of `Nucleus` use `InsertAllProcQ` and
`OutAllProcQ`, the same in closed form (arrange the positions by a strict total
order): what is invariant is stated of elements and places, not of rounds. That
the two agree in every state is the invariant `ClosedFormsAreLoops` of
`Nucleus`, checked in a run and proved.

### Nucleus

State and code:

| variable | code |
| --- | --- |
| `pcbFree` | `pcbFree_h`; a set, for which free PCB is taken changes nothing |
| `parent` | `p_parent`; the child and sibling lists carry the same relation, their order is left out |
| `prio`, `semAdd` | `p_prio`, `p_semAdd` |
| `readyQueue`, `currentProcess`, `processCount`, `softBlockCount` | the globals of `initial.c:15-19` |
| `sem` | the value of each element of `deviceSemaphores` that is modelled, and of the semaphores of the processes |
| `blocked`, `active` | the ASL: the queue of a semaphore's descriptor, and which semaphores have one. A descriptor with an empty queue is possible (`outBlocked` leaves one), so `active` is a variable of its own |
| `device` | the status register of a device: `ready`, `busy`, `done`; and, for what is said about results, the process whose command it shows |
| `mode` | how the last handler ended |

There is one action per handler, from its entry to the dispatch that ends it:

| action | code |
| --- | --- |
| `CreateProcess` | `createProcess`, when a PCB is left |
| `TerminateProcess`, `Die` | `terminateProcess`, `passUpOrDie` without a support structure; both `Terminate` a subtree |
| `Passeren`, `Verhogen` | `passeren`, `verhogen` |
| `DoIO`, `WaitForClock` | `doIO`, `waitForClock`, through `BlockCurrentProcess` |
| `Yield` | `yield` |
| `TimerInterrupt`, `ClockTick` | the PLT and the interval timer branch of `interruptHandler` |
| `DeviceInterrupt`, `TerminalInterrupt` | lines 3 to 6, and line 7 with both its sides |
| `DeviceFinishes` | the hardware (external) |
| `Stopped` | a machine that halted or panicked stays so |

`Schedule` is `scheduler()`, called at the end of every handler that gives the
processor up; its case distinction is `StopMode`. `Terminate` is
`recursiveTerminateProcess` over the set of the processes of the subtree: what
the recursion does to one process does not depend on the others, except through
the sums it adds to `sem`, `softBlockCount` and `processCount`.

What a process does between two handlers is any system call at any time. Two
restrictions name what the code under `phase2/` assumes of its callers:
`DoIO` is called by one process at a time for one device (its clients hold
`flashMutex` or a terminal mutex, `vmSupport.c:186`, `sysSupport.c:131`), and P
and V are applied to semaphores that are not in `deviceSemaphores`. A command
for a busy device is lost, as the emulator's controllers do.

Left out: `p_pid` (never reused, so that a PCB stands for a process), the saved
states and results in registers except whose command a result answers, the
sibling order, and the calls that change nothing kept here (SYS6, SYS8,
SYS9; they are in `Processor`).

### NucleusClaims

Three statements made by comments that the handlers do not ensure; each is
refuted by one run and recorded as a finding in `PROJECT.json`.

### ProcessLists and LinkedLists

`LinkedLists` has the list heads as they are in memory. A node is a
`struct list_head`: `<<"p_list", p>>` is the field `p_list` of PCB `p`.
`links` is the contents of all nodes, and `INIT_LIST_HEAD`, `list_add`,
`list_del` and the functions of `pcb.c` and `asl.c` are functions on it.
`Chain` is the loop `list_for_each`. The actions are what the handlers of the
nucleus do with the lists: `CreateProcess` (allocPcb, insertChild,
insertProcQ), `Dequeue`, `Enqueue`, `InsertBlocked`, `RemoveBlocked`,
`RemoveChild`, `Retire` (outBlocked, outProcQ, outChild, freePcb).

`ProcessLists` says the same of sequences, with the queue operations of
`ProcessQueues`. `ListsSpec` maps the rings to the sequences and says that
every step of `LinkedLists` is one of `ProcessLists`: in particular, that a
descriptor is searched, allocated and freed as the map from semaphores to
queues in `Nucleus` has it. The order of the ASL is not part of the promise: the code
keeps none (`asl.c:69` inserts before `insert_pos->prev`, one node too early;
`asl.c:31` asks for an ordered list), and no search relies on it.

The handlers insert only PCBs that are in no queue (`Held`); that the nucleus
keeps to this is `ProcessesPlaced`.

### DeviceMap

`semIndex` is the arithmetic of `doIO` (`exception.c:475-494`), `Released` that
of `interruptHandler` with its macros. A process makes one `DOIO` with any
address of a word around the device registers, and any devices interrupt.

### CallStacks and Processor

`CallStacks` is what processes rely on: each has a stack of activations (its
code, a handler of the support level, the pager), an exception pushes one, a
return pops it, and what others do is invisible. `Processor` has one set of
registers, the states saved in PCBs and in `sup_exceptState`, and moves them as
the handlers do:

| variable | code |
| --- | --- |
| `currentProcess`, `ready` | the globals; the scheduler may pick any ready process, a choice wider than that of `Nucleus` |
| `blocked` | the processes on some semaphore; any P may block, any V or interrupt wakes any |
| `cpu` | the registers of the processor: which code it is in (0 the process's own, 1 `supportGeneralExHandler`, 2 `pager`), and where |
| `p_s` | the state saved in each PCB |
| `exceptState` | `sup_exceptState[PGFAULTEXCEPT]` and `[GENERALEXCEPT]`, with the cause and the number of the call |
| `now`, `start`, `p_time` | the TOD clock, `start_time_current_quantum`, `p_time` |
| `ran` | history: how long a process has had the processor |

The code that runs is a sequence of instructions, of which only those that
raise exceptions matter. That of the handlers (`sys4_writeTerminal`, ...,
`pager`) is the sequence of their system calls and accesses to the U-proc's
memory, in the order of the source, for a string of one character and a page
that evicts none; that of processes is the constant `Program`. `SystemCall`, `PageFault`
and `Trap` are `exceptionHandler` with `systemCallHandler` and `passUpOrDie`;
`TimerInterrupt` and `WakingInterrupt` are `interruptHandler`.

Two assumptions: handlers of the nucleus take no time (the clock stands still
while one runs), and `BADVADDR` is in KUSEG exactly at a page fault
(`exception.c:149` tells page faults by it; what the hardware leaves there at
other exceptions, the source does not say). Creations and terminations of
others, both in `Nucleus`, are left out.

### VirtualMemory and Pager

`VirtualMemory` is an array of pages that only stores change; the pages of an
address space may also be lost, all of them. `Pager` implements it, and says
when they are lost (`damaged`):
 - the flash failed while a frame of the address space was being replaced
   (`vmSupport.c:317,332`: the U-proc that faulted is ended, but the owner of
   the frame is the one whose page is gone or half replaced);
 - its ASID is used a second time (`sys6_execute` leaves the frames and the TLB
   entries of the U-proc that had it);
 - the shell ended, and with it all.

| variable | code |
| --- | --- |
| `pc`, `fault`, `frame` | where each U-proc is in `pager`, and its locals `pageIndex`, `frameIndex` |
| `swapPool`, `swapFrameClock` | the globals of `vmSupport.c:61-68`; an entry is the page, which gives `sw_asid`, `sw_pageNo` and `sw_pte` |
| `swapPoolSem`, `flashMutex` | a semaphore used as a mutex: the sequence of its holder and its waiters |
| `pageTable` | `sup_privatePgTbl`: the frame, or `NULL` while V is 0 |
| `tlb` | the processor's TLB: a copy of an entry, or `ABSENT` |
| `flash`, `ram` | the blocks of the flash devices, the frames |

`PageFault` is `pager` up to the P of `swapPoolSem`; then come `SelectFrame`
(the clock, and the invalidation of the victim's entry), `FlushVictim`,
`AcquireFlash`, `FlashWrite`, `ReleaseFlash`, the same with `FlashRead`,
`MapPage`, `SyncPage`, `Leave`; `Abort` and `FatalFault` are the error exits.
Two accesses are one action only if the second is to state nobody else looks at
meanwhile: the swap pool, and the page table entry of a U-proc that is itself
in `pager`. Between the invalidation of an entry and the update of the TLB the
owner of the page runs and writes through the stale TLB entry: the model has
this window (`vmSupport.c:308-313`).

Any U-procs fault at once here, which is more than the shell makes of it (see
`ProgramsRunAlone`). U-procs touch the pages of `Mapped` only; an access behind
the page table (`vmSupport.c:288` does not check the index) is left out.
`EXC_MOD` is left out because the bit D is always set. An ASID starts again
only after its U-proc has ended; in the code it can be a step earlier, between
the V and the TERMPROCESS of `sys2_terminate` or `fatalFault`, where the U-proc
touches no memory any more.

### Support

One action is the code of a handler between two calls of the nucleus:

| action | code |
| --- | --- |
| `LaunchUproc`, `WaitForShell`, `TermProcess(test)` | `test` |
| `Call` | a U-proc's ECALL up to the handler of the service, its arguments checked |
| `WriteTerminal`, `ReadTerminal` | `sys4_writeTerminal`, `sys5_readTerminal`: P, a `DoIO` per character, V |
| `CreateProgram`, `Execute` | `sys6_execute`: CREATEPROCESS, P of `shellSemaphore` |
| `Signal`, `TermProcess` | V of the parent's semaphore, then TERMPROCESS, in `sys2_terminate`, `programTrapHandler`, `fatalFault` |
| `Fault` | an access to the U-proc's memory, in its code or in a handler, that ends it |
| `TimeSliceEnds`, `TerminalDone` | the timer, the terminal |

The shell runs `shell.c` (`ShellCalls`, `AfterPrint`, `AfterRead`), and a
program any calls in any order. Page faults that are served are not visible
here (`Pager`); that a fault can be the end of a U-proc in the middle of a call
is. Since all processes have priority 0, `ready` is a round robin; `ran` says
that a time slice (5 ms) is longer than the code between two calls, which is
why a program that has done its V is gone before the shell, behind it in the
ready queue, can create another one.

### Mutants

Next to some definitions stands a `Mutant of ...`: the same operator with a
plausible bug. No specification uses them. `PROJECT.json` ("mutants") names for
every property of a passing run the definition to replace and its mutant; TLC
then finds the property violated, which shows that the run's instance is large
enough for the property to matter.

## 3. The runs

| run | instance | result |
| --- | --- | --- |
| `nucleus` (`MCNucleus.cfg`) | 3 PCBs, priorities 0 and 1, one user semaphore, both sides of a terminal, the pseudo-clock; the two PCBs besides the root are symmetric | 1.1 million states; ten properties hold |
| `nucleus_live` (`MCNucleusLive.cfg`) | 3 PCBs, two priorities, one user semaphore, one plain device, the pseudo-clock; fairness | 39 thousand states; the three liveness properties and the comparison with the loops hold |
| `lists` (`MCLists.cfg`) | 3 PCBs of two priorities, 2 descriptors, 3 semaphores | 18 thousand states; three properties hold |
| `processor` (`MCProcessor.cfg`) | two U-procs and a process of the nucleus, with programs of three instructions | 0.7 million states; three properties hold |
| `pager` (`MCPager.cfg`) | two address spaces, three pages, two frames, two values; flash failures, reuse of ASIDs; fairness | 1.3 million states; five properties hold |
| `support` (`MCSupport.cfg`) | `test`, the shell, three PCBs for programs, strings of at most two characters; fairness | 22 thousand states; five properties hold |
| `exhausted` (`MCExhausted.cfg`) | 2 PCBs, 2 descriptors, 3 semaphores | `NegativeCountsBlocked` violated |
| `terminal_sides` (`MCTerminal.cfg`) | 2 PCBs, one terminal | `TransmitterWokenWhenFinished` violated |
| `own_result` (`MCOwnResult.cfg`) | 3 PCBs, one plain device | `OwnResult` violated |
| `device_bound` (`MCDeviceBound.cfg`) | the words around the device registers | `OnlyDeviceRegisters` violated |
| `asid_reuse` (`MCReuse.cfg`) | that of `pager` | `InvalidPagesFault` violated |
| `next_command` (`MCNextCommand.cfg`) | one PCB for programs, strings of one character; fairness | `NextCommand` violated |

**Bounds.** Three PCBs give a tree of depth three and a tree of two siblings, a
terminated process at the head and behind the head of a queue, and a process
that runs while two wait. Two waiters of a
tick beside a process that is ready need a fourth: the comparison of the queue
operations with the loops meets that case only in the theorems `LoopsClosed`
and `InsertEachIs`. Two priorities give both branches of `insertProcQ`.
`SemMax` bounds V from above (processes may V for ever) and `DriftMax` the
drift of a device semaphore below its waiters, which repeated terminations
would take to any depth; the properties about device semaphores are
inequalities that do not depend on how deep it is. `MAXPROC` is 20 as in
`const.h`, except in `exhausted`, where the two descriptors are the point.

In `lists` the table of descriptors is smaller than the set of semaphores, so
that it runs out, and both ends of the ASL and its middle are searched. In
`processor`, `MaxTime` stops the clock; the programs hold every kind of
exception in user mode and in the nucleus, and the handlers fault in the
middle. CLOCKWAIT, which the instance does not call, is the same disjunct of
`Serve` as the waits of PASSEREN and DOIO. In `pager` every page can be in either frame, be evicted by the other
address space and by its own, and be faulted on while it is being evicted; the
frames start with equal contents, which nobody reads before they are filled.
In `support` a third program can be created while one that has done its V has
not ended yet; `MaxLen` is the number of characters, of which the loops need
none, one and several.

**Properties** (each is stated before its definition).

Of the nucleus (`Nucleus.tla`):
`ProcessesPlaced` says every live process is in exactly one of the places its
PCB names; `NoOrphans` that the tree holds them all; `CountsExact` that the two
counters count; `UserSemaphoresExact` and `DeviceSemaphoresLow` tie the values
to the waiters; `WaitersAwaited` that a waiter for a device has an operation or
an interrupt coming; `QueuesOrdered` and `NoOvertaking` are the queue
discipline, the second as a property of every step; `HonestStop` says that
HALT, PANIC and WAIT mean what `README.md:65-67` says.

Of the lists: `DoublyLinked`, that all lists are rings in both directions,
however PCBs and descriptors travel; `DescriptorsFound`, that a search by key
finds the queue a PCB is in; `ListsSpec`, the implementation of `ProcessLists`.

Of the processor: `StacksSpec`, the implementation of `CallStacks` (a fault in
the middle of a handler, with other processes running before it returns, leads
back to the instruction that faulted, and the handler back to its caller);
`CpuTimeExact`, that intervals are charged once and to the right process, and
the time in WAIT to nobody.

Of the pager: `FramesApart`, that no two pages are accessible in one frame;
`HitsAreCurrent`, that a TLB hit finds the page, in the window named above too;
`MemorySpec`, the implementation of `VirtualMemory`; `FaultsEnd`.

Of the support level: `ProgramsRunAlone`, that no support structure is
initialised under a U-proc that uses it; `CreateSucceeds`, that the result
`sys6_execute` ignores is never a failure (every earlier program has given its
PCB back when the shell creates the next); `ShellResumes` and `HaltsAfterShell`.

**Fairness.** `FairSpec` of `Nucleus` assumes that timers fire, that operations
end and that
a pending interrupt is taken while interrupts are on. The first two are the
hardware; the third holds because processes run with interrupts enabled
(`initial.c:66`, `interrupt.c:186`, `vmSupport.c:136`) and the kernel waits with
them enabled (`scheduler.c:24-27`). Nothing is assumed of processes: none needs
ever to make a call. Under it `WaitEnds` (the kernel does not sleep for ever),
`SoftBlockedWake` (a device or clock waiter gets out) and `ReadyRuns` (a ready
process runs unless one of higher priority is alive, since the scheduler does
not age) hold.

`FairSpec` of `Pager` assumes that a U-proc inside `pager` gets on unless it
has to wait for a mutex: all have priority 0, for which `ReadyRuns` is the
fairness of the scheduler, and a flash device ends its commands, with success
or not. `FairSpec` of `Support` assumes the same of the handlers and of the
shell, whose program has no endless computation, that the timer fires, and that
the terminal sends what it is given. Nobody has to type, and a program need not
make any call. `MCProcessor.cfg` does not check for deadlock: a machine in
which all processes wait for each other, or have ended, stops.

**What the violations show.**
 - `exhausted`: `outBlocked` keeps the descriptor of a queue it empties
   (`asl.c:123`) and `blockCurrentProcess` ignores that `insertBlocked` found
   none (`functions.c:144`): the process is blocked in no queue, no V wakes it.
 - `terminal_sides`: the terminal branch tests the status byte against 0
   (`interrupt.c:282,316`), but an idle terminal shows 1 and a busy one 3; so
   every interrupt serves both sides, and a received character wakes the writer
   in the middle of a transmission, with a status that is not a result.
 - `own_result`: a terminated process's command completes into the next
   process's `doIO`.
 - `device_bound`: `doIO` compares with `> 0x100002D4`, which is the first
   address behind the registers; the command goes there, and the process waits
   on the semaphore of the transmitter of terminal 0. A theorem
   (`OwnDevice`) says that every address below it is mapped to its own device.
 - `asid_reuse`: a command typed a second time starts a program on the same
   ASID; TLB entries of the first program are still valid, so the new one reads
   the old one's frames. Its pages in the swap pool are also still owned by the
   ASID, so an old frame may be written over the flash block or invalidate the
   entry of the new page.
 - `next_command`: a program whose string is in a page the flash fails to read
   ends inside `sys4_writeTerminal` with `termMutexTX` taken. The shell is
   woken, prints its prompt and waits for the mutex for ever. (`ShellResumes`
   is the part that holds.)

Read in the code, without a run:
 - `sys6_execute` says the shell finds 0 in `a0`
   (`sysSupport.c:302`), but the saved state still has the number of the call
   there; `shell.c` does not look at it.
 - The flash fails while the pager replaces the page of another U-proc
   (`vmSupport.c:317,332`). The U-proc that faulted is ended; the owner of the
   page is alive and gets it in another frame at its next fault, but `swapPool`
   still ascribes the first frame to it, where `vmSupport.c:50` has "ASID del
   U-proc che occupa il frame". When the clock comes back to that frame, the
   pager invalidates the entry of the page in the other frame and writes the
   stale contents over its flash block: what the U-proc has stored since is
   gone, without an error. `Pager` has these behaviours. They are why a failure
   adds the owner of the frame to `damaged`, the address spaces that `MemorySpec`
   and `HitsAreCurrent` promise nothing of; `FramesApart` and `FaultsEnd` hold
   for them too, and `MemorySpec` says that no other address space is touched.

## 4. The proofs

The theorems hold for every value of the constants that the assumptions of the
module allow: those of `Nucleus` for every finite set of PCBs, every set of
priorities, every choice of devices and every finite set of user semaphores,
those of `Pager` for any address spaces, pages, frames and values, those of
`Processor` for any processes and programs, those of `LinkedLists` for tables of
any size and those of `Support` for any programs and number of PCBs.

**The nucleus.**

`ProcessQueueProofs`: an arrangement by a strict total order lists a finite set
once each (`ArrangeLists`, by counting predecessors); hence what the queue
operations list, and that they repeat nobody (`InsertProcQLists`,
`InsertAllProcQLists`, `OutAllProcQLists`, `TailLists`); a queue without
repetitions is as long as its set (`LengthCounts`). The operations keep a queue
in order and keep the turns of those who stay (`InsertProcQOrders`,
`InsertAllProcQOrders`, `OutAllProcQOrders`, `TailOrders`). `InsertEachIs` and
`OutEachIs` say that the closed forms are the loops, for queues of any length:
the closed form after n + 1 rounds is one more round after the closed form of n
(`InsertOneMore`, `OutTwice`), because a set has one arrangement in a strict
order (`OneArrangement`: look at the first place where two differ). The first
needs the queue to be in order, the second that nobody is in it twice.

`NucleusProofs`: `TypeCorrect`, that `TypeOK` always holds. `TypeOK` is not
inductive: a handler dereferences the current process, so the strengthening
adds that the processor has one exactly in mode `run` (`ModeOK`). The proof has
one step per action over lemmas for what they share (the scheduler, a block, a
wake-up, a termination).

The other theorems assume `DescriptorsSuffice`: there are no more semaphores
than descriptors. Without it a process can be lost: run `exhausted` shows one
that `blockCurrentProcess` counts and puts in no queue, where no V finds it. (The nucleus has 49
device semaphores and 20 descriptors; the assumption says that the processes at
hand use at most 20 different ones. A session of phase 3 that touches all eight
flash devices uses about 23, the mutexes of the support level among them, and
is outside it.)

`PlacedCorrect`, that `ProcessesPlaced` always holds. The invariant `Placed` is `TypeInv` with the parts of `ProcessesPlaced` that the
scheduler sets (`CpuPlaced`: the ready queue lists, once each, the live
processes that are not blocked and not running) and the others (`FreePlaced`,
`QueuesPlaced`: the queue of a semaphore lists its waiters). The argument
follows the sets: a block moves the current process from the unblocked
processes to the waiters of one semaphore, a wake-up moves first waiters back,
a termination takes a set out of all of them; the lemmas of
`ProcessQueueProofs` say that the queues list what these sets hold.
`RootedCorrect`, that `NoOrphans` always holds: a set closed under children
stays closed when a subtree is joined to it, so what the root reached before a
termination and was not taken, it still reaches.

`QueuesInOrder` and `NobodyOvertaken`, the queue discipline, have the invariant
`Disciplined`, which is `Placed` with `QueuesOrdered`: `insertProcQ` stops at
the first lower priority, which is the right place only in an ordered queue,
and the order of a queue stays an order only because no handler changes the
priority of a process in it (`CreateProcess` sets that of a free PCB, which
`Placed` says is in no queue). Each handler composes steps of which each keeps
the turns (`Keeps`), and so do several (`KeepsTwice`). `LoopsClosed`, that
`ClosedFormsAreLoops` always holds, follows from `Disciplined` with
`InsertEachIs` and `OutEachIs`.

`CountProofs`: `CountsCorrect`, `UserSemaphoresCorrect` and
`DeviceSemaphoresCorrect` share the invariant `Counted` (`Placed` and the three
properties, none of which is inductive without `Placed`: what a termination
adds to a semaphore is the number of processes it found in the queue, and that
this is the number of waiters is what `QueuesPlaced` says). From it,
`HonestCorrect`: when the scheduler finds no ready process, the counters it
looks at tell whether somebody lives and whether somebody waits for the
hardware. And `AwaitedCorrect`, with the strengthening that a device has at
most one waiter (`OneWaiter`, which the guard of `DoIO` assumes of the
clients): a device is acknowledged only with its waiter woken, because its
semaphore is below zero as long as somebody waits.

**The pager** (`PagerProofs`). `TypeCorrect`, `Apart`, `Current` and
`Implements` share one invariant, `IInv`, of two parts. `Control` holds of all
address spaces: the one U-proc past the P is the first in `swapPoolSem`
(`OneHolder`) and so has the swap pool to itself; a frame that is mapped
anywhere, in a page table or in the TLB, belongs in the swap pool to the page
that maps it (`Owners`); and nothing maps the frame that is being replaced once
the TLB is updated (`FrameOut`). `FramesApart` follows from `Owners` at once,
but `Owners` needs the others: a frame changes its owner in `MapPage`, many
steps after the one that invalidated the former. `Undamaged` says more of the
address spaces that are not damaged: the TLB agrees with the page table but for
the page in the window (`TlbHits`, `TlbMisses`), a page is in one frame of the
pool only (`PoolExact`), and a page that is asked for is out (`WantedOut`).
From it follow `HitsAreCurrent` and the refinement: for each action, the
contents of every page before and after (`Contents` moves from the page table's
frame to the frame under eviction, to the flash, and back) are the same, but
for a store; where they are not, the address space is damaged by that very
step, which is `Lose`. That `swapPoolSem` is a queue matters only through its
head.

**The processor** (`ProcessorProofs`). `TimeExact`: with `Placed` (a process is
in one place), that the account of the running process lacks exactly the time
since `start`, that of every other nothing. `Charged` settles the account of the
one that stops; the lemmas for the three ways a handler ends (it resumes, it
ends in the scheduler, it does not charge) cover all services.
`TypeCorrect` and `StacksImplemented` have the invariant `FramesInv`, which says
where the states of a process are: it is in its program, or in a handler of the
support level with its own state in `sup_exceptState[GENERALEXCEPT]`, or in the
pager with the state that faulted, of one of these two kinds, in
`sup_exceptState[PGFAULTEXCEPT]`. That is why two slots are enough: a handler
never raises a call that is passed up, and the pager never touches the memory of
the U-proc. The stack of a process is a function of its state and the two
slots; each way a handler of the nucleus can end (`Proceeds`, `Dies`,
`PassesUp`, `Faults`, `Returns`) is one action of `CallStacks` on the process
that raised the exception, and a stutter for the others. The programs are any
sequences of instructions (`ProgramAssumption`).

**Device map** (`DeviceMapProofs`). `OwnDevice`, the statement
`ReleasedByOwnDevice` for every address below the last that is accepted: the
arithmetic of `doIO` inverts that of the macros of `interrupt.c`, and the
semaphores of different devices differ. (No run checks it apart from the one
that shows the bound is wrong; the module has no other interesting states.)

**Lists** (`ListProofs`). The loops follow links, so the first thing proved is
that a list has an extent: `List(l, h, q)` says that the links lead from the head
`h` through the entries of `q` and back, and then the loop returns `q`
(`ChainIs`: two runs that differ would differ at a first place). `Laid(l, c)`
says that the nodes are such lists, one for each head, with no node in two of
them, and that an entry in no list points to itself. On it `list_del`,
`list_add`, `insertProcQ` and `outProcQ` are the sequence operations of
`ProcessQueues` (`DelLaid`, `AddLaid`, `insertProcQLaid`, `outProcQLaid`).
`Holds(l, v)` is the same with PCBs and descriptors in place of the nodes inside
them. `ListsInvariant` is that `ListsInv` always holds: the nodes hold some
sequences; a descriptor is in the ASL or free, one per key, and the PCBs in its
queue have that key (`SemdInv`); the lists of children are the inverse of
`p_parent` (`TreeInv`). None is inductive alone: a search by key finds *the*
descriptor only with `SemdInv`, and `outChild` and `outBlocked` delete from the
right list only because of `TreeInv` and `SemdInv`. `RingsKept`
(`DoublyLinked`), `Finds` (`DescriptorsFound`) and `PromisesKept` (`ListsSpec`,
one lemma per handler) follow. `DelKeepsRings` says of any rings at all that
`list_del` leaves rings, and the entry by itself.

**The support level** (`SupportProofs`). `TypesOK`, with every process in one
queue at most (`Queues`). `RunAlone` rests on `Unit`: the unit of
`shellSemaphore` is nowhere, or with the shell that is about to take it, or owed
to the program the shell waits for; a program that is active is one the unit is
owed to. `CreatesSucceed` is an argument about order: a program that has done
its V and not yet its TERMPROCESS (`LeftOver`) is ahead of the shell in the
ready queue and its time slice is not over (`Behind`), unless the shell has not
yet come to where it blocks for the terminal once more (`Fresh`); so the shell
cannot come round to the next EXECUTE before the program is gone. The theorem
holds for the round robin of one priority that the code gives to all of these.

**Only model-checked**: the liveness properties (`WaitEnds`, `SoftBlockedWake`,
`ReadyRuns`, `FaultsEnd`, `ShellResumes`, `HaltsAfterShell`), as the prover has
no rules for fairness; and the violations of section 3, which are
counterexamples. Every safety property, action property and refinement that a
passing run checks is also a theorem.

## 5. Not modelled

 - `klog.c`: a ring of text for a debugger; nothing reads it.
 - `phase1/p1test.c`, `phase2/p2test.c`: test drivers; read for the states they
   expect. The programs under `phase3/testers/` besides the shell compute and
   print; the calls they make are among those of any program in `Support`.
 - The boot (`main.c`, and the pass-up vector that `initKernel` fills), and the
   emulator, whose devices, timers and TLB are modelled from how the code uses
   them and marked external in `PROJECT.json`.
 - `blockedCount`, `headBlocked`: they change nothing, and only the phase 1
   test calls them.
 - P and V on elements of `deviceSemaphores` by address: nothing in the
   repository does it.
 - A bad address left in `BADVADDR`, an access of a U-proc behind its page
   table, the overflow of `p_time`, `p_pid` and of the semaphores: they depend
   on the hardware and on the compiler's layout, or take longer than a machine
   runs.

Worth doing next: the boundary between the modules. `Nucleus` is proved on
sequences and `LinkedLists` shown to implement sequences, each handler of its
own; that the lists `Nucleus` asks for are those `LinkedLists` grants (a PCB is
inserted only when it is in no queue) is argued in section 2 from
`ProcessesPlaced`, not stated as a theorem. The same holds of `Support`, whose
`P`, `V` and `DoIO` are those of `Nucleus` by construction.

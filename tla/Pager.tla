-------------------------------- MODULE Pager --------------------------------
(****************************************************************************)
(* Demand paging (phase3/vmSupport.c, and uTLB_RefillHandler of             *)
(* phase2/exception.c): U-procs run on pages that are in frames of the swap *)
(* pool or on their flash device.                                           *)
(*                                                                          *)
(* pager() runs with interrupts on, as part of the U-proc that faulted, and *)
(* interleaves with the others at every instruction; one action is the code *)
(* between two accesses to state they share.  uTLB_RefillHandler and        *)
(* updateTLBEntry run with interrupts off and are one action each.          *)
(*                                                                          *)
(* A page is <<a, p>>, page p of address space a.  A page table entry is    *)
(* the frame it maps, or NULL while its bit V is 0: the frame number left   *)
(* in it is never used.  The bit D is always set, so the processor raises   *)
(* no EXC_MOD.  A semaphore of the nucleus that starts at 1 and is used as  *)
(* a mutex is the sequence of the U-procs that hold it (the first) and wait *)
(* for it, in the order of their P: all of them have priority 0.            *)
(****************************************************************************)
EXTENDS Integers, Sequences

CONSTANTS
  Asids,       \* 1..UPROCMAX
  Mapped,      \* the pages <<a, p>> in use, p in 0..MAXPAGES-1
  POOLSIZE,
  Values,      \* what a page may hold
  NULL,        \* no frame, no owner
  ABSENT,      \* no TLB entry
  LOST         \* see VirtualMemory

Shell  == 1
Frames == 0..POOLSIZE - 1
Pages  == {m[2] : m \in Mapped}
NoPage == CHOOSE p \in Pages : TRUE    \* what a local variable holds before it is set

ASSUME PagerAssumption ==
  /\ Asids \subseteq Nat /\ Shell \in Asids /\ POOLSIZE \in Nat \ {0}
  /\ Mapped # {} /\ Mapped \subseteq Asids \X Nat
  /\ NULL \notin Frames /\ ABSENT \notin Frames /\ NULL # ABSENT
  /\ NULL \notin Mapped /\ LOST \notin Values

VARIABLES
  pc,               \* where each U-proc is
  fault,            \* pageIndex, the page it faulted on
  frame,            \* frameIndex, the frame it chose
  swapPool,         \* sw_asid and sw_pageNo of every frame
  swapFrameClock,
  swapPoolSem,
  flashMutex,
  pageTable,        \* sup_privatePgTbl
  tlb,
  flash,            \* the blocks of the flash devices, one device per ASID
  ram,              \* the frames
  damaged           \* history: the address spaces nothing is promised of

locals  == <<fault, frame>>
pool    == <<swapPool, swapFrameClock>>
mutexes == <<swapPoolSem, flashMutex>>
maps    == <<pageTable, tlb>>
data    == <<flash, ram>>
vars    == <<pc, locals, pool, mutexes, maps, data, damaged>>

(* Inside pager(), with swapPoolSem taken.                                  *)
Critical ==
  {"flush", "acquireWrite", "write", "releaseWrite", "failedWrite",
   "acquireRead", "read", "releaseRead", "failedRead",
   "map", "sync", "leave", "abort"}

Locations == {"unborn", "run", "enter", "fatal", "dead"} \cup Critical

TypeOK ==
  /\ pc \in [Asids -> Locations]
  /\ fault \in [Asids -> Pages]
  /\ frame \in [Asids -> Frames]
  /\ swapPool \in [Frames -> Mapped \cup {NULL}]
  /\ swapFrameClock \in Frames
  /\ swapPoolSem \in Seq(Asids)
  /\ flashMutex \in [Asids -> Seq(Asids)]
  /\ pageTable \in [Mapped -> Frames \cup {NULL}]
  /\ tlb \in [Mapped -> Frames \cup {NULL, ABSENT}]
  /\ flash \in [Mapped -> Values]
  /\ ram \in [Frames -> Values]
  /\ damaged \in SUBSET Asids

(* initSwapStructs, and the state in which test() launches the shell.  What *)
(* the flash devices hold is not determined.  No frame is read before it is *)
(* filled: that all hold the same at first is a bound on the initial states.*)
Init ==
  /\ pc = [a \in Asids |-> IF a = Shell THEN "run" ELSE "unborn"]
  /\ fault = [a \in Asids |-> NoPage]
  /\ frame = [a \in Asids |-> 0]
  /\ swapPool = [f \in Frames |-> NULL]
  /\ swapFrameClock = 0
  /\ swapPoolSem = <<>>
  /\ flashMutex = [a \in Asids |-> <<>>]
  /\ pageTable = [m \in Mapped |-> NULL]
  /\ tlb = [m \in Mapped |-> ABSENT]
  /\ flash \in [Mapped -> Values]
  /\ \E v \in Values : ram = [f \in Frames |-> v]
  /\ damaged = {}

Moves(a, from, to) == pc[a] = from /\ pc' = [pc EXCEPT ![a] = to]

(* The page the frame of U-proc a held before, and the one it asks for.     *)
Victim(a) == swapPool[frame[a]]
Wanted(a) == <<a, fault[a]>>

-----------------------------------------------------------------------------
(* The U-procs between two exceptions.                                      *)

(* A store to a page the TLB maps.  A load changes nothing.                 *)
Write(a, p, v) ==
  /\ pc[a] = "run" /\ tlb[<<a, p>>] \in Frames
  /\ ram' = [ram EXCEPT ![tlb[<<a, p>>]] = v]
  /\ UNCHANGED <<pc, locals, pool, mutexes, maps, flash, damaged>>

(* uTLB_RefillHandler: the entry of the page table goes into the TLB, valid *)
(* or not, over an entry TLBWR picks (unused ones included: m itself).      *)
uTLB_RefillHandler(m) ==
  /\ pc[m[1]] = "run" /\ tlb[m] = ABSENT
  /\ \E replaced \in Mapped :
       tlb' = [tlb EXCEPT ![replaced] = ABSENT, ![m] = pageTable[m]]
  /\ UNCHANGED <<pc, locals, pool, mutexes, pageTable, data, damaged>>

(* An access through an invalid entry: pager() up to P(swapPoolSem).        *)
PageFault(a, p) ==
  /\ tlb[<<a, p>>] = NULL
  /\ Moves(a, "run", "enter")
  /\ fault' = [fault EXCEPT ![a] = p]
  /\ swapPoolSem' = Append(swapPoolSem, a)
  /\ UNCHANGED <<frame, pool, flashMutex, maps, data, damaged>>

(* A U-proc ends; with the shell end all, its children, wherever they are.  *)
Dies(a) ==
  /\ pc' = [b \in Asids |-> IF b = a \/ a = Shell THEN "dead" ELSE pc[b]]
  /\ damaged' = IF a = Shell THEN Asids ELSE damaged

(* sys2_terminate and programTrapHandler, as far as memory is concerned.    *)
Terminate(a) ==
  /\ pc[a] = "run"
  /\ Dies(a)
  /\ UNCHANGED <<locals, pool, mutexes, maps, data>>

(* sys6_execute: a program starts on a, with a new page table.  The frames  *)
(* and the TLB entries of a former one stay.                                *)
Execute(a) ==
  /\ a # Shell /\ pc[Shell] = "run" /\ pc[a] \in {"unborn", "dead"}
  /\ pc' = [pc EXCEPT ![a] = "run"]
  /\ pageTable' = [m \in Mapped |-> IF m[1] = a THEN NULL ELSE pageTable[m]]
  /\ damaged' = IF pc[a] = "dead" THEN damaged \cup {a} ELSE damaged
  /\ UNCHANGED <<locals, pool, mutexes, tlb, data>>

-----------------------------------------------------------------------------
(* pager(), from P(swapPoolSem) on.                                         *)

(* Mutant of SelectFrame: the clock does not wrap.                          *)
SelectFrameNoWrap(a) ==
  /\ pc[a] = "enter" /\ Head(swapPoolSem) = a
  /\ frame' = [frame EXCEPT ![a] = swapFrameClock]
  /\ swapFrameClock' = swapFrameClock + 1
  /\ Moves(a, "enter", IF swapPool[swapFrameClock] = NULL THEN "acquireRead" ELSE "flush")
  /\ UNCHANGED <<fault, swapPool, mutexes, maps, data, damaged>>

(* Mutant of SelectFrame: the page of the victim stays valid.               *)
SelectFrameValid(a) ==
  /\ pc[a] = "enter" /\ Head(swapPoolSem) = a
  /\ frame' = [frame EXCEPT ![a] = swapFrameClock]
  /\ swapFrameClock' = (swapFrameClock + 1) % POOLSIZE
  /\ Moves(a, "enter", IF swapPool[swapFrameClock] = NULL THEN "acquireRead" ELSE "flush")
  /\ UNCHANGED <<fault, swapPool, mutexes, maps, data, damaged>>

(* The clock picks a frame; if it is occupied, the page in it is made       *)
(* invalid.  Only the holder of swapPoolSem looks at the pool.              *)
SelectFrame(a) ==
  /\ pc[a] = "enter" /\ Head(swapPoolSem) = a
  /\ frame' = [frame EXCEPT ![a] = swapFrameClock]
  /\ swapFrameClock' = (swapFrameClock + 1) % POOLSIZE
  /\ IF swapPool[swapFrameClock] = NULL
     THEN Moves(a, "enter", "acquireRead") /\ UNCHANGED pageTable
     ELSE /\ Moves(a, "enter", "flush")
          /\ pageTable' = [pageTable EXCEPT ![swapPool[swapFrameClock]] = NULL]
  /\ UNCHANGED <<fault, swapPool, mutexes, tlb, data, damaged>>

(* Mutant of UpdateTLBEntry: the TLB keeps its copy of the entry.           *)
UpdateTLBEntryNot(m) == UNCHANGED tlb

(* updateTLBEntry: TLBP finds the entry of the page, or nothing is done.    *)
UpdateTLBEntry(m) ==
  tlb' = IF tlb[m] = ABSENT THEN tlb ELSE [tlb EXCEPT ![m] = pageTable[m]]

FlushVictim(a) ==
  /\ Moves(a, "flush", "acquireWrite")
  /\ UpdateTLBEntry(Victim(a))
  /\ UNCHANGED <<locals, pool, mutexes, pageTable, data, damaged>>

(* flashIO: P(flashMutex), the command, V(flashMutex).  A command that      *)
(* fails may have been carried out or not.                                  *)
AcquireFlash(a, dev, from, to) ==
  /\ Moves(a, from, to)
  /\ flashMutex' = [flashMutex EXCEPT ![dev] = Append(@, a)]
  /\ UNCHANGED <<locals, pool, swapPoolSem, maps, data, damaged>>

ReleaseFlash(a, dev, from, to) ==
  /\ Moves(a, from, to)
  /\ flashMutex' = [flashMutex EXCEPT ![dev] = Tail(@)]
  /\ UNCHANGED <<locals, pool, swapPoolSem, maps, data, damaged>>

(* Mutant of WriteBlock: to the device of the U-proc that faulted.          *)
WriteBlockHere(a) ==
  /\ flash' = [m \in Mapped |-> IF m = <<a, Victim(a)[2]>> THEN ram[frame[a]] ELSE flash[m]]
  /\ UNCHANGED ram

WriteBlock(a) == flash' = [flash EXCEPT ![Victim(a)] = ram[frame[a]]] /\ UNCHANGED ram
ReadBlock(a)  == ram' = [ram EXCEPT ![frame[a]] = flash[Wanted(a)]] /\ UNCHANGED flash

FlashWrite(a) ==
  /\ pc[a] = "write" /\ Head(flashMutex[Victim(a)[1]]) = a
  /\ \/ Moves(a, "write", "releaseWrite") /\ WriteBlock(a) /\ UNCHANGED damaged
     \/ /\ Moves(a, "write", "failedWrite") /\ (WriteBlock(a) \/ UNCHANGED data)
        /\ damaged' = damaged \cup {Victim(a)[1]}
  /\ UNCHANGED <<locals, pool, mutexes, maps>>

FlashRead(a) ==
  /\ pc[a] = "read" /\ Head(flashMutex[a]) = a
  /\ \/ Moves(a, "read", "releaseRead") /\ ReadBlock(a) /\ UNCHANGED damaged
     \/ /\ Moves(a, "read", "failedRead") /\ (ReadBlock(a) \/ UNCHANGED data)
        /\ damaged' = IF Victim(a) = NULL THEN damaged
                      ELSE damaged \cup {Victim(a)[1]}
  /\ UNCHANGED <<locals, pool, mutexes, maps>>

MapPage(a) ==
  /\ Moves(a, "map", "sync")
  /\ swapPool' = [swapPool EXCEPT ![frame[a]] = Wanted(a)]
  /\ pageTable' = [pageTable EXCEPT ![Wanted(a)] = frame[a]]
  /\ UNCHANGED <<locals, swapFrameClock, mutexes, tlb, data, damaged>>

SyncPage(a) ==
  /\ Moves(a, "sync", "leave")
  /\ UpdateTLBEntry(Wanted(a))
  /\ UNCHANGED <<locals, pool, mutexes, pageTable, data, damaged>>

(* V(swapPoolSem), then LDST or fatalFault; the locals end with the call.   *)
ReleasePool(a, from, to) ==
  /\ Moves(a, from, to)
  /\ swapPoolSem' = Tail(swapPoolSem)
  /\ fault' = [fault EXCEPT ![a] = NoPage]
  /\ frame' = [frame EXCEPT ![a] = 0]
  /\ UNCHANGED <<pool, flashMutex, maps, data, damaged>>

Leave(a) == ReleasePool(a, "leave", "run")
Abort(a) == ReleasePool(a, "abort", "fatal")

(* fatalFault: the V for the parent, then TERMPROCESS.                      *)
FatalFault(a) ==
  /\ pc[a] = "fatal"
  /\ Dies(a)
  /\ UNCHANGED <<locals, pool, mutexes, maps, data>>

(* Mutant of FlashMutexStep: a read that failed is tried again.             *)
FlashMutexStepRetry(a) ==
  \/ AcquireFlash(a, Victim(a)[1], "acquireWrite", "write")
  \/ ReleaseFlash(a, Victim(a)[1], "releaseWrite", "acquireRead")
  \/ ReleaseFlash(a, Victim(a)[1], "failedWrite", "abort")
  \/ AcquireFlash(a, a, "acquireRead", "read")
  \/ ReleaseFlash(a, a, "releaseRead", "map")
  \/ ReleaseFlash(a, a, "failedRead", "acquireRead")

FlashMutexStep(a) ==
  \/ AcquireFlash(a, Victim(a)[1], "acquireWrite", "write")
  \/ ReleaseFlash(a, Victim(a)[1], "releaseWrite", "acquireRead")
  \/ ReleaseFlash(a, Victim(a)[1], "failedWrite", "abort")
  \/ AcquireFlash(a, a, "acquireRead", "read")
  \/ ReleaseFlash(a, a, "releaseRead", "map")
  \/ ReleaseFlash(a, a, "failedRead", "abort")

pager(a) ==
  \/ SelectFrame(a) \/ FlushVictim(a)
  \/ FlashMutexStep(a) \/ FlashWrite(a) \/ FlashRead(a)
  \/ MapPage(a) \/ SyncPage(a)
  \/ Leave(a) \/ Abort(a) \/ FatalFault(a)

(* Every process of the support level has ended.                            *)
Stopped == pc[Shell] = "dead" /\ UNCHANGED vars

Next ==
  \/ \E m \in Mapped : uTLB_RefillHandler(m)
  \/ \E m \in Mapped, v \in Values : Write(m[1], m[2], v)
  \/ \E m \in Mapped : PageFault(m[1], m[2])
  \/ \E a \in Asids : Terminate(a) \/ Execute(a) \/ pager(a)
  \/ Stopped

Spec == Init /\ [][Next]_vars

(* The scheduler is round robin among equals and a flash device ends what   *)
(* it was told, so a U-proc inside pager() gets on unless it has to wait.   *)
FairSpec == Spec /\ \A a \in Asids : WF_vars(pager(a))

-----------------------------------------------------------------------------
(* Properties.                                                              *)

(* Whatever faults, fails, ends and starts again at the same time: no two   *)
(* pages are accessible in the same frame, so no U-proc ever sees or        *)
(* changes a page that is not its own (the swap pool gives each frame one   *)
(* owner, vmSupport.c:341-347).                                             *)
FramesApart ==
  \A m, n \in Mapped, f \in Frames :
    f \in {pageTable[m], tlb[m]} /\ f \in {pageTable[n], tlb[n]} => m = n

(* Somebody is writing page m out: its entry is invalid, the frame not yet  *)
(* on the flash.                                                            *)
Evicting(a, m) ==
  pc[a] \in {"flush", "acquireWrite", "write"} /\ Victim(a) = m

(* Where the contents of a page are.                                        *)
Contents(m) ==
  IF pageTable[m] \in Frames THEN ram[pageTable[m]]
  ELSE IF swapPoolSem # <<>> /\ Evicting(Head(swapPoolSem), m)
       THEN ram[frame[Head(swapPoolSem)]]
       ELSE flash[m]

(* A load through the TLB finds what the page holds, even in the window     *)
(* between the invalidation of a page table entry and the update of the TLB *)
(* (vmSupport.c:308-313), when the two differ.                              *)
HitsAreCurrent ==
  \A m \in Mapped :
    m[1] \notin damaged /\ tlb[m] \in Frames => ram[tlb[m]] = Contents(m)

(* The pages are a memory: stores change one page each and nothing else     *)
(* changes any, however pages move, until the flash fails while a frame of  *)
(* the address space is replaced or its ASID is used again.                 *)
Held   == [m \in Mapped |-> IF m[1] \in damaged THEN LOST ELSE Contents(m)]
Memory == INSTANCE VirtualMemory WITH mem <- Held
MemorySpec == Memory!Spec

(* A U-proc that faults runs again or is ended, whether the flash fails or  *)
(* not: every way out of pager() gives back both mutexes.                   *)
FaultsEnd ==
  \A a \in Asids : pc[a] = "enter" ~> pc[a] \in {"run", "dead"}

(* initPageTable makes every page invalid, so that "al primo accesso scatta *)
(* page fault" (initProc.c:96): what the page table does not map and nobody *)
(* is evicting, the TLB does not map either.                                *)
InvalidPagesFault ==
  \A m \in Mapped :
    pageTable[m] = NULL /\ (\A a \in Asids : ~Evicting(a, m)) => tlb[m] \notin Frames
=============================================================================

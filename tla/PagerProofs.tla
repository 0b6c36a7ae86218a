---------------------------- MODULE PagerProofs ----------------------------
(****************************************************************************)
(* What Pager keeps for any address spaces, pages, frames and values: its   *)
(* types, the mutual exclusion swapPoolSem gives, FramesApart,              *)
(* HitsAreCurrent, and that it implements VirtualMemory.                    *)
(****************************************************************************)
EXTENDS Pager, SequenceTheorems, TLAPS

(* The stages of a fault: a victim is being evicted; nothing maps the frame *)
(* any more; the two together; the page asked for is not mapped yet.        *)
Evicts    == {"flush", "acquireWrite", "write", "releaseWrite", "failedWrite"}
Clear     == {"acquireWrite", "write", "releaseWrite", "failedWrite",
              "acquireRead", "read", "releaseRead", "failedRead", "map"}
Replacing == Clear \cup {"flush"}

(* A U-proc that asked for the swap pool is in the queue, and the one that  *)
(* uses it is the first.                                                    *)
WaitersQueued ==
  \A a \in Asids : pc[a] = "enter" => \E i \in 1..Len(swapPoolSem) : swapPoolSem[i] = a
OneHolder ==
  \A a \in Asids : pc[a] \in Critical => swapPoolSem # <<>> /\ Head(swapPoolSem) = a

FlashHeld ==
  \A a \in Asids :
    /\ pc[a] \in {"write", "releaseWrite", "failedWrite"} => flashMutex[Victim(a)[1]] # <<>>
    /\ pc[a] \in {"read", "releaseRead", "failedRead"} => flashMutex[a] # <<>>

WantedMapped ==
  \A a \in Asids : pc[a] \in Critical \cup {"enter"} => Wanted(a) \in Mapped
VictimOut ==
  \A a \in Asids : pc[a] \in Evicts => Victim(a) \in Mapped /\ pageTable[Victim(a)] = NULL

(* A page is mapped only to a frame that is its own in the swap pool, and   *)
(* the frame that is being replaced to none.                                *)
Owners ==
  \A m \in Mapped :
    /\ pageTable[m] \in Frames => swapPool[pageTable[m]] = m
    /\ tlb[m] \in Frames => swapPool[tlb[m]] = m
FrameOut ==
  \A a \in Asids, m \in Mapped :
    /\ pc[a] \in Replacing => pageTable[m] # frame[a]
    /\ pc[a] \in Clear     => tlb[m] # frame[a]

Control == /\ TypeOK /\ WaitersQueued /\ OneHolder /\ FlashHeld
           /\ WantedMapped /\ VictimOut /\ Owners /\ FrameOut

-----------------------------------------------------------------------------
(* Of the address spaces that are not damaged more holds.                   *)

(* An entry of the TLB is that of the page table, but for the one that is   *)
(* about to be flushed and the one that is about to be entered.             *)
TlbHits ==
  \A m \in Mapped :
    m[1] \notin damaged /\ tlb[m] \in Frames =>
      \/ pageTable[m] = tlb[m]
      \/ \E a \in Asids : pc[a] = "flush" /\ Victim(a) = m /\ frame[a] = tlb[m]
TlbMisses ==
  \A m \in Mapped :
    m[1] \notin damaged /\ tlb[m] = NULL =>
      pageTable[m] = NULL \/ (pc[m[1]] = "sync" /\ Wanted(m[1]) = m)

(* The swap pool has a page in one frame only, the one that is mapped.      *)
PoolExact ==
  \A m \in Mapped, f \in Frames :
    m[1] \notin damaged /\ swapPool[f] = m =>
      \/ pageTable[m] = f
      \/ \E a \in Asids : /\ frame[a] = f
                          /\ pc[a] \in Replacing \ {"failedWrite", "failedRead"}

WantedOut ==
  \A a \in Asids :
    a \notin damaged /\ pc[a] \in Replacing \cup {"enter"} => pageTable[Wanted(a)] = NULL

(* A new address space has left nothing anywhere.                           *)
UnbornOut ==
  \A a \in Asids, m \in Mapped :
    pc[a] = "unborn" /\ m[1] = a =>
      pageTable[m] = NULL /\ tlb[m] = ABSENT /\ \A f \in Frames : swapPool[f] # m

(* What was read is in the frame until it is mapped.                        *)
Filled ==
  \A a \in Asids :
    a \notin damaged /\ pc[a] \in {"releaseRead", "map"} => ram[frame[a]] = flash[Wanted(a)]

ShellLast == pc[Shell] = "dead" => damaged = Asids

Undamaged == /\ TlbHits /\ TlbMisses /\ PoolExact /\ WantedOut /\ UnbornOut
             /\ Filled /\ ShellLast

IInv == Control /\ Undamaged

-----------------------------------------------------------------------------
(* What the control of the pager keeps, action by action.                   *)

(* P and V on the mutexes of the flash devices.                             *)
LEMMA FlashMutexType ==
  ASSUME NEW a \in Asids, TypeOK, OneHolder, FlashHeld, VictimOut, FlashMutexStep(a)
  PROVE  /\ flashMutex' \in [Asids -> Seq(Asids)]
         /\ pc' \in [Asids -> Locations]
         /\ FlashHeld'
<1> DEFINE v == Victim(a)[1]
<1>1. pc[a] \in Evicts => v \in Asids
  BY PagerAssumption DEF VictimOut
<1>2. ASSUME NEW dev \in Asids, NEW from \in Critical, NEW to \in Critical,
             AcquireFlash(a, dev, from, to) \/ (ReleaseFlash(a, dev, from, to) /\ flashMutex[dev] # <<>>),
             to \notin {"write", "releaseWrite", "failedWrite", "read", "releaseRead", "failedRead"}
               \/ (to = "write" /\ dev = v /\ AcquireFlash(a, dev, from, to))
               \/ (to = "read" /\ dev = a /\ AcquireFlash(a, dev, from, to))
      PROVE  /\ flashMutex' \in [Asids -> Seq(Asids)]
             /\ pc' \in [Asids -> Locations]
             /\ FlashHeld'
  <2>1. flashMutex[dev] \in Seq(Asids)
    BY DEF TypeOK
  <2>2. flashMutex'[dev] \in Seq(Asids) /\ (AcquireFlash(a, dev, from, to) => flashMutex'[dev] # <<>>)
    <3>1. CASE AcquireFlash(a, dev, from, to)
      <4>1. flashMutex'[dev] = Append(flashMutex[dev], a)
        BY <3>1 DEF AcquireFlash, TypeOK
      <4> QED
        BY <4>1, <2>1, AppendProperties
    <3>2. CASE ReleaseFlash(a, dev, from, to) /\ flashMutex[dev] # <<>> /\ ~AcquireFlash(a, dev, from, to)
      <4>1. flashMutex'[dev] = Tail(flashMutex[dev])
        BY <3>2 DEF ReleaseFlash, TypeOK
      <4> QED
        BY <4>1, <3>2, <2>1, HeadTailProperties
    <3> QED
      BY <1>2, <3>1, <3>2
  <2>3. flashMutex' = [flashMutex EXCEPT ![dev] = flashMutex'[dev]]
    BY <1>2 DEF AcquireFlash, ReleaseFlash, TypeOK
  <2>4. flashMutex' \in [Asids -> Seq(Asids)]
    BY <2>2, <2>3 DEF TypeOK
  <2>5. pc' = [pc EXCEPT ![a] = to] /\ pc[a] = from
    BY <1>2 DEF AcquireFlash, ReleaseFlash, Moves
  <2>6. \A b \in Asids : b # a => pc'[b] \notin Critical
    BY <2>5 DEF OneHolder, TypeOK
  <2>7. Victim(a)' = Victim(a)
    BY <1>2 DEF AcquireFlash, ReleaseFlash, locals, pool, Victim
  <2>8. FlashHeld'
    BY <1>2, <2>2, <2>5, <2>6, <2>7 DEF FlashHeld, TypeOK, Critical
  <2> QED
    BY <2>4, <2>5, <2>8 DEF TypeOK, Locations
<1>3. CASE AcquireFlash(a, v, "acquireWrite", "write")
  BY <1>1, <1>2, <1>3 DEF AcquireFlash, Moves, Critical, Evicts
<1>4. CASE ReleaseFlash(a, v, "releaseWrite", "acquireRead")
  BY <1>1, <1>2, <1>4 DEF ReleaseFlash, Moves, Critical, Evicts, FlashHeld
<1>5. CASE ReleaseFlash(a, v, "failedWrite", "abort")
  BY <1>1, <1>2, <1>5 DEF ReleaseFlash, Moves, Critical, Evicts, FlashHeld
<1>6. CASE AcquireFlash(a, a, "acquireRead", "read")
  BY <1>2, <1>6 DEF AcquireFlash, Moves, Critical
<1>7. CASE ReleaseFlash(a, a, "releaseRead", "map")
  BY <1>2, <1>7 DEF ReleaseFlash, Moves, Critical, FlashHeld
<1>8. CASE ReleaseFlash(a, a, "failedRead", "abort")
  BY <1>2, <1>8 DEF ReleaseFlash, Moves, Critical, FlashHeld
<1> QED
  BY <1>3, <1>4, <1>5, <1>6, <1>7, <1>8 DEF FlashMutexStep

LEMMA uTLB_RefillHandlerControl ==
  ASSUME NEW m \in Mapped, Control, uTLB_RefillHandler(m)
  PROVE  Control'
<1>1. TypeOK'
  <2>1. PICK replaced \in Mapped :
          tlb' = [tlb EXCEPT ![replaced] = ABSENT, ![m] = pageTable[m]]
    BY DEF uTLB_RefillHandler
  <2>2. pageTable[m] \in Frames \cup {NULL}
    BY DEF Control, TypeOK
  <2>3. tlb' \in [Mapped -> Frames \cup {NULL, ABSENT}]
    BY <2>1, <2>2 DEF Control, TypeOK
  <2> QED
    BY <2>3 DEF Control, TypeOK, uTLB_RefillHandler, locals, pool, mutexes, data
<1>2. WaitersQueued' /\ OneHolder'
  BY  DEF Control, uTLB_RefillHandler, locals, pool, mutexes, data, TypeOK,
          WaitersQueued, OneHolder, Critical
<1>3. FlashHeld'
  BY  DEF Control, uTLB_RefillHandler, locals, pool, mutexes, data, TypeOK,
          OneHolder, FlashHeld, Victim, Critical
<1>4. WantedMapped' /\ VictimOut'
  BY  DEF Control, uTLB_RefillHandler, locals, pool, mutexes, data, TypeOK,
          OneHolder, WantedMapped, VictimOut, Wanted, Victim, Critical, Evicts
<1>5. Owners' /\ FrameOut'
  <2>1. PICK replaced \in Mapped :
          tlb' = [tlb EXCEPT ![replaced] = ABSENT, ![m] = pageTable[m]]
    BY DEF uTLB_RefillHandler
  <2>2. \A n \in Mapped : tlb'[n] \in {tlb[n], pageTable[n], ABSENT}
    BY <2>1 DEF Control, TypeOK
  <2>3. ABSENT \notin Frames /\ \A a \in Asids : frame[a] \in Frames
    BY PagerAssumption DEF Control, TypeOK
  <2>4. UNCHANGED <<pc, frame, swapPool, pageTable>>
    BY DEF uTLB_RefillHandler, locals, pool
  <2> QED
    BY <2>2, <2>3, <2>4 DEF Control, Owners, FrameOut, Clear, Replacing
<1> QED
  BY <1>1, <1>2, <1>3, <1>4, <1>5 DEF Control

LEMMA WriteControl ==
  ASSUME NEW m \in Mapped, NEW v \in Values, Control, Write(m[1], m[2], v)
  PROVE  Control'
<1>1. TypeOK'
  BY PagerAssumption DEF Control, Write, locals, pool, mutexes, maps, TypeOK,
                         Locations, Critical, Pages, NoPage, Frames, Wanted,
                         Victim, Shell
<1>2. WaitersQueued' /\ OneHolder'
  BY  DEF Control, Write, locals, pool, mutexes, maps, TypeOK, WaitersQueued,
          OneHolder, Critical
<1>3. FlashHeld'
  BY  DEF Control, Write, locals, pool, mutexes, maps, TypeOK, OneHolder,
          FlashHeld, Victim, Critical
<1>4. WantedMapped' /\ VictimOut'
  BY  DEF Control, Write, locals, pool, mutexes, maps, TypeOK, OneHolder,
          WantedMapped, VictimOut, Wanted, Victim, Critical, Evicts
<1>5. Owners' /\ FrameOut'
  BY PagerAssumption DEF Control, Write, locals, pool, mutexes, maps, TypeOK,
                         OneHolder, VictimOut, Owners, FrameOut, Victim, Critical,
                         Evicts, Clear, Replacing
<1> QED
  BY <1>1, <1>2, <1>3, <1>4, <1>5 DEF Control

LEMMA PageFaultControl ==
  ASSUME NEW m \in Mapped, Control, PageFault(m[1], m[2])
  PROVE  Control'
<1>1. TypeOK'
  BY PagerAssumption, SMTT(30) DEF Control, PageFault, Moves, pool, maps, data, TypeOK,
                         Locations, Critical, Pages, NoPage, Frames, Wanted,
                         Victim, Shell
<1>2. WaitersQueued' /\ OneHolder'
  BY  DEF Control, PageFault, Moves, pool, maps, data, TypeOK, WaitersQueued,
          OneHolder, Critical
<1>3. FlashHeld'
  BY  DEF Control, PageFault, Moves, pool, maps, data, TypeOK, OneHolder,
          FlashHeld, Victim, Critical
<1>4. WantedMapped' /\ VictimOut'
  <2>1. m = <<m[1], m[2]>> /\ m[1] \in Asids
    BY PagerAssumption
  <2>2. \A b \in Asids : Wanted(b)' = IF b = m[1] THEN m ELSE Wanted(b)
    BY <2>1 DEF PageFault, Control, TypeOK, Wanted
  <2>3. WantedMapped'
    BY <2>1, <2>2 DEF PageFault, Moves, Control, TypeOK, WantedMapped, Critical
  <2>4. VictimOut'
    BY DEF PageFault, Moves, pool, maps, Control, TypeOK, VictimOut, Victim, Evicts
  <2> QED
    BY <2>3, <2>4
<1>5. Owners' /\ FrameOut'
  BY PagerAssumption DEF Control, PageFault, Moves, pool, maps, data, TypeOK,
                         OneHolder, VictimOut, Owners, FrameOut, Victim, Critical,
                         Evicts, Clear, Replacing
<1> QED
  BY <1>1, <1>2, <1>3, <1>4, <1>5 DEF Control

LEMMA TerminateControl ==
  ASSUME NEW a \in Asids, Control, Terminate(a)
  PROVE  Control'
<1>1. TypeOK'
  BY PagerAssumption DEF Control, Terminate, Dies, locals, pool, mutexes, maps,
                         data, TypeOK, Locations, Critical, Pages, NoPage, Frames,
                         Wanted, Victim, Shell
<1>2. WaitersQueued' /\ OneHolder'
  BY  DEF Control, Terminate, Dies, locals, pool, mutexes, maps, data, TypeOK,
          WaitersQueued, OneHolder, Critical
<1>3. FlashHeld'
  BY  DEF Control, Terminate, Dies, locals, pool, mutexes, maps, data, TypeOK,
          OneHolder, FlashHeld, Victim, Critical
<1>4. WantedMapped' /\ VictimOut'
  BY  DEF Control, Terminate, Dies, locals, pool, mutexes, maps, data, TypeOK,
          OneHolder, WantedMapped, VictimOut, Wanted, Victim, Critical, Evicts
<1>5. Owners' /\ FrameOut'
  BY PagerAssumption DEF Control, Terminate, Dies, locals, pool, mutexes, maps,
                         data, TypeOK, OneHolder, VictimOut, Owners, FrameOut,
                         Victim, Critical, Evicts, Clear, Replacing
<1> QED
  BY <1>1, <1>2, <1>3, <1>4, <1>5 DEF Control

LEMMA ExecuteControl ==
  ASSUME NEW a \in Asids, Control, Execute(a)
  PROVE  Control'
<1>1. TypeOK'
  BY PagerAssumption DEF Control, Execute, locals, pool, mutexes, data, TypeOK,
                         Locations, Critical, Pages, NoPage, Frames, Wanted,
                         Victim, Shell
<1>2. WaitersQueued' /\ OneHolder'
  BY  DEF Control, Execute, locals, pool, mutexes, data, TypeOK, WaitersQueued,
          OneHolder, Critical
<1>3. FlashHeld'
  BY  DEF Control, Execute, locals, pool, mutexes, data, TypeOK, OneHolder,
          FlashHeld, Victim, Critical
<1>4. WantedMapped' /\ VictimOut'
  BY  DEF Control, Execute, locals, pool, mutexes, data, TypeOK, OneHolder,
          WantedMapped, VictimOut, Wanted, Victim, Critical, Evicts
<1>5. Owners' /\ FrameOut'
  BY PagerAssumption DEF Control, Execute, locals, pool, mutexes, data, TypeOK,
                         OneHolder, VictimOut, Owners, FrameOut, Victim, Critical,
                         Evicts, Clear, Replacing
<1> QED
  BY <1>1, <1>2, <1>3, <1>4, <1>5 DEF Control

LEMMA SelectFrameControl ==
  ASSUME NEW a \in Asids, Control, SelectFrame(a)
  PROVE  Control'
<1>1. TypeOK'
  <2>1. swapFrameClock' \in Frames
    BY PagerAssumption DEF SelectFrame, Control, TypeOK, Frames
  <2>2. pageTable' \in [Mapped -> Frames \cup {NULL}]
    BY PagerAssumption DEF SelectFrame, Control, TypeOK
  <2>3. pc' \in [Asids -> Locations] /\ frame' \in [Asids -> Frames]
    BY DEF SelectFrame, Moves, Control, TypeOK, Locations, Critical
  <2> QED
    BY <2>1, <2>2, <2>3 DEF SelectFrame, mutexes, data, Control, TypeOK
<1>2. WaitersQueued' /\ OneHolder'
  <2>1. swapPoolSem # <<>>
    <3>1. PICK i \in 1..Len(swapPoolSem) : swapPoolSem[i] = a
      BY DEF SelectFrame, Control, WaitersQueued
    <3> QED
      BY <3>1
  <2>2. UNCHANGED swapPoolSem /\ Head(swapPoolSem) = a
    BY DEF SelectFrame, mutexes
  <2>3. \A b \in Asids : b # a => pc'[b] = pc[b]
    BY DEF SelectFrame, Moves, Control, TypeOK
  <2>4. pc'[a] # "enter"
    BY DEF SelectFrame, Moves, Control, TypeOK
  <2> QED
    BY <2>1, <2>2, <2>3, <2>4 DEF Control, WaitersQueued, OneHolder
<1>3. FlashHeld'
  BY  DEF Control, SelectFrame, Moves, mutexes, data, TypeOK, OneHolder, FlashHeld,
          Victim, Critical
<1>4. WantedMapped' /\ VictimOut'
  BY  DEF Control, SelectFrame, Moves, mutexes, data, TypeOK, OneHolder,
          WantedMapped, VictimOut, Wanted, Victim, Critical, Evicts
<1>5. Owners' /\ FrameOut'
  <2>1. \A b \in Asids : b # a => pc[b] \notin Critical /\ pc'[b] = pc[b]
    BY DEF SelectFrame, Moves, Control, TypeOK, OneHolder
  <2>2. /\ frame'[a] = swapFrameClock /\ swapFrameClock \in Frames
        /\ UNCHANGED <<swapPool, tlb>>
        /\ pc'[a] \in {"acquireRead", "flush"}
        /\ pc'[a] = "acquireRead" <=> swapPool[swapFrameClock] = NULL
    BY DEF SelectFrame, Moves, Control, TypeOK
  <2>3. \A m \in Mapped : pageTable'[m] \in {pageTable[m], NULL}
    BY DEF SelectFrame, Control, TypeOK
  <2>4. Owners'
    BY <2>2, <2>3, PagerAssumption DEF Control, Owners
  <2>5. \A m \in Mapped : pageTable'[m] # swapFrameClock
    <3> SUFFICES ASSUME NEW m \in Mapped, pageTable'[m] = swapFrameClock PROVE FALSE
      OBVIOUS
    <3>1. pageTable[m] = swapFrameClock
      BY <2>2, <2>3, PagerAssumption
    <3>2. swapPool[swapFrameClock] = m
      BY <2>2, <3>1 DEF Control, Owners
    <3>3. pageTable'[m] = NULL
      BY <3>2, PagerAssumption DEF SelectFrame, Control, TypeOK
    <3> QED
      BY <3>3, <2>2, PagerAssumption
  <2>6. pc'[a] = "acquireRead" => \A m \in Mapped : tlb[m] # swapFrameClock
    BY <2>2, PagerAssumption DEF Control, Owners
  <2>7. FrameOut'
    BY <2>1, <2>2, <2>5, <2>6 DEF FrameOut, Replacing, Clear, Critical
  <2> QED
    BY <2>4, <2>7
<1> QED
  BY <1>1, <1>2, <1>3, <1>4, <1>5 DEF Control

LEMMA FlushVictimControl ==
  ASSUME NEW a \in Asids, Control, FlushVictim(a)
  PROVE  Control'
<1>1. TypeOK'
  BY PagerAssumption DEF Control, FlushVictim, UpdateTLBEntry, Moves, locals, pool,
                         mutexes, data, TypeOK, Locations, Critical, Pages, NoPage,
                         Frames, Wanted, Victim, Shell
<1>2. WaitersQueued' /\ OneHolder'
  BY  DEF Control, FlushVictim, UpdateTLBEntry, Moves, locals, pool, mutexes, data,
          TypeOK, WaitersQueued, OneHolder, Critical
<1>3. FlashHeld'
  BY  DEF Control, FlushVictim, UpdateTLBEntry, Moves, locals, pool, mutexes, data,
          TypeOK, OneHolder, FlashHeld, Victim, Critical
<1>4. WantedMapped' /\ VictimOut'
  BY  DEF Control, FlushVictim, UpdateTLBEntry, Moves, locals, pool, mutexes, data,
          TypeOK, OneHolder, WantedMapped, VictimOut, Wanted, Victim, Critical,
          Evicts
<1>5. Owners' /\ FrameOut'
  BY PagerAssumption DEF Control, FlushVictim, UpdateTLBEntry, Moves, locals, pool,
                         mutexes, data, TypeOK, OneHolder, VictimOut, Owners,
                         FrameOut, Victim, Critical, Evicts, Clear, Replacing
<1> QED
  BY <1>1, <1>2, <1>3, <1>4, <1>5 DEF Control

LEMMA FlashMutexStepControl ==
  ASSUME NEW a \in Asids, Control, FlashMutexStep(a)
  PROVE  Control'
<1>1. TypeOK'
  <2>1. flashMutex' \in [Asids -> Seq(Asids)] /\ pc' \in [Asids -> Locations]
    BY FlashMutexType DEF Control
  <2> QED
    BY <2>1 DEF FlashMutexStep, AcquireFlash, ReleaseFlash, locals, pool, maps,
                data, Control, TypeOK
<1>2. WaitersQueued' /\ OneHolder'
  BY  DEF Control, FlashMutexStep, AcquireFlash, ReleaseFlash, Moves, locals, pool,
          maps, data, TypeOK, WaitersQueued, OneHolder, Critical
<1>3. FlashHeld'
  BY FlashMutexType DEF Control
<1>4. WantedMapped' /\ VictimOut'
  BY  DEF Control, FlashMutexStep, AcquireFlash, ReleaseFlash, Moves, locals, pool,
          maps, data, TypeOK, OneHolder, WantedMapped, VictimOut, Wanted, Victim,
          Critical, Evicts
<1>5. Owners' /\ FrameOut'
  BY PagerAssumption DEF Control, FlashMutexStep, AcquireFlash, ReleaseFlash,
                         Moves, locals, pool, maps, data, TypeOK, OneHolder,
                         VictimOut, Owners, FrameOut, Victim, Critical, Evicts,
                         Clear, Replacing
<1> QED
  BY <1>1, <1>2, <1>3, <1>4, <1>5 DEF Control

LEMMA FlashWriteControl ==
  ASSUME NEW a \in Asids, Control, FlashWrite(a)
  PROVE  Control'
<1>1. TypeOK'
  <2>1. Victim(a) \in Mapped /\ Victim(a)[1] \in Asids
    BY PagerAssumption DEF FlashWrite, Control, VictimOut, Evicts
  <2>2. flash' \in [Mapped -> Values] /\ ram' \in [Frames -> Values]
    BY <2>1 DEF FlashWrite, WriteBlock, data, Control, TypeOK
  <2>3. pc' \in [Asids -> Locations] /\ damaged' \in SUBSET Asids
    BY <2>1 DEF FlashWrite, Moves, Control, TypeOK, Locations, Critical
  <2> QED
    BY <2>2, <2>3 DEF FlashWrite, locals, pool, mutexes, maps, Control, TypeOK
<1>2. WaitersQueued' /\ OneHolder'
  BY  DEF Control, FlashWrite, WriteBlock, Moves, locals, pool, mutexes, maps,
          data, TypeOK, WaitersQueued, OneHolder, Critical
<1>3. FlashHeld'
  BY  DEF Control, FlashWrite, WriteBlock, Moves, locals, pool, mutexes, maps,
          data, TypeOK, OneHolder, FlashHeld, Victim, Critical
<1>4. WantedMapped' /\ VictimOut'
  BY  DEF Control, FlashWrite, WriteBlock, Moves, locals, pool, mutexes, maps,
          data, TypeOK, OneHolder, WantedMapped, VictimOut, Wanted, Victim,
          Critical, Evicts
<1>5. Owners' /\ FrameOut'
  BY PagerAssumption DEF Control, FlashWrite, WriteBlock, Moves, locals, pool,
                         mutexes, maps, data, TypeOK, OneHolder, VictimOut, Owners,
                         FrameOut, Victim, Critical, Evicts, Clear, Replacing
<1> QED
  BY <1>1, <1>2, <1>3, <1>4, <1>5 DEF Control

LEMMA FlashReadControl ==
  ASSUME NEW a \in Asids, Control, FlashRead(a)
  PROVE  Control'
<1>1. TypeOK'
  <2>1. Wanted(a) \in Mapped
    BY DEF FlashRead, Control, WantedMapped, Critical
  <2>2. flash' \in [Mapped -> Values] /\ ram' \in [Frames -> Values]
    BY <2>1, ZenonT(30) DEF FlashRead, ReadBlock, data, Control, TypeOK
  <2>3. Victim(a) # NULL => Victim(a)[1] \in Asids
    BY PagerAssumption DEF Victim, Control, TypeOK
  <2>4. pc' \in [Asids -> Locations] /\ damaged' \in SUBSET Asids
    BY <2>3 DEF FlashRead, Moves, Control, TypeOK, Locations, Critical
  <2> QED
    BY <2>2, <2>4 DEF FlashRead, locals, pool, mutexes, maps, Control, TypeOK
<1>2. WaitersQueued' /\ OneHolder'
  BY  DEF Control, FlashRead, ReadBlock, Moves, locals, pool, mutexes, maps, data,
          TypeOK, WaitersQueued, OneHolder, Critical
<1>3. FlashHeld'
  BY  DEF Control, FlashRead, ReadBlock, Moves, locals, pool, mutexes, maps, data,
          TypeOK, OneHolder, FlashHeld, Victim, Critical
<1>4. WantedMapped' /\ VictimOut'
  BY  DEF Control, FlashRead, ReadBlock, Moves, locals, pool, mutexes, maps, data,
          TypeOK, OneHolder, WantedMapped, VictimOut, Wanted, Victim, Critical,
          Evicts
<1>5. Owners' /\ FrameOut'
  BY PagerAssumption DEF Control, FlashRead, ReadBlock, Moves, locals, pool,
                         mutexes, maps, data, TypeOK, OneHolder, VictimOut, Owners,
                         FrameOut, Victim, Critical, Evicts, Clear, Replacing
<1> QED
  BY <1>1, <1>2, <1>3, <1>4, <1>5 DEF Control

LEMMA MapPageControl ==
  ASSUME NEW a \in Asids, Control, MapPage(a)
  PROVE  Control'
<1>1. TypeOK'
  <2>1. Wanted(a) \in Mapped /\ frame[a] \in Frames
    BY DEF MapPage, Moves, Control, TypeOK, WantedMapped, Critical
  <2>2. swapPool' \in [Frames -> Mapped \cup {NULL}] /\ pageTable' \in [Mapped -> Frames \cup {NULL}]
    BY <2>1 DEF MapPage, Control, TypeOK
  <2>3. pc' \in [Asids -> Locations]
    BY DEF MapPage, Moves, Control, TypeOK, Locations, Critical
  <2> QED
    BY <2>2, <2>3 DEF MapPage, locals, mutexes, data, Control, TypeOK
<1>2. WaitersQueued' /\ OneHolder'
  BY  DEF Control, MapPage, Moves, locals, mutexes, data, TypeOK, WaitersQueued,
          OneHolder, Critical
<1>3. FlashHeld'
  BY  DEF Control, MapPage, Moves, locals, mutexes, data, TypeOK, OneHolder,
          FlashHeld, Victim, Critical
<1>4. WantedMapped' /\ VictimOut'
  BY  DEF Control, MapPage, Moves, locals, mutexes, data, TypeOK, OneHolder,
          WantedMapped, VictimOut, Wanted, Victim, Critical, Evicts
<1>5. Owners' /\ FrameOut'
  BY PagerAssumption DEF Control, MapPage, Moves, locals, mutexes, data, TypeOK,
                         OneHolder, VictimOut, Owners, FrameOut, Victim, Critical,
                         Evicts, Clear, Replacing
<1> QED
  BY <1>1, <1>2, <1>3, <1>4, <1>5 DEF Control

LEMMA SyncPageControl ==
  ASSUME NEW a \in Asids, Control, SyncPage(a)
  PROVE  Control'
<1>1. TypeOK'
  BY PagerAssumption DEF Control, SyncPage, UpdateTLBEntry, Moves, locals, pool,
                         mutexes, data, TypeOK, Locations, Critical, Pages, NoPage,
                         Frames, Wanted, Victim, Shell
<1>2. WaitersQueued' /\ OneHolder'
  BY  DEF Control, SyncPage, UpdateTLBEntry, Moves, locals, pool, mutexes, data,
          TypeOK, WaitersQueued, OneHolder, Critical
<1>3. FlashHeld'
  BY  DEF Control, SyncPage, UpdateTLBEntry, Moves, locals, pool, mutexes, data,
          TypeOK, OneHolder, FlashHeld, Victim, Critical
<1>4. WantedMapped' /\ VictimOut'
  BY  DEF Control, SyncPage, UpdateTLBEntry, Moves, locals, pool, mutexes, data,
          TypeOK, OneHolder, WantedMapped, VictimOut, Wanted, Victim, Critical,
          Evicts
<1>5. Owners' /\ FrameOut'
  BY PagerAssumption DEF Control, SyncPage, UpdateTLBEntry, Moves, locals, pool,
                         mutexes, data, TypeOK, OneHolder, VictimOut, Owners,
                         FrameOut, Victim, Critical, Evicts, Clear, Replacing
<1> QED
  BY <1>1, <1>2, <1>3, <1>4, <1>5 DEF Control

LEMMA ReleasePoolControl ==
  ASSUME NEW a \in Asids, NEW from \in {"leave", "abort"}, NEW to \in {"run", "fatal"}, Control, ReleasePool(a, from, to)
  PROVE  Control'
<1>1. TypeOK'
  <2>1. swapPoolSem # <<>>
    BY DEF ReleasePool, Moves, Control, OneHolder, Critical
  <2>2. swapPoolSem' \in Seq(Asids)
    BY <2>1, HeadTailProperties DEF ReleasePool, Control, TypeOK
  <2>3. pc' \in [Asids -> Locations]
    BY DEF ReleasePool, Moves, Control, TypeOK, Locations
  <2>4. fault' \in [Asids -> Pages] /\ frame' \in [Asids -> Frames]
    BY PagerAssumption, SMTT(30) DEF ReleasePool, Control, TypeOK, Pages, NoPage, Frames
  <2> QED
    BY <2>2, <2>3, <2>4 DEF ReleasePool, pool, maps, data, Control, TypeOK
<1>2. WaitersQueued' /\ OneHolder'
  <2>1. swapPoolSem # <<>> /\ swapPoolSem[1] = a /\ swapPoolSem \in Seq(Asids)
    BY DEF ReleasePool, Moves, Control, TypeOK, OneHolder, Critical
  <2>2. \A b \in Asids : b # a => pc[b] \notin Critical /\ pc'[b] = pc[b]
    BY <2>1 DEF ReleasePool, Moves, Control, TypeOK, OneHolder
  <2>3. pc'[a] \notin Critical \cup {"enter"}
    BY DEF ReleasePool, Moves, Control, TypeOK, Critical
  <2>4. OneHolder'
    BY <2>2, <2>3 DEF OneHolder
  <2>5. WaitersQueued'
    <3> SUFFICES ASSUME NEW b \in Asids, pc'[b] = "enter"
                 PROVE  \E i \in 1..Len(swapPoolSem') : swapPoolSem'[i] = b
      BY DEF WaitersQueued
    <3>1. b # a /\ pc[b] = "enter"
      BY <2>2, <2>3
    <3>2. PICK i \in 1..Len(swapPoolSem) : swapPoolSem[i] = b
      BY <3>1 DEF Control, WaitersQueued
    <3>3. i \in 2..Len(swapPoolSem)
      BY <2>1, <3>1, <3>2
    <3>4. /\ Len(swapPoolSem') = Len(swapPoolSem) - 1
          /\ \A j \in 1..Len(swapPoolSem') : swapPoolSem'[j] = swapPoolSem[j + 1]
      BY <2>1, HeadTailProperties DEF ReleasePool
    <3>5. i - 1 \in 1..Len(swapPoolSem') /\ swapPoolSem'[i - 1] = b
      BY <3>2, <3>3, <3>4, <2>1
    <3> QED
      BY <3>5
  <2> QED
    BY <2>4, <2>5
<1>3. FlashHeld'
  BY  DEF Control, ReleasePool, Moves, pool, maps, data, TypeOK, OneHolder,
          FlashHeld, Victim, Critical
<1>4. WantedMapped' /\ VictimOut'
  BY  DEF Control, ReleasePool, Moves, pool, maps, data, TypeOK, OneHolder,
          WantedMapped, VictimOut, Wanted, Victim, Critical, Evicts
<1>5. Owners' /\ FrameOut'
  BY PagerAssumption DEF Control, ReleasePool, Moves, pool, maps, data, TypeOK,
                         OneHolder, VictimOut, Owners, FrameOut, Victim, Critical,
                         Evicts, Clear, Replacing
<1> QED
  BY <1>1, <1>2, <1>3, <1>4, <1>5 DEF Control

LEMMA FatalFaultControl ==
  ASSUME NEW a \in Asids, Control, FatalFault(a)
  PROVE  Control'
<1>1. TypeOK'
  BY PagerAssumption DEF Control, FatalFault, Dies, locals, pool, mutexes, maps,
                         data, TypeOK, Locations, Critical, Pages, NoPage, Frames,
                         Wanted, Victim, Shell
<1>2. WaitersQueued' /\ OneHolder'
  BY  DEF Control, FatalFault, Dies, locals, pool, mutexes, maps, data, TypeOK,
          WaitersQueued, OneHolder, Critical
<1>3. FlashHeld'
  BY  DEF Control, FatalFault, Dies, locals, pool, mutexes, maps, data, TypeOK,
          OneHolder, FlashHeld, Victim, Critical
<1>4. WantedMapped' /\ VictimOut'
  BY  DEF Control, FatalFault, Dies, locals, pool, mutexes, maps, data, TypeOK,
          OneHolder, WantedMapped, VictimOut, Wanted, Victim, Critical, Evicts
<1>5. Owners' /\ FrameOut'
  BY PagerAssumption DEF Control, FatalFault, Dies, locals, pool, mutexes, maps,
                         data, TypeOK, OneHolder, VictimOut, Owners, FrameOut,
                         Victim, Critical, Evicts, Clear, Replacing
<1> QED
  BY <1>1, <1>2, <1>3, <1>4, <1>5 DEF Control

-----------------------------------------------------------------------------
(* What it keeps for the address spaces that are not damaged.               *)

(* Who is in the critical section is alone there.                           *)
LEMMA Alone ==
  ASSUME Control, NEW a \in Asids, pc[a] \in Critical
  PROVE  \A b \in Asids : b # a => pc[b] \notin Critical
BY DEF Control, OneHolder

LEMMA uTLB_RefillHandlerUndamaged ==
  ASSUME NEW m \in Mapped, IInv, uTLB_RefillHandler(m)
  PROVE  Undamaged'
<1>1. TlbHits'
  <2>1. PICK replaced \in Mapped :
          tlb' = [tlb EXCEPT ![replaced] = ABSENT, ![m] = pageTable[m]]
    BY DEF uTLB_RefillHandler
  <2>2. \A n \in Mapped : tlb'[n] \in {tlb[n], pageTable[n], ABSENT}
    BY <2>1 DEF IInv, Control, TypeOK
  <2>3. UNCHANGED <<pc, frame, swapPool, pageTable, damaged>>
    BY DEF uTLB_RefillHandler, locals, pool
  <2> QED
    BY <2>2, <2>3, PagerAssumption DEF IInv, Undamaged, TlbHits, Victim
<1>2. TlbMisses'
  BY PagerAssumption DEF IInv, Control, Undamaged, uTLB_RefillHandler, locals,
                         pool, mutexes, data, TypeOK, TlbMisses, UnbornOut, Wanted
<1>3. PoolExact'
  BY PagerAssumption DEF IInv, Control, Undamaged, uTLB_RefillHandler, locals,
                         pool, mutexes, data, TypeOK, OneHolder, PoolExact,
                         WantedOut, UnbornOut, Victim, Wanted, Critical, Replacing,
                         Clear
<1>4. WantedOut' /\ UnbornOut'
  BY PagerAssumption DEF IInv, Control, Undamaged, uTLB_RefillHandler, locals,
                         pool, mutexes, data, TypeOK, TlbMisses, WantedOut,
                         UnbornOut, Wanted, Replacing, Clear
<1>5. Filled'
  BY PagerAssumption DEF IInv, Control, Undamaged, uTLB_RefillHandler, locals,
                         pool, mutexes, data, TypeOK, OneHolder, FrameOut, Filled,
                         Wanted, Critical, Clear
<1>6. ShellLast'
  BY PagerAssumption DEF IInv, Control, Undamaged, uTLB_RefillHandler, locals,
                         pool, mutexes, data, TypeOK, ShellLast
<1> QED
  BY <1>1, <1>2, <1>3, <1>4, <1>5, <1>6 DEF Undamaged

LEMMA WriteUndamaged ==
  ASSUME NEW m \in Mapped, NEW v \in Values, IInv, Write(m[1], m[2], v)
  PROVE  Undamaged'
<1>1. TlbHits'
  BY PagerAssumption DEF IInv, Control, Undamaged, Write, locals, pool, mutexes,
                         maps, TypeOK, OneHolder, TlbHits, PoolExact, WantedOut,
                         UnbornOut, Victim, Wanted, Critical, Replacing
<1>2. TlbMisses'
  BY PagerAssumption DEF IInv, Control, Undamaged, Write, locals, pool, mutexes,
                         maps, TypeOK, TlbMisses, UnbornOut, Wanted
<1>3. PoolExact'
  BY PagerAssumption DEF IInv, Control, Undamaged, Write, locals, pool, mutexes,
                         maps, TypeOK, OneHolder, PoolExact, WantedOut, UnbornOut,
                         Victim, Wanted, Critical, Replacing, Clear
<1>4. WantedOut' /\ UnbornOut'
  BY PagerAssumption DEF IInv, Control, Undamaged, Write, locals, pool, mutexes,
                         maps, TypeOK, TlbMisses, WantedOut, UnbornOut, Wanted,
                         Replacing, Clear
<1>5. Filled'
  <2>1. m = <<m[1], m[2]>>
    BY PagerAssumption
  <2>2. /\ tlb[m] \in Frames /\ ram' = [ram EXCEPT ![tlb[m]] = v]
        /\ UNCHANGED <<pc, fault, frame, flash, damaged>>
    BY <2>1 DEF Write, locals
  <2> SUFFICES ASSUME NEW a \in Asids, a \notin damaged, pc[a] \in {"releaseRead", "map"}
               PROVE  ram'[frame[a]] = flash[Wanted(a)]
    BY <2>2 DEF Filled, Wanted
  <2>3. tlb[m] # frame[a]
    BY DEF IInv, Control, FrameOut, Clear
  <2> QED
    BY <2>2, <2>3 DEF IInv, Control, TypeOK, Undamaged, Filled
<1>6. ShellLast'
  BY PagerAssumption DEF IInv, Control, Undamaged, Write, locals, pool, mutexes,
                         maps, TypeOK, ShellLast
<1> QED
  BY <1>1, <1>2, <1>3, <1>4, <1>5, <1>6 DEF Undamaged

LEMMA PageFaultUndamaged ==
  ASSUME NEW m \in Mapped, IInv, PageFault(m[1], m[2])
  PROVE  Undamaged'
<1>1. TlbHits'
  BY PagerAssumption DEF IInv, Control, Undamaged, PageFault, Moves, pool, maps,
                         data, TypeOK, OneHolder, TlbHits, PoolExact, WantedOut,
                         UnbornOut, Victim, Wanted, Critical, Replacing
<1>2. TlbMisses'
  BY PagerAssumption DEF IInv, Control, Undamaged, PageFault, Moves, pool, maps,
                         data, TypeOK, TlbMisses, UnbornOut, Wanted
<1>3. PoolExact'
  BY PagerAssumption, SMTT(30) DEF IInv, Control, Undamaged, PageFault, Moves, pool, maps,
                         data, TypeOK, OneHolder, PoolExact, WantedOut, UnbornOut,
                         Victim, Wanted, Critical, Replacing, Clear
<1>4. WantedOut' /\ UnbornOut'
  <2>1. m = <<m[1], m[2]>> /\ m[1] \in Asids
    BY PagerAssumption
  <2>2. \A b \in Asids : Wanted(b)' = IF b = m[1] THEN m ELSE Wanted(b)
    BY <2>1 DEF PageFault, IInv, Control, TypeOK, Wanted
  <2>3. /\ pc[m[1]] = "run" /\ pc'[m[1]] = "enter" /\ tlb[m] = NULL
        /\ \A b \in Asids : b # m[1] => pc'[b] = pc[b]
        /\ UNCHANGED <<swapPool, pageTable, tlb, damaged>>
    BY <2>1 DEF PageFault, Moves, pool, maps, IInv, Control, TypeOK
  <2>4. m[1] \notin damaged => pageTable[m] = NULL
    BY <2>3 DEF IInv, Undamaged, TlbMisses
  <2>5. WantedOut'
    BY <2>2, <2>3, <2>4 DEF IInv, Undamaged, WantedOut
  <2>6. UnbornOut'
    BY <2>3 DEF IInv, Undamaged, UnbornOut
  <2> QED
    BY <2>5, <2>6
<1>5. Filled'
  BY PagerAssumption DEF IInv, Control, Undamaged, PageFault, Moves, pool, maps,
                         data, TypeOK, OneHolder, FrameOut, Filled, Wanted,
                         Critical, Clear
<1>6. ShellLast'
  BY PagerAssumption DEF IInv, Control, Undamaged, PageFault, Moves, pool, maps,
                         data, TypeOK, ShellLast
<1> QED
  BY <1>1, <1>2, <1>3, <1>4, <1>5, <1>6 DEF Undamaged

LEMMA TerminateUndamaged ==
  ASSUME NEW a \in Asids, IInv, Terminate(a)
  PROVE  Undamaged'
<1>1. TlbHits'
  BY PagerAssumption DEF IInv, Control, Undamaged, Terminate, Dies, locals, pool,
                         mutexes, maps, data, TypeOK, OneHolder, TlbHits,
                         PoolExact, WantedOut, UnbornOut, Victim, Wanted, Critical,
                         Replacing
<1>2. TlbMisses'
  BY PagerAssumption DEF IInv, Control, Undamaged, Terminate, Dies, locals, pool,
                         mutexes, maps, data, TypeOK, TlbMisses, UnbornOut, Wanted
<1>3. PoolExact'
  <2> SUFFICES ASSUME NEW m \in Mapped, NEW f \in Frames, m[1] \notin damaged', swapPool'[f] = m
               PROVE  \/ pageTable'[m] = f
                      \/ \E b \in Asids : /\ frame'[b] = f
                                          /\ pc'[b] \in Replacing \ {"failedWrite", "failedRead"}
    BY DEF PoolExact
  <2>1. a # Shell
    BY PagerAssumption DEF Terminate, Dies
  <2>2. \A b \in Asids : b # a => pc'[b] = pc[b]
    BY <2>1 DEF Terminate, Dies
  <2>3. pc[a] \notin Replacing
    BY DEF Terminate, Replacing, Clear
  <2>4. UNCHANGED <<frame, swapPool, pageTable, damaged>>
    BY <2>1 DEF Terminate, Dies, locals, pool, maps
  <2> QED
    BY <2>2, <2>3, <2>4 DEF IInv, Undamaged, PoolExact
<1>4. WantedOut' /\ UnbornOut'
  BY PagerAssumption DEF IInv, Control, Undamaged, Terminate, Dies, locals, pool,
                         mutexes, maps, data, TypeOK, TlbMisses, WantedOut,
                         UnbornOut, Wanted, Replacing, Clear
<1>5. Filled'
  BY PagerAssumption DEF IInv, Control, Undamaged, Terminate, Dies, locals, pool,
                         mutexes, maps, data, TypeOK, OneHolder, FrameOut, Filled,
                         Wanted, Critical, Clear
<1>6. ShellLast'
  BY PagerAssumption DEF IInv, Control, Undamaged, Terminate, Dies, locals, pool,
                         mutexes, maps, data, TypeOK, ShellLast
<1> QED
  BY <1>1, <1>2, <1>3, <1>4, <1>5, <1>6 DEF Undamaged

LEMMA ExecuteUndamaged ==
  ASSUME NEW a \in Asids, IInv, Execute(a)
  PROVE  Undamaged'
<1>1. TlbHits'
  BY PagerAssumption DEF IInv, Control, Undamaged, Execute, locals, pool, mutexes,
                         data, TypeOK, OneHolder, TlbHits, PoolExact, WantedOut,
                         UnbornOut, Victim, Wanted, Critical, Replacing
<1>2. TlbMisses'
  BY PagerAssumption DEF IInv, Control, Undamaged, Execute, locals, pool, mutexes,
                         data, TypeOK, TlbMisses, UnbornOut, Wanted
<1>3. PoolExact'
  <2> SUFFICES ASSUME NEW m \in Mapped, NEW f \in Frames, m[1] \notin damaged', swapPool[f] = m
               PROVE  \/ pageTable'[m] = f
                      \/ \E b \in Asids : /\ frame[b] = f
                                          /\ pc'[b] \in Replacing \ {"failedWrite", "failedRead"}
    BY DEF PoolExact, Execute, locals, pool
  <2>1. m[1] \notin damaged /\ (m[1] = a => pc[a] = "unborn")
    BY DEF Execute
  <2>2. m[1] # a
    BY <2>1 DEF IInv, Undamaged, UnbornOut
  <2>3. pageTable'[m] = pageTable[m]
    BY <2>2 DEF Execute, IInv, Control, TypeOK
  <2>4. \A b \in Asids : pc[b] \in Replacing => pc'[b] = pc[b]
    BY DEF Execute, Replacing, Clear, IInv, Control, TypeOK
  <2> QED
    BY <2>1, <2>3, <2>4 DEF IInv, Undamaged, PoolExact
<1>4. WantedOut' /\ UnbornOut'
  <2>1. \A b \in Asids : pc'[b] \in Replacing \cup {"enter", "unborn"} => b # a /\ pc'[b] = pc[b]
    BY DEF Execute, Replacing, Clear, IInv, Control, TypeOK
  <2>2. damaged \subseteq damaged' /\ UNCHANGED <<fault, swapPool, tlb>>
    BY DEF Execute, locals, pool
  <2>3. \A m \in Mapped : pageTable'[m] \in {pageTable[m], NULL}
    BY DEF Execute, IInv, Control, TypeOK
  <2>4. WantedOut'
    <3> SUFFICES ASSUME NEW b \in Asids, b \notin damaged', pc'[b] \in Replacing \cup {"enter"}
                 PROVE  pageTable'[Wanted(b)] = NULL
      BY <2>2 DEF WantedOut, Wanted
    <3>1. Wanted(b) \in Mapped
      BY <2>1 DEF IInv, Control, WantedMapped, Replacing, Clear, Critical
    <3>2. pageTable[Wanted(b)] = NULL
      BY <2>1, <2>2 DEF IInv, Undamaged, WantedOut
    <3> QED
      BY <2>3, <3>1, <3>2
  <2>5. UnbornOut'
    BY <2>1, <2>2, <2>3 DEF IInv, Undamaged, UnbornOut
  <2> QED
    BY <2>4, <2>5
<1>5. Filled'
  BY PagerAssumption DEF IInv, Control, Undamaged, Execute, locals, pool, mutexes,
                         data, TypeOK, OneHolder, FrameOut, Filled, Wanted,
                         Critical, Clear
<1>6. ShellLast'
  BY PagerAssumption DEF IInv, Control, Undamaged, Execute, locals, pool, mutexes,
                         data, TypeOK, ShellLast
<1> QED
  BY <1>1, <1>2, <1>3, <1>4, <1>5, <1>6 DEF Undamaged

LEMMA SelectFrameUndamaged ==
  ASSUME NEW a \in Asids, IInv, SelectFrame(a)
  PROVE  Undamaged'
<1>a. \A b \in Asids : b # a => pc[b] \notin Critical /\ pc'[b] = pc[b]
  BY DEF SelectFrame, Moves, IInv, Control, TypeOK, OneHolder
<1>b. /\ frame'[a] = swapFrameClock /\ swapFrameClock \in Frames
      /\ \A b \in Asids : b # a => frame'[b] = frame[b]
      /\ UNCHANGED <<fault, swapPool, tlb, damaged>>
      /\ pc[a] = "enter" /\ pc'[a] \in {"acquireRead", "flush"}
      /\ pc'[a] = "acquireRead" <=> swapPool[swapFrameClock] = NULL
  BY DEF SelectFrame, Moves, IInv, Control, TypeOK
<1>c. \A m \in Mapped :
        pageTable'[m] = IF m = swapPool[swapFrameClock] THEN NULL ELSE pageTable[m]
  BY PagerAssumption DEF SelectFrame, IInv, Control, TypeOK
<1>d. ~\E b \in Asids : pc[b] \in Replacing
  BY <1>a, <1>b DEF Replacing, Clear, Critical
<1>1. TlbHits'
  <2> SUFFICES ASSUME NEW m \in Mapped, m[1] \notin damaged, tlb[m] \in Frames
               PROVE  \/ pageTable'[m] = tlb[m]
                      \/ pc'[a] = "flush" /\ Victim(a)' = m /\ frame'[a] = tlb[m]
    BY <1>b DEF TlbHits
  <2>1. pageTable[m] = tlb[m]
    BY <1>d DEF IInv, Undamaged, TlbHits, Replacing
  <2>2. CASE m # swapPool[swapFrameClock]
    BY <1>c, <2>1, <2>2
  <2>3. CASE m = swapPool[swapFrameClock]
    <3>1. pageTable[m] = swapFrameClock
      BY <1>b, <1>d, <2>3 DEF IInv, Undamaged, PoolExact
    <3>2. pc'[a] = "flush"
      BY <1>b, <2>3, PagerAssumption
    <3> QED
      BY <1>b, <2>1, <2>3, <3>1, <3>2 DEF Victim
  <2> QED
    BY <2>2, <2>3
<1>2. TlbMisses'
  BY PagerAssumption DEF IInv, Control, Undamaged, SelectFrame, Moves, mutexes,
                         data, TypeOK, TlbMisses, UnbornOut, Wanted
<1>3. PoolExact'
  <2> SUFFICES ASSUME NEW m \in Mapped, NEW f \in Frames, m[1] \notin damaged, swapPool[f] = m
               PROVE  pageTable'[m] = f \/ f = swapFrameClock
    BY <1>b DEF PoolExact, Replacing, Clear
  <2>1. pageTable[m] = f
    BY <1>d DEF IInv, Undamaged, PoolExact
  <2>2. CASE m = swapPool[swapFrameClock]
    BY <1>b, <1>d, <2>1, <2>2 DEF IInv, Undamaged, PoolExact
  <2> QED
    BY <1>c, <2>1, <2>2
<1>4. WantedOut' /\ UnbornOut'
  <2>1. \A b \in Asids : pc'[b] \in Replacing \cup {"enter"} => pc[b] \in Replacing \cup {"enter"}
    BY <1>a, <1>b
  <2>2. \A b \in Asids : pc'[b] = "unborn" => pc[b] = "unborn"
    BY <1>a, <1>b
  <2>3. WantedOut'
    <3> SUFFICES ASSUME NEW b \in Asids, b \notin damaged, pc'[b] \in Replacing \cup {"enter"}
                 PROVE  pageTable'[Wanted(b)] = NULL
      BY <1>b DEF WantedOut, Wanted
    <3>1. Wanted(b) \in Mapped
      BY <2>1 DEF IInv, Control, WantedMapped, Replacing, Clear, Critical
    <3> QED
      BY <1>c, <2>1, <3>1 DEF IInv, Undamaged, WantedOut
  <2>4. UnbornOut'
    BY <1>b, <1>c, <2>2 DEF IInv, Undamaged, UnbornOut
  <2> QED
    BY <2>3, <2>4
<1>5. Filled'
  BY PagerAssumption DEF IInv, Control, Undamaged, SelectFrame, Moves, mutexes,
                         data, TypeOK, OneHolder, FrameOut, Filled, Wanted,
                         Critical, Clear
<1>6. ShellLast'
  BY PagerAssumption DEF IInv, Control, Undamaged, SelectFrame, Moves, mutexes,
                         data, TypeOK, ShellLast
<1> QED
  BY <1>1, <1>2, <1>3, <1>4, <1>5, <1>6 DEF Undamaged

LEMMA FlushVictimUndamaged ==
  ASSUME NEW a \in Asids, IInv, FlushVictim(a)
  PROVE  Undamaged'
<1>1. TlbHits'
  BY PagerAssumption DEF IInv, Control, Undamaged, FlushVictim, UpdateTLBEntry,
                         Moves, locals, pool, mutexes, data, TypeOK, OneHolder,
                         TlbHits, PoolExact, WantedOut, UnbornOut, Victim, Wanted,
                         Critical, Replacing
<1>2. TlbMisses'
  BY PagerAssumption DEF IInv, Control, Undamaged, FlushVictim, UpdateTLBEntry,
                         Moves, locals, pool, mutexes, data, TypeOK, TlbMisses,
                         UnbornOut, Wanted
<1>3. PoolExact'
  BY PagerAssumption DEF IInv, Control, Undamaged, FlushVictim, UpdateTLBEntry,
                         Moves, locals, pool, mutexes, data, TypeOK, OneHolder,
                         PoolExact, WantedOut, UnbornOut, Victim, Wanted, Critical,
                         Replacing, Clear
<1>4. WantedOut' /\ UnbornOut'
  BY PagerAssumption DEF IInv, Control, Undamaged, FlushVictim, UpdateTLBEntry,
                         Moves, locals, pool, mutexes, data, TypeOK, TlbMisses,
                         WantedOut, UnbornOut, Wanted, Replacing, Clear
<1>5. Filled'
  BY PagerAssumption DEF IInv, Control, Undamaged, FlushVictim, UpdateTLBEntry,
                         Moves, locals, pool, mutexes, data, TypeOK, OneHolder,
                         FrameOut, Filled, Wanted, Critical, Clear
<1>6. ShellLast'
  BY PagerAssumption DEF IInv, Control, Undamaged, FlushVictim, UpdateTLBEntry,
                         Moves, locals, pool, mutexes, data, TypeOK, ShellLast
<1> QED
  BY <1>1, <1>2, <1>3, <1>4, <1>5, <1>6 DEF Undamaged

LEMMA FlashMutexStepUndamaged ==
  ASSUME NEW a \in Asids, IInv, FlashMutexStep(a)
  PROVE  Undamaged'
<1>1. TlbHits'
  <2>1. UNCHANGED <<tlb, pageTable, frame, swapPool, damaged>>
    BY DEF FlashMutexStep, AcquireFlash, ReleaseFlash, locals, pool, maps
  <2>2. \A b \in Asids : pc[b] = "flush" => pc'[b] = "flush"
    BY DEF FlashMutexStep, AcquireFlash, ReleaseFlash, Moves, IInv, Control, TypeOK
  <2> QED
    BY <2>1, <2>2 DEF IInv, Undamaged, TlbHits, Victim
<1>2. TlbMisses'
  BY PagerAssumption, ZenonT(30) DEF IInv, Control, Undamaged, FlashMutexStep, AcquireFlash,
                         ReleaseFlash, Moves, locals, pool, maps, data, TypeOK,
                         TlbMisses, UnbornOut, Wanted
<1>3. PoolExact'
  BY PagerAssumption, SMTT(30) DEF IInv, Control, Undamaged, FlashMutexStep, AcquireFlash,
                         ReleaseFlash, Moves, locals, pool, maps, data, TypeOK,
                         OneHolder, PoolExact, WantedOut, UnbornOut, Victim,
                         Wanted, Critical, Replacing, Clear
<1>4. WantedOut' /\ UnbornOut'
  BY PagerAssumption, SMTT(30) DEF IInv, Control, Undamaged, FlashMutexStep, AcquireFlash,
                         ReleaseFlash, Moves, locals, pool, maps, data, TypeOK,
                         TlbMisses, WantedOut, UnbornOut, Wanted, Replacing, Clear
<1>5. Filled'
  BY PagerAssumption DEF IInv, Control, Undamaged, FlashMutexStep, AcquireFlash,
                         ReleaseFlash, Moves, locals, pool, maps, data, TypeOK,
                         OneHolder, FrameOut, Filled, Wanted, Critical, Clear
<1>6. ShellLast'
  BY PagerAssumption DEF IInv, Control, Undamaged, FlashMutexStep, AcquireFlash,
                         ReleaseFlash, Moves, locals, pool, maps, data, TypeOK,
                         ShellLast
<1> QED
  BY <1>1, <1>2, <1>3, <1>4, <1>5, <1>6 DEF Undamaged

LEMMA FlashWriteUndamaged ==
  ASSUME NEW a \in Asids, IInv, FlashWrite(a)
  PROVE  Undamaged'
<1>1. TlbHits'
  BY PagerAssumption DEF IInv, Control, Undamaged, FlashWrite, WriteBlock, Moves,
                         locals, pool, mutexes, maps, data, TypeOK, OneHolder,
                         TlbHits, PoolExact, WantedOut, UnbornOut, Victim, Wanted,
                         Critical, Replacing
<1>2. TlbMisses'
  BY PagerAssumption DEF IInv, Control, Undamaged, FlashWrite, WriteBlock, Moves,
                         locals, pool, mutexes, maps, data, TypeOK, TlbMisses,
                         UnbornOut, Wanted
<1>3. PoolExact'
  BY PagerAssumption DEF IInv, Control, Undamaged, FlashWrite, WriteBlock, Moves,
                         locals, pool, mutexes, maps, data, TypeOK, OneHolder,
                         PoolExact, WantedOut, UnbornOut, Victim, Wanted, Critical,
                         Replacing, Clear
<1>4. WantedOut' /\ UnbornOut'
  BY PagerAssumption DEF IInv, Control, Undamaged, FlashWrite, WriteBlock, Moves,
                         locals, pool, mutexes, maps, data, TypeOK, TlbMisses,
                         WantedOut, UnbornOut, Wanted, Replacing, Clear
<1>5. Filled'
  BY PagerAssumption DEF IInv, Control, Undamaged, FlashWrite, WriteBlock, Moves,
                         locals, pool, mutexes, maps, data, TypeOK, OneHolder,
                         FrameOut, Filled, Wanted, Critical, Clear
<1>6. ShellLast'
  <2>1. Victim(a)[1] \in Asids
    BY PagerAssumption DEF FlashWrite, IInv, Control, VictimOut, Evicts
  <2>2. pc'[Shell] = "dead" => pc[Shell] = "dead"
    BY PagerAssumption DEF FlashWrite, Moves, IInv, Control, TypeOK
  <2>3. damaged' \in {damaged, damaged \cup {Victim(a)[1]}}
    BY DEF FlashWrite
  <2> QED
    BY <2>1, <2>2, <2>3 DEF IInv, Undamaged, ShellLast
<1> QED
  BY <1>1, <1>2, <1>3, <1>4, <1>5, <1>6 DEF Undamaged

LEMMA FlashReadUndamaged ==
  ASSUME NEW a \in Asids, IInv, FlashRead(a)
  PROVE  Undamaged'
<1>1. TlbHits'
  BY PagerAssumption DEF IInv, Control, Undamaged, FlashRead, ReadBlock, Moves,
                         locals, pool, mutexes, maps, data, TypeOK, OneHolder,
                         TlbHits, PoolExact, WantedOut, UnbornOut, Victim, Wanted,
                         Critical, Replacing
<1>2. TlbMisses'
  BY PagerAssumption DEF IInv, Control, Undamaged, FlashRead, ReadBlock, Moves,
                         locals, pool, mutexes, maps, data, TypeOK, TlbMisses,
                         UnbornOut, Wanted
<1>3. PoolExact'
  BY PagerAssumption DEF IInv, Control, Undamaged, FlashRead, ReadBlock, Moves,
                         locals, pool, mutexes, maps, data, TypeOK, OneHolder,
                         PoolExact, WantedOut, UnbornOut, Victim, Wanted, Critical,
                         Replacing, Clear
<1>4. WantedOut' /\ UnbornOut'
  BY PagerAssumption DEF IInv, Control, Undamaged, FlashRead, ReadBlock, Moves,
                         locals, pool, mutexes, maps, data, TypeOK, TlbMisses,
                         WantedOut, UnbornOut, Wanted, Replacing, Clear
<1>5. Filled'
  <2>1. \A b \in Asids : b # a => pc'[b] \notin Critical
    BY Alone DEF FlashRead, Moves, IInv, Control, TypeOK, Critical
  <2>2. pc'[a] \in {"releaseRead", "map"} => ReadBlock(a)
    BY DEF FlashRead, Moves, IInv, Control, TypeOK
  <2>3. ReadBlock(a) => ram'[frame[a]] = flash'[Wanted(a)]
    BY DEF ReadBlock, IInv, Control, TypeOK
  <2>4. UNCHANGED <<fault, frame>>
    BY DEF FlashRead, locals
  <2> QED
    BY <2>1, <2>2, <2>3, <2>4 DEF Filled, Wanted, Critical
<1>6. ShellLast'
  <2>1. Victim(a) # NULL => Victim(a)[1] \in Asids
    BY PagerAssumption DEF Victim, IInv, Control, TypeOK
  <2>2. pc'[Shell] = "dead" => pc[Shell] = "dead"
    BY PagerAssumption DEF FlashRead, Moves, IInv, Control, TypeOK
  <2>3. damaged' = damaged \/ (Victim(a) # NULL /\ damaged' = damaged \cup {Victim(a)[1]})
    BY DEF FlashRead
  <2> QED
    BY <2>1, <2>2, <2>3 DEF IInv, Undamaged, ShellLast
<1> QED
  BY <1>1, <1>2, <1>3, <1>4, <1>5, <1>6 DEF Undamaged

LEMMA MapPageUndamaged ==
  ASSUME NEW a \in Asids, IInv, MapPage(a)
  PROVE  Undamaged'
<1>1. TlbHits'
  <2>1. /\ Wanted(a) \in Mapped /\ pc[a] = "map"
        /\ pageTable' = [pageTable EXCEPT ![Wanted(a)] = frame[a]]
        /\ UNCHANGED <<tlb, damaged>>
    BY DEF MapPage, Moves, IInv, Control, WantedMapped, Critical
  <2>2. \A b \in Asids : pc[b] # "flush"
    BY <2>1, Alone DEF IInv, Critical
  <2> SUFFICES ASSUME NEW m \in Mapped, m[1] \notin damaged, tlb[m] \in Frames
               PROVE  pageTable'[m] = tlb[m]
    BY <2>1 DEF TlbHits
  <2>3. pageTable[m] = tlb[m]
    BY <2>2 DEF IInv, Undamaged, TlbHits
  <2>4. m # Wanted(a)
    <3> SUFFICES ASSUME m = Wanted(a) PROVE FALSE
      OBVIOUS
    <3>1. a \notin damaged
      BY DEF Wanted
    <3> QED
      BY <2>1, <2>3, <3>1, PagerAssumption DEF IInv, Undamaged, WantedOut, Replacing, Clear
  <2> QED
    BY <2>1, <2>3, <2>4 DEF IInv, Control, TypeOK
<1>2. TlbMisses'
  BY PagerAssumption DEF IInv, Control, Undamaged, MapPage, Moves, locals, mutexes,
                         data, TypeOK, TlbMisses, UnbornOut, Wanted
<1>3. PoolExact'
  BY PagerAssumption DEF IInv, Control, Undamaged, MapPage, Moves, locals, mutexes,
                         data, TypeOK, OneHolder, PoolExact, WantedOut, UnbornOut,
                         Victim, Wanted, Critical, Replacing, Clear
<1>4. WantedOut' /\ UnbornOut'
  BY PagerAssumption DEF IInv, Control, Undamaged, MapPage, Moves, locals, mutexes,
                         data, TypeOK, TlbMisses, WantedOut, UnbornOut, Wanted,
                         Replacing, Clear
<1>5. Filled'
  BY PagerAssumption DEF IInv, Control, Undamaged, MapPage, Moves, locals, mutexes,
                         data, TypeOK, OneHolder, FrameOut, Filled, Wanted,
                         Critical, Clear
<1>6. ShellLast'
  BY PagerAssumption DEF IInv, Control, Undamaged, MapPage, Moves, locals, mutexes,
                         data, TypeOK, ShellLast
<1> QED
  BY <1>1, <1>2, <1>3, <1>4, <1>5, <1>6 DEF Undamaged

LEMMA SyncPageUndamaged ==
  ASSUME NEW a \in Asids, IInv, SyncPage(a)
  PROVE  Undamaged'
<1>1. TlbHits'
  <2>1. \A m \in Mapped : tlb'[m] \in {tlb[m], pageTable[m]}
    BY DEF SyncPage, UpdateTLBEntry, IInv, Control, TypeOK
  <2>2. \A b \in Asids : pc[b] # "flush"
    BY Alone DEF SyncPage, Moves, IInv, Critical
  <2>3. UNCHANGED <<pageTable, damaged>>
    BY DEF SyncPage
  <2> QED
    BY <2>1, <2>2, <2>3 DEF IInv, Undamaged, TlbHits
<1>2. TlbMisses'
  BY PagerAssumption DEF IInv, Control, Undamaged, SyncPage, UpdateTLBEntry, Moves,
                         locals, pool, mutexes, data, TypeOK, TlbMisses, UnbornOut,
                         Wanted
<1>3. PoolExact'
  <2>1. UNCHANGED <<pageTable, swapPool, frame, damaged>>
    BY DEF SyncPage, locals, pool
  <2>2. \A b \in Asids : pc[b] \notin Replacing
    BY Alone DEF SyncPage, Moves, IInv, Critical, Replacing, Clear
  <2> QED
    BY <2>1, <2>2 DEF IInv, Undamaged, PoolExact
<1>4. WantedOut' /\ UnbornOut'
  BY PagerAssumption DEF IInv, Control, Undamaged, SyncPage, UpdateTLBEntry, Moves,
                         locals, pool, mutexes, data, TypeOK, TlbMisses, WantedOut,
                         UnbornOut, Wanted, Replacing, Clear
<1>5. Filled'
  BY PagerAssumption DEF IInv, Control, Undamaged, SyncPage, UpdateTLBEntry, Moves,
                         locals, pool, mutexes, data, TypeOK, OneHolder, FrameOut,
                         Filled, Wanted, Critical, Clear
<1>6. ShellLast'
  BY PagerAssumption DEF IInv, Control, Undamaged, SyncPage, UpdateTLBEntry, Moves,
                         locals, pool, mutexes, data, TypeOK, ShellLast
<1> QED
  BY <1>1, <1>2, <1>3, <1>4, <1>5, <1>6 DEF Undamaged

LEMMA ReleasePoolUndamaged ==
  ASSUME NEW a \in Asids, NEW from \in {"leave", "abort"}, NEW to \in {"run", "fatal"}, IInv, ReleasePool(a, from, to)
  PROVE  Undamaged'
<1>1. TlbHits'
  BY PagerAssumption DEF IInv, Control, Undamaged, ReleasePool, Moves, pool, maps,
                         data, TypeOK, OneHolder, TlbHits, PoolExact, WantedOut,
                         UnbornOut, Victim, Wanted, Critical, Replacing
<1>2. TlbMisses'
  BY PagerAssumption DEF IInv, Control, Undamaged, ReleasePool, Moves, pool, maps,
                         data, TypeOK, TlbMisses, UnbornOut, Wanted
<1>3. PoolExact'
  BY PagerAssumption DEF IInv, Control, Undamaged, ReleasePool, Moves, pool, maps,
                         data, TypeOK, OneHolder, PoolExact, WantedOut, UnbornOut,
                         Victim, Wanted, Critical, Replacing, Clear
<1>4. WantedOut' /\ UnbornOut'
  BY PagerAssumption DEF IInv, Control, Undamaged, ReleasePool, Moves, pool, maps,
                         data, TypeOK, TlbMisses, WantedOut, UnbornOut, Wanted,
                         Replacing, Clear
<1>5. Filled'
  BY PagerAssumption DEF IInv, Control, Undamaged, ReleasePool, Moves, pool, maps,
                         data, TypeOK, OneHolder, FrameOut, Filled, Wanted,
                         Critical, Clear
<1>6. ShellLast'
  BY PagerAssumption DEF IInv, Control, Undamaged, ReleasePool, Moves, pool, maps,
                         data, TypeOK, ShellLast
<1> QED
  BY <1>1, <1>2, <1>3, <1>4, <1>5, <1>6 DEF Undamaged

LEMMA FatalFaultUndamaged ==
  ASSUME NEW a \in Asids, IInv, FatalFault(a)
  PROVE  Undamaged'
<1>1. TlbHits'
  BY PagerAssumption DEF IInv, Control, Undamaged, FatalFault, Dies, locals, pool,
                         mutexes, maps, data, TypeOK, OneHolder, TlbHits,
                         PoolExact, WantedOut, UnbornOut, Victim, Wanted, Critical,
                         Replacing
<1>2. TlbMisses'
  BY PagerAssumption DEF IInv, Control, Undamaged, FatalFault, Dies, locals, pool,
                         mutexes, maps, data, TypeOK, TlbMisses, UnbornOut, Wanted
<1>3. PoolExact'
  <2> SUFFICES ASSUME NEW m \in Mapped, NEW f \in Frames, m[1] \notin damaged', swapPool'[f] = m
               PROVE  \/ pageTable'[m] = f
                      \/ \E b \in Asids : /\ frame'[b] = f
                                          /\ pc'[b] \in Replacing \ {"failedWrite", "failedRead"}
    BY DEF PoolExact
  <2>1. a # Shell
    BY PagerAssumption DEF FatalFault, Dies
  <2>2. \A b \in Asids : b # a => pc'[b] = pc[b]
    BY <2>1 DEF FatalFault, Dies
  <2>3. pc[a] \notin Replacing
    BY DEF FatalFault, Replacing, Clear
  <2>4. UNCHANGED <<frame, swapPool, pageTable, damaged>>
    BY <2>1 DEF FatalFault, Dies, locals, pool, maps
  <2> QED
    BY <2>2, <2>3, <2>4 DEF IInv, Undamaged, PoolExact
<1>4. WantedOut' /\ UnbornOut'
  BY PagerAssumption DEF IInv, Control, Undamaged, FatalFault, Dies, locals, pool,
                         mutexes, maps, data, TypeOK, TlbMisses, WantedOut,
                         UnbornOut, Wanted, Replacing, Clear
<1>5. Filled'
  BY PagerAssumption DEF IInv, Control, Undamaged, FatalFault, Dies, locals, pool,
                         mutexes, maps, data, TypeOK, OneHolder, FrameOut, Filled,
                         Wanted, Critical, Clear
<1>6. ShellLast'
  BY PagerAssumption DEF IInv, Control, Undamaged, FatalFault, Dies, locals, pool,
                         mutexes, maps, data, TypeOK, ShellLast
<1> QED
  BY <1>1, <1>2, <1>3, <1>4, <1>5, <1>6 DEF Undamaged

-----------------------------------------------------------------------------
(* The invariant holds at the start, and every step keeps it.               *)
LEMMA IInvInit == Init => IInv
<1> SUFFICES ASSUME Init PROVE IInv
  OBVIOUS
<1>1. TypeOK
  <2>1. NoPage \in Pages /\ 0 \in Frames /\ Pages # {}
    BY PagerAssumption DEF Pages, NoPage, Frames
  <2> QED
    BY <2>1, PagerAssumption DEF Init, TypeOK, Locations
<1>2. \A a \in Asids : pc[a] \notin Critical \cup {"enter", "dead"}
  BY DEF Init, Critical
<1>3. \A a \in Asids : pc[a] \notin Evicts \cup Replacing \cup Clear
  BY <1>2 DEF Evicts, Replacing, Clear, Critical
<1>4. /\ \A m \in Mapped : pageTable[m] = NULL /\ tlb[m] = ABSENT
      /\ \A m \in Mapped, f \in Frames : swapPool[f] # m
  BY PagerAssumption DEF Init
<1>5. NULL \notin Frames /\ ABSENT \notin Frames /\ NULL # ABSENT /\ Shell \in Asids
  BY PagerAssumption
<1>6. Control
  BY <1>1, <1>2, <1>3, <1>4, <1>5
     DEF Control, WaitersQueued, OneHolder, FlashHeld, WantedMapped, VictimOut,
         Owners, FrameOut, Critical
<1>7. TlbHits /\ TlbMisses /\ PoolExact /\ WantedOut /\ UnbornOut /\ ShellLast
  BY <1>2, <1>3, <1>4, <1>5
     DEF TlbHits, TlbMisses, PoolExact, WantedOut, UnbornOut, ShellLast
<1>8. Filled
  BY <1>2 DEF Filled, Critical
<1> QED
  BY <1>6, <1>7, <1>8 DEF IInv, Undamaged

LEMMA IInvStep == IInv /\ [Next]_vars => IInv'
<1> SUFFICES ASSUME IInv, [Next]_vars PROVE IInv'
  OBVIOUS
<1> USE DEF IInv
<1>1. ASSUME NEW m \in Mapped, uTLB_RefillHandler(m) PROVE IInv'
  BY <1>1, uTLB_RefillHandlerControl, uTLB_RefillHandlerUndamaged
<1>2. ASSUME NEW m \in Mapped, NEW v \in Values, Write(m[1], m[2], v) PROVE IInv'
  BY <1>2, WriteControl, WriteUndamaged
<1>3. ASSUME NEW m \in Mapped, PageFault(m[1], m[2]) PROVE IInv'
  BY <1>3, PageFaultControl, PageFaultUndamaged
<1>4. ASSUME NEW a \in Asids, Terminate(a) PROVE IInv'
  BY <1>4, TerminateControl, TerminateUndamaged
<1>5. ASSUME NEW a \in Asids, Execute(a) PROVE IInv'
  BY <1>5, ExecuteControl, ExecuteUndamaged
<1>6. ASSUME NEW a \in Asids, pager(a) PROVE IInv'
  <2>1. CASE SelectFrame(a)
    BY <2>1, SelectFrameControl, SelectFrameUndamaged
  <2>2. CASE FlushVictim(a)
    BY <2>2, FlushVictimControl, FlushVictimUndamaged
  <2>3. CASE FlashMutexStep(a)
    BY <2>3, FlashMutexStepControl, FlashMutexStepUndamaged
  <2>4. CASE FlashWrite(a)
    BY <2>4, FlashWriteControl, FlashWriteUndamaged
  <2>5. CASE FlashRead(a)
    BY <2>5, FlashReadControl, FlashReadUndamaged
  <2>6. CASE MapPage(a)
    BY <2>6, MapPageControl, MapPageUndamaged
  <2>7. CASE SyncPage(a)
    BY <2>7, SyncPageControl, SyncPageUndamaged
  <2>8. CASE Leave(a)
    BY <2>8, ReleasePoolControl, ReleasePoolUndamaged DEF Leave
  <2>9. CASE Abort(a)
    BY <2>9, ReleasePoolControl, ReleasePoolUndamaged DEF Abort
  <2>10. CASE FatalFault(a)
    BY <2>10, FatalFaultControl, FatalFaultUndamaged
  <2> QED
    BY <1>6, <2>1, <2>2, <2>3, <2>4, <2>5, <2>6, <2>7, <2>8, <2>9, <2>10 DEF pager
<1>7. CASE UNCHANGED vars
  <2>1. UNCHANGED <<pc, fault, frame, swapPool, swapFrameClock, swapPoolSem, flashMutex,
                    pageTable, tlb, flash, ram, damaged>>
    BY <1>7 DEF vars, locals, pool, mutexes, maps, data
  <2>2. Control'
    BY <2>1 DEF Control, TypeOK, WaitersQueued, OneHolder, FlashHeld, WantedMapped,
                VictimOut, Owners, FrameOut, Victim, Wanted
  <2>3. Undamaged'
    BY <2>1 DEF Undamaged, TlbHits, TlbMisses, PoolExact, WantedOut, UnbornOut, Filled,
                ShellLast, Victim, Wanted
  <2> QED
    BY <2>2, <2>3
<1> QED
  BY <1>1, <1>2, <1>3, <1>4, <1>5, <1>6, <1>7 DEF Next, Stopped

LEMMA Invariant == Spec => []IInv
BY IInvInit, IInvStep, PTL DEF Spec

(* The types, whatever U-procs do.                                          *)
THEOREM TypeCorrect == Spec => []TypeOK
<1>1. IInv => TypeOK
  BY DEF IInv, Control
<1> QED
  BY <1>1, Invariant, PTL

(* No two pages are accessible in one frame (vmSupport.c:341-347).          *)
THEOREM Apart == Spec => []FramesApart
<1>1. IInv => FramesApart
  BY DEF IInv, Control, Owners, FramesApart
<1> QED
  BY <1>1, Invariant, PTL

LEMMA CurrentState == IInv => HitsAreCurrent
<1> SUFFICES ASSUME IInv, NEW m \in Mapped, m[1] \notin damaged, tlb[m] \in Frames
             PROVE  ram[tlb[m]] = Contents(m)
  BY DEF HitsAreCurrent
<1>1. CASE pageTable[m] = tlb[m]
  BY <1>1 DEF Contents
<1>2. ASSUME NEW a \in Asids, pc[a] = "flush", Victim(a) = m, frame[a] = tlb[m]
      PROVE  ram[tlb[m]] = Contents(m)
  <2>1. swapPoolSem # <<>> /\ Head(swapPoolSem) = a /\ pageTable[m] = NULL
    BY <1>2 DEF IInv, Control, OneHolder, VictimOut, Critical, Evicts
  <2> QED
    BY <1>2, <2>1, PagerAssumption DEF Contents, Evicting
<1> QED
  BY <1>1, <1>2 DEF IInv, Undamaged, TlbHits

(* A hit in the TLB finds the contents of the page, the window between the  *)
(* page table and the TLB included (vmSupport.c:308-313).                   *)
THEOREM Current == Spec => []HitsAreCurrent
BY CurrentState, Invariant, PTL

-----------------------------------------------------------------------------
(* The pages are a memory.  A step that is not a store leaves the contents  *)
(* of every page as they are, but for those of damaged address spaces.      *)
Kept == /\ damaged \subseteq damaged'
        /\ \A m \in Mapped : m[1] \notin damaged' => Contents(m)' = Contents(m)

LEMMA CurrentNext == IInv' => HitsAreCurrent'
BY CurrentState, PTL

LEMMA ContentsType ==
  ASSUME Control, NEW m \in Mapped
  PROVE  Contents(m) \in Values
<1>1. swapPoolSem # <<>> => Head(swapPoolSem) \in Asids
  BY DEF Control, TypeOK
<1> QED
  BY <1>1 DEF Control, TypeOK, Contents

LEMMA KeptIsLoss ==
  ASSUME IInv', Kept
  PROVE  Memory!Next
<1>1. PICK A \in SUBSET Asids : damaged' = A
  BY DEF IInv, Control, TypeOK
<1>2. Memory!Lose(A)
  BY <1>1 DEF Memory!Lose, Held, Kept
<1> QED
  BY <1>2 DEF Memory!Next

(* The contents of a page can be told from where it is.                     *)
LEMMA KeepContents ==
  ASSUME Control, Control', NEW m \in Mapped,
         pageTable'[m] = pageTable[m],
         pageTable[m] \in Frames => ram'[pageTable[m]] = ram[pageTable[m]],
         flash'[m] = flash[m],
         \A a \in Asids : Evicting(a, m)' <=> Evicting(a, m),
         \A a \in Asids : Evicting(a, m) =>
                            frame'[a] = frame[a] /\ ram'[frame[a]] = ram[frame[a]]
  PROVE  Contents(m)' = Contents(m)
<1>1. /\ swapPoolSem # <<>> => Head(swapPoolSem) \in Asids
      /\ swapPoolSem' # <<>> => Head(swapPoolSem') \in Asids
  BY DEF Control, TypeOK
<1>2. CASE pageTable[m] \in Frames
  BY <1>2 DEF Contents
<1>3. ASSUME pageTable[m] \notin Frames, NEW a \in Asids, Evicting(a, m)
      PROVE  Contents(m)' = Contents(m)
  <2>1. swapPoolSem # <<>> /\ Head(swapPoolSem) = a
    BY <1>3 DEF Control, OneHolder, Evicting, Critical
  <2>2. swapPoolSem' # <<>> /\ Head(swapPoolSem') = a
    BY <1>3 DEF Control, OneHolder, Evicting, Critical
  <2>3. Contents(m) = ram[frame[a]]
    BY <1>3, <2>1 DEF Contents
  <2>4. Evicting(a, m)'
    BY <1>3
  <2>5. Contents(m)' = ram'[frame'[a]]
    BY <1>3, <2>2, <2>4 DEF Contents
  <2> QED
    BY <1>3, <2>3, <2>5
<1>4. CASE pageTable[m] \notin Frames /\ \A a \in Asids : ~Evicting(a, m)
  <2>1. Contents(m) = flash[m]
    BY <1>1, <1>4 DEF Contents
  <2>2. \A a \in Asids : ~Evicting(a, m)'
    BY <1>4
  <2>3. Contents(m)' = flash'[m]
    BY <1>1, <1>4, <2>2 DEF Contents
  <2> QED
    BY <2>1, <2>3
<1> QED
  BY <1>2, <1>3, <1>4

(* The same for a step that moves no data.                                  *)
LEMMA NothingMoved ==
  ASSUME Control, Control', UNCHANGED <<pageTable, ram, flash>>,
         \A a \in Asids, m \in Mapped : Evicting(a, m)' <=> Evicting(a, m),
         \A a \in Asids : frame'[a] # frame[a] => pc[a] \notin Evicts,
         damaged \subseteq damaged'
  PROVE  Kept
<1> SUFFICES ASSUME NEW m \in Mapped PROVE Contents(m)' = Contents(m)
  BY DEF Kept
<1>1. \A a \in Asids : Evicting(a, m) => frame'[a] = frame[a]
  BY DEF Evicting, Evicts
<1> QED
  BY <1>1, KeepContents

LEMMA WriteImplements ==
  ASSUME IInv, IInv', NEW m \in Mapped, NEW v \in Values, Write(m[1], m[2], v)
  PROVE  Memory!Next
<1>1. m = <<m[1], m[2]>>
  BY PagerAssumption
<1>2. /\ pc[m[1]] = "run" /\ tlb[m] \in Frames /\ ram' = [ram EXCEPT ![tlb[m]] = v]
      /\ UNCHANGED <<pc, frame, swapPool, swapPoolSem, pageTable, flash, damaged>>
  BY <1>1 DEF Write, locals, pool, mutexes, maps
<1>3. ASSUME NEW n \in Mapped, n # m PROVE Contents(n)' = Contents(n)
  <2>1. \A a \in Asids : Evicting(a, n)' <=> Evicting(a, n)
    BY <1>2 DEF Evicting, Victim
  <2>2. pageTable[n] \in Frames => pageTable[n] # tlb[m]
    BY <1>2, <1>3 DEF IInv, Control, Owners
  <2>3. \A a \in Asids : Evicting(a, n) => frame[a] # tlb[m]
    BY <1>2, <1>3 DEF IInv, Control, Owners, Evicting, Victim
  <2>4. \A f \in Frames : f # tlb[m] => ram'[f] = ram[f]
    BY <1>2 DEF IInv, Control, TypeOK
  <2>5. \A a \in Asids : frame[a] \in Frames
    BY DEF IInv, Control, TypeOK
  <2> QED
    BY <1>2, <2>1, <2>2, <2>3, <2>4, <2>5, KeepContents DEF IInv
<1>4. CASE m[1] \in damaged
  <2>1. Kept
    BY <1>2, <1>3, <1>4 DEF Kept
  <2> QED
    BY <2>1, KeptIsLoss
<1>5. CASE m[1] \notin damaged
  <2>1. HitsAreCurrent'
    BY CurrentNext
  <2>2. tlb' = tlb
    BY DEF Write, maps
  <2>3. Contents(m)' = v
    BY <1>2, <1>5, <2>1, <2>2 DEF HitsAreCurrent, IInv, Control, TypeOK
  <2>4. Contents(m) # LOST
    BY ContentsType, PagerAssumption DEF IInv
  <2>5. Memory!Write(m, v)
    BY <1>2, <1>3, <1>5, <2>3, <2>4 DEF Memory!Write, Held
  <2> QED
    BY <2>5 DEF Memory!Next
<1> QED
  BY <1>4, <1>5

LEMMA ExecuteImplements ==
  ASSUME IInv, IInv', NEW a \in Asids, Execute(a)
  PROVE  Kept
<1> SUFFICES ASSUME NEW m \in Mapped, m[1] \notin damaged' PROVE Contents(m)' = Contents(m)
  BY DEF Execute, Kept
<1>1. pageTable'[m] = pageTable[m]
  BY DEF Execute, IInv, Control, TypeOK, Undamaged, UnbornOut
<1>2. \A b \in Asids : Evicting(b, m)' <=> Evicting(b, m)
  BY DEF Execute, locals, pool, Evicting, Victim, IInv, Control, TypeOK
<1>3. UNCHANGED <<frame, ram, flash>>
  BY DEF Execute, locals, data
<1> QED
  BY <1>1, <1>2, <1>3, KeepContents DEF IInv

(* With the shell every address space is lost; the end of another U-proc    *)
(* leaves the memory alone.                                                 *)
LEMMA DiesImplements ==
  ASSUME IInv, IInv', NEW a \in Asids, Dies(a), pc[a] \notin Critical,
         UNCHANGED <<frame, swapPool, maps, data>>
  PROVE  Kept
<1>1. CASE a = Shell
  BY <1>1, PagerAssumption DEF Dies, Kept, IInv, Control, TypeOK
<1>2. CASE a # Shell
  <2>1. \A b \in Asids, m \in Mapped : Evicting(b, m)' <=> Evicting(b, m)
    BY <1>2 DEF Dies, Evicting, Victim, Critical, IInv, Control, TypeOK
  <2>2. damaged' = damaged
    BY <1>2 DEF Dies
  <2> QED
    BY <2>1, <2>2, NothingMoved DEF IInv, maps, data
<1> QED
  BY <1>1, <1>2

LEMMA SelectFrameImplements ==
  ASSUME IInv, IInv', NEW a \in Asids, SelectFrame(a)
  PROVE  Kept
<1> SUFFICES ASSUME NEW m \in Mapped, m[1] \notin damaged' PROVE Contents(m)' = Contents(m)
  BY DEF SelectFrame, Kept
<1>1. /\ frame' = [frame EXCEPT ![a] = swapFrameClock] /\ swapFrameClock \in Frames
      /\ pc[a] = "enter" /\ Head(swapPoolSem) = a
      /\ UNCHANGED <<swapPool, swapPoolSem, flash, ram, damaged>>
  BY DEF SelectFrame, Moves, mutexes, data, IInv, Control, TypeOK
<1>2. \A b \in Asids : pc[b] \notin Critical
  BY <1>1 DEF IInv, Control, OneHolder, Critical
<1>3. \A b \in Asids : ~Evicting(b, m) /\ pc[b] \notin Replacing
  BY <1>2 DEF Evicting, Replacing, Clear, Critical
<1>4. \A b \in Asids : b # a => pc'[b] = pc[b]
  BY DEF SelectFrame, Moves, IInv, Control, TypeOK
<1>5. CASE swapPool[swapFrameClock] # m
  <2>1. pageTable'[m] = pageTable[m]
    BY <1>5 DEF SelectFrame, IInv, Control, TypeOK
  <2>2. \A b \in Asids : ~Evicting(b, m)'
    BY <1>1, <1>3, <1>4, <1>5 DEF Evicting, Victim, IInv, Control, TypeOK
  <2> QED
    BY <1>1, <1>3, <2>1, <2>2, KeepContents DEF IInv
<1>6. CASE swapPool[swapFrameClock] = m
  <2>1. m # NULL
    BY PagerAssumption
  <2>2. pc'[a] = "flush" /\ pageTable'[m] = NULL
    BY <1>6, <2>1 DEF SelectFrame, Moves, IInv, Control, TypeOK
  <2>3. frame'[a] = swapFrameClock /\ Evicting(a, m)'
    BY <1>1, <1>6, <2>2 DEF Evicting, Victim, IInv, Control, TypeOK
  <2>4. swapPoolSem' # <<>> /\ Head(swapPoolSem') = a
    BY <2>2 DEF IInv, Control, OneHolder, Critical
  <2>5. Contents(m)' = ram[swapFrameClock]
    BY <1>1, <2>2, <2>3, <2>4, PagerAssumption DEF Contents
  <2>6. pageTable[m] = swapFrameClock
    BY <1>1, <1>3, <1>6 DEF IInv, Undamaged, PoolExact
  <2> QED
    BY <1>1, <2>5, <2>6 DEF Contents
<1> QED
  BY <1>5, <1>6

LEMMA FlashWriteImplements ==
  ASSUME IInv, IInv', NEW a \in Asids, FlashWrite(a)
  PROVE  Kept
<1> SUFFICES ASSUME NEW m \in Mapped, m[1] \notin damaged' PROVE Contents(m)' = Contents(m)
  BY DEF FlashWrite, Kept
<1>1. /\ pc[a] = "write" /\ Victim(a) \in Mapped
      /\ UNCHANGED <<frame, swapPool, swapPoolSem, pageTable, ram>>
  BY DEF FlashWrite, Moves, WriteBlock, locals, pool, mutexes, maps, data, IInv, Control,
         VictimOut, Evicts
<1>2. \A b \in Asids : b # a => pc[b] \notin Critical /\ pc'[b] = pc[b]
  <2>1. pc[a] \in Critical /\ Control
    BY <1>1 DEF IInv, Critical
  <2> QED
    BY <2>1, Alone DEF FlashWrite, Moves, Control, TypeOK
<1>3. pc'[a] \in {"releaseWrite", "failedWrite"}
  BY DEF FlashWrite, Moves, IInv, Control, TypeOK
<1>4. CASE Victim(a) # m
  <2>1. \A b \in Asids : ~Evicting(b, m) /\ ~Evicting(b, m)'
    BY <1>1, <1>2, <1>3, <1>4 DEF Evicting, Victim, Critical
  <2>2. flash'[m] = flash[m]
    BY <1>1, <1>4 DEF FlashWrite, WriteBlock, data, IInv, Control, TypeOK
  <2> QED
    BY <1>1, <2>1, <2>2, KeepContents DEF IInv
<1>5. CASE Victim(a) = m
  <2>1. WriteBlock(a)
    BY <1>5 DEF FlashWrite
  <2>2. flash'[m] = ram[frame[a]]
    BY <1>1, <1>5, <2>1 DEF WriteBlock, IInv, Control, TypeOK
  <2>3. swapPoolSem # <<>> /\ Head(swapPoolSem) = a /\ pageTable[m] = NULL
    BY <1>1, <1>5 DEF IInv, Control, OneHolder, VictimOut, Critical, Evicts
  <2>4. ~Evicting(a, m)'
    BY <1>3 DEF Evicting
  <2>5. Contents(m) = ram[frame[a]]
    BY <1>1, <1>5, <2>3, PagerAssumption DEF Contents, Evicting
  <2>6. Contents(m)' = flash'[m]
    BY <1>1, <2>3, <2>4, PagerAssumption DEF Contents
  <2> QED
    BY <2>2, <2>5, <2>6
<1> QED
  BY <1>4, <1>5

LEMMA FlashReadImplements ==
  ASSUME IInv, IInv', NEW a \in Asids, FlashRead(a)
  PROVE  Kept
<1> SUFFICES ASSUME NEW m \in Mapped PROVE Contents(m)' = Contents(m)
  BY DEF FlashRead, Kept
<1>1. /\ pc[a] = "read"
      /\ UNCHANGED <<frame, swapPool, swapPoolSem, pageTable, flash>>
  BY DEF FlashRead, Moves, ReadBlock, locals, pool, mutexes, maps, data
<1>2. \A b \in Asids : b # a => pc[b] \notin Critical /\ pc'[b] = pc[b]
  <2>1. pc[a] \in Critical /\ Control
    BY <1>1 DEF IInv, Critical
  <2> QED
    BY <2>1, Alone DEF FlashRead, Moves, Control, TypeOK
<1>3. pc'[a] \in {"releaseRead", "failedRead"}
  BY DEF FlashRead, Moves, IInv, Control, TypeOK
<1>4. \A b \in Asids : ~Evicting(b, m) /\ ~Evicting(b, m)'
  BY <1>1, <1>2, <1>3 DEF Evicting, Critical
<1>5. pageTable[m] # frame[a]
  BY <1>1 DEF IInv, Control, FrameOut, Replacing, Clear
<1>6. \A f \in Frames : f # frame[a] => ram'[f] = ram[f]
  BY DEF FlashRead, ReadBlock, data, IInv, Control, TypeOK
<1> QED
  BY <1>1, <1>4, <1>5, <1>6, KeepContents DEF IInv

LEMMA MapPageImplements ==
  ASSUME IInv, IInv', NEW a \in Asids, MapPage(a)
  PROVE  Kept
<1> SUFFICES ASSUME NEW m \in Mapped, m[1] \notin damaged PROVE Contents(m)' = Contents(m)
  BY DEF MapPage, Kept
<1>1. /\ pc[a] = "map" /\ pc'[a] = "sync" /\ Wanted(a) \in Mapped
      /\ UNCHANGED <<frame, swapPoolSem, ram, flash, damaged>>
  BY  DEF MapPage, Moves, locals, mutexes, data, IInv, Control, TypeOK,
          WantedMapped, Critical
<1>2. \A b \in Asids : b # a => pc[b] \notin Critical /\ pc'[b] = pc[b]
  <2>1. pc[a] \in Critical /\ Control
    BY <1>1 DEF IInv, Critical
  <2> QED
    BY <2>1, Alone DEF MapPage, Moves, Control, TypeOK
<1>3. \A b \in Asids : ~Evicting(b, m) /\ ~Evicting(b, m)'
  BY <1>1, <1>2 DEF Evicting, Critical
<1>4. CASE Wanted(a) # m
  <2>1. pageTable'[m] = pageTable[m]
    BY <1>4 DEF MapPage, IInv, Control, TypeOK
  <2> QED
    BY <1>1, <1>3, <2>1, KeepContents DEF IInv
<1>5. CASE Wanted(a) = m
  <2>1. pageTable[m] = NULL /\ ram[frame[a]] = flash[m]
    BY <1>1, <1>5 DEF Wanted, IInv, Undamaged, WantedOut, Filled, Replacing, Clear
  <2>2. swapPoolSem # <<>> => Head(swapPoolSem) \in Asids
    BY DEF IInv, Control, TypeOK
  <2>3. Contents(m) = flash[m]
    BY <1>3, <2>1, <2>2, PagerAssumption DEF Contents
  <2>4. pageTable'[m] = frame[a] /\ frame[a] \in Frames
    BY <1>1, <1>5 DEF MapPage, IInv, Control, TypeOK
  <2>5. Contents(m)' = ram[frame[a]]
    BY <1>1, <2>4 DEF Contents
  <2> QED
    BY <2>1, <2>3, <2>5
<1> QED
  BY <1>4, <1>5

LEMMA pagerImplements ==
  ASSUME IInv, IInv', NEW a \in Asids, pager(a)
  PROVE  Kept
<1>1. CASE SelectFrame(a)
  BY <1>1, SelectFrameImplements
<1>2. CASE FlushVictim(a)
  <2>1. \A b \in Asids, m \in Mapped : Evicting(b, m)' <=> Evicting(b, m)
    BY <1>2 DEF FlushVictim, Moves, locals, pool, Evicting, Victim, IInv, Control, TypeOK
  <2> QED
    BY <1>2, <2>1, NothingMoved DEF FlushVictim, locals, data, IInv
<1>3. CASE FlashMutexStep(a)
  <2>1. \A b \in Asids, m \in Mapped : Evicting(b, m)' <=> Evicting(b, m)
    BY <1>3 DEF FlashMutexStep, AcquireFlash, ReleaseFlash, Moves, locals, pool, Evicting,
                Victim, IInv, Control, TypeOK
  <2> QED
    BY <1>3, <2>1, NothingMoved
       DEF FlashMutexStep, AcquireFlash, ReleaseFlash, locals, maps, data, IInv
<1>4. CASE FlashWrite(a)
  BY <1>4, FlashWriteImplements
<1>5. CASE FlashRead(a)
  BY <1>5, FlashReadImplements
<1>6. CASE MapPage(a)
  BY <1>6, MapPageImplements
<1>7. CASE SyncPage(a)
  <2>1. \A b \in Asids, m \in Mapped : Evicting(b, m)' <=> Evicting(b, m)
    BY <1>7 DEF SyncPage, Moves, locals, pool, Evicting, Victim, IInv, Control, TypeOK
  <2> QED
    BY <1>7, <2>1, NothingMoved DEF SyncPage, locals, data, IInv
<1>8. CASE Leave(a) \/ Abort(a)
  <2>1. pc[a] \in {"leave", "abort"} /\ pc'[a] \in {"run", "fatal"}
    BY <1>8 DEF Leave, Abort, ReleasePool, Moves, IInv, Control, TypeOK
  <2>2. \A b \in Asids : b # a => pc'[b] = pc[b] /\ frame'[b] = frame[b]
    BY <1>8 DEF Leave, Abort, ReleasePool, Moves, IInv, Control, TypeOK
  <2>3. \A b \in Asids, m \in Mapped : Evicting(b, m)' <=> Evicting(b, m)
    BY <1>8, <2>1, <2>2 DEF Leave, Abort, ReleasePool, pool, Evicting, Victim
  <2>4. \A b \in Asids : frame'[b] # frame[b] => pc[b] \notin Evicts
    BY <2>1, <2>2 DEF Evicts
  <2>5. UNCHANGED <<pageTable, ram, flash, damaged>>
    BY <1>8 DEF Leave, Abort, ReleasePool, maps, data
  <2> QED
    BY <2>3, <2>4, <2>5, NothingMoved DEF IInv
<1>9. CASE FatalFault(a)
  BY <1>9, DiesImplements DEF FatalFault, Critical, locals, pool
<1> QED
  BY <1>1, <1>2, <1>3, <1>4, <1>5, <1>6, <1>7, <1>8, <1>9 DEF pager

LEMMA InitImplements == Init => Memory!Init
<1> SUFFICES ASSUME Init, NEW m \in Mapped PROVE Held[m] \in Values
  BY DEF Memory!Init, Held
<1>1. Contents(m) \in Values
  BY IInvInit, ContentsType DEF IInv
<1> QED
  BY <1>1 DEF Init, Held

LEMMA StepImplements ==
  ASSUME IInv, IInv', [Next]_vars
  PROVE  [Memory!Next]_Held
<1>1. ASSUME NEW m \in Mapped, uTLB_RefillHandler(m) PROVE Kept
  <2>1. \A b \in Asids, n \in Mapped : Evicting(b, n)' <=> Evicting(b, n)
    BY <1>1 DEF uTLB_RefillHandler, locals, pool, Evicting, Victim
  <2> QED
    BY <1>1, <2>1, NothingMoved DEF uTLB_RefillHandler, locals, data, IInv
<1>2. ASSUME NEW m \in Mapped, NEW v \in Values, Write(m[1], m[2], v) PROVE Memory!Next
  BY <1>2, WriteImplements
<1>3. ASSUME NEW m \in Mapped, PageFault(m[1], m[2]) PROVE Kept
  <2>1. \A b \in Asids, n \in Mapped : Evicting(b, n)' <=> Evicting(b, n)
    BY <1>3 DEF PageFault, Moves, pool, Evicting, Victim, IInv, Control, TypeOK
  <2> QED
    BY <1>3, <2>1, NothingMoved DEF PageFault, maps, data, IInv
<1>4. ASSUME NEW a \in Asids, Terminate(a) PROVE Kept
  BY <1>4, DiesImplements DEF Terminate, Critical, locals, pool
<1>5. ASSUME NEW a \in Asids, Execute(a) PROVE Kept
  BY <1>5, ExecuteImplements
<1>6. CASE UNCHANGED vars
  <2>1. UNCHANGED Held
    BY <1>6 DEF Held, Contents, Evicting, Victim, vars, locals, pool, mutexes, maps, data
  <2> QED
    BY <2>1
<1> QED
  BY <1>1, <1>2, <1>3, <1>4, <1>5, <1>6, pagerImplements, KeptIsLoss DEF Next, Stopped

(* The pages are a memory: however they move between frames and flash       *)
(* (vmSupport.c:290-362), only a store changes one, until its address space *)
(* is damaged.                                                              *)
THEOREM Implements == Spec => MemorySpec
<1>1. IInv /\ IInv' /\ [Next]_vars => [Memory!Next]_Held
  BY StepImplements
<1> QED
  BY <1>1, InitImplements, Invariant, PTL DEF Spec, MemorySpec, Memory!Spec
=============================================================================

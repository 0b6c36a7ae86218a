------------------------------ MODULE DeviceMap ------------------------------
(****************************************************************************)
(* From the address of a device's command register to the semaphore its     *)
(* caller waits on (doIO), and from an interrupt to the semaphore that is   *)
(* released (interruptHandler): two computations that must agree.  One      *)
(* process makes one DOIO; any devices interrupt.  Nucleus knows devices by *)
(* their semaphores; this is the arithmetic behind them.                    *)
(****************************************************************************)
EXTENDS Integers

Lines == 3..7
Devs  == 0..7

START_DEVREG == 268435540            \* 0x10000054
LastAddress  == 268436180            \* 0x100002D4

DEV_REG_BASE(line, dev) == START_DEVREG + (line - 3) * 128 + dev * 16
DEV_SEM_BASE(line, dev) == (line - 3) * 8 + dev
TERM_TX_SEM(dev) == 40 + dev
TERM_RX_SEM(dev) == 32 + dev

(* The semaphore doIO finds for an address it accepts.                      *)
semIndex(addr) ==
  LET offset == addr - START_DEVREG
      line   == offset \div 128 + 3
      dev    == (offset % 128) \div 16
  IN  IF line = 7
      THEN IF offset % 16 >= 8 THEN 40 + dev ELSE 32 + dev
      ELSE (line - 3) * 8 + dev

Accepted(addr) == addr >= START_DEVREG /\ addr <= LastAddress

(* The bit getHighestPriorityDevice finds first.                            *)
getHighestPriorityDevice(bitmap) ==
  CHOOSE i \in bitmap : \A j \in bitmap : i <= j

(* The semaphores released for a device; for a terminal those of the halves *)
(* with a status.                                                           *)
Released(line, dev, halves) ==
  IF line = 7
  THEN {IF h = "tx" THEN TERM_TX_SEM(dev) ELSE TERM_RX_SEM(dev) : h \in halves}
  ELSE {DEV_SEM_BASE(line, dev)}

VARIABLES
  commandAddr,   \* a1 of the process's DOIO
  waitsOn,       \* -1 before the call and when it was refused
  servedBy       \* the device whose interrupt released the process

vars == <<commandAddr, waitsOn, servedBy>>

Nobody  == [line |-> 0, dev |-> 0, halves |-> {}]
Device  == [line : Lines, dev : Devs, halves : (SUBSET {"tx", "rx"}) \ {{}}]
NotWaiting == -1

(* The words from one before the registers to one behind the last accepted. *)
Init ==
  /\ commandAddr \in {START_DEVREG + 4 * i : i \in -1..161}
  /\ waitsOn = NotWaiting
  /\ servedBy = Nobody

doIO ==
  /\ waitsOn = NotWaiting /\ servedBy = Nobody /\ Accepted(commandAddr)
  /\ waitsOn' = semIndex(commandAddr)
  /\ UNCHANGED <<commandAddr, servedBy>>

interruptHandler(line, bitmap, halves) ==
  LET dev == getHighestPriorityDevice(bitmap)
  IN  /\ waitsOn \in Released(line, dev, halves)
      /\ waitsOn' = NotWaiting
      /\ servedBy' = [line |-> line, dev |-> dev, halves |-> halves]
      /\ UNCHANGED commandAddr

Next ==
  \/ doIO
  \/ \E line \in Lines, bitmap \in (SUBSET Devs) \ {{}}, halves \in (SUBSET {"tx", "rx"}) \ {{}} :
       interruptHandler(line, bitmap, halves)

Spec == Init /\ [][Next]_vars

-----------------------------------------------------------------------------
(* The registers of a device, of a terminal those of the half that has      *)
(* them.                                                                    *)
Registers(d) ==
  LET base == DEV_REG_BASE(d.line, d.dev)
  IN  IF d.line # 7 THEN base..base + 15
      ELSE UNION {IF h = "rx" THEN base..base + 7 ELSE base + 8..base + 15 : h \in d.halves}

(* A process that waits for the end of a command is released by the device  *)
(* it gave the command to, not by another one, nor by the other half of the *)
(* terminal alone.                                                          *)
ReleasedByOwnDevice ==
  servedBy # Nobody /\ commandAddr < LastAddress => commandAddr \in Registers(servedBy)

(* doIO accepts only the addresses of registers (exception.c:467: "the      *)
(* address must fall in the interval of the device registers").             *)
OnlyDeviceRegisters ==
  waitsOn # NotWaiting => \E d \in Device : commandAddr \in Registers(d)
=============================================================================

-------------------------- MODULE DeviceMapProofs --------------------------
(****************************************************************************)
(* doIO and interruptHandler compute the same semaphore for every device,   *)
(* so that a process is released by the device it waits for.                *)
(****************************************************************************)
EXTENDS DeviceMap, TLAPS

(* getHighestPriorityDevice returns a device of the bitmap, the least.      *)
LEMMA HighestPriority ==
  ASSUME NEW bitmap \in SUBSET Devs, bitmap # {}
  PROVE  getHighestPriorityDevice(bitmap) \in bitmap
<1> DEFINE Least(i) == i \in bitmap /\ \A j \in bitmap : i <= j
<1>1. \E i \in bitmap : \A j \in bitmap : i <= j
  <2>1. \A i \in 0..7 : (\A j \in bitmap : i <= j) => i \in bitmap \/ \A j \in bitmap : i + 1 <= j
    BY DEF Devs
  <2>2. \A j \in bitmap : 0 <= j
    BY DEF Devs
  <2>3. ~\A j \in bitmap : 8 <= j
    <3>1. PICK i \in bitmap : TRUE
      OBVIOUS
    <3> QED
      BY <3>1 DEF Devs
  <2>4. \E i \in 0..7 : (\A j \in bitmap : i <= j) /\ ~\A j \in bitmap : i + 1 <= j
    BY <2>2, <2>3
  <2> QED
    BY <2>1, <2>4
<1> QED
  BY <1>1 DEF getHighestPriorityDevice

(* The semaphore of an address, by the place of its line and device in the  *)
(* array of registers.                                                      *)
LEMMA SemIndexValue ==
  ASSUME NEW addr \in Int, START_DEVREG <= addr, addr < LastAddress
  PROVE  \E line \in Lines, dev \in Devs, r \in 0..15 :
           /\ addr = DEV_REG_BASE(line, dev) + r
           /\ semIndex(addr) = IF line = 7
                               THEN IF r >= 8 THEN TERM_TX_SEM(dev) ELSE TERM_RX_SEM(dev)
                               ELSE DEV_SEM_BASE(line, dev)
<1> DEFINE o == addr - START_DEVREG
           line == o \div 128 + 3
           dev  == (o % 128) \div 16
           r    == o % 16
<1>1. o \in 0..639
  BY DEF START_DEVREG, LastAddress
<1>2. line \in Lines /\ dev \in Devs /\ r \in 0..15
  BY <1>1 DEF Lines, Devs
<1>3. o = (line - 3) * 128 + dev * 16 + r
  BY <1>1
<1>4. addr = DEV_REG_BASE(line, dev) + r
  BY <1>1, <1>3 DEF DEV_REG_BASE, START_DEVREG
<1>5. semIndex(addr) = IF line = 7
                       THEN IF r >= 8 THEN TERM_TX_SEM(dev) ELSE TERM_RX_SEM(dev)
                       ELSE DEV_SEM_BASE(line, dev)
  BY DEF semIndex, TERM_TX_SEM, TERM_RX_SEM, DEV_SEM_BASE
<1> QED
  BY <1>2, <1>4, <1>5

(* The index of a device tells its line and its number.                     *)
LEMMA EightPerLine ==
  ASSUME NEW a \in Lines, NEW b \in Lines, NEW x \in Devs, NEW y \in Devs,
         (a - 3) * 8 + x = (b - 3) * 8 + y
  PROVE  a = b /\ x = y
<1>1. a \in Int /\ b \in Int /\ x \in 0..7 /\ y \in 0..7
  BY DEF Lines, Devs
<1>2. ~(a < b) /\ ~(b < a)
  BY <1>1
<1> QED
  BY <1>1, <1>2

(* A semaphore of deviceSemaphores is released for one device (or half of a *)
(* terminal) only: the one whose registers lead doIO to it.                 *)
LEMMA MapsAgree ==
  ASSUME NEW addr \in Int, START_DEVREG <= addr, addr < LastAddress,
         NEW d \in Device, semIndex(addr) \in Released(d.line, d.dev, d.halves)
  PROVE  addr \in Registers(d)
<1>1. PICK line \in Lines, dev \in Devs, r \in 0..15 :
        /\ addr = DEV_REG_BASE(line, dev) + r
        /\ semIndex(addr) = IF line = 7
                            THEN IF r >= 8 THEN TERM_TX_SEM(dev) ELSE TERM_RX_SEM(dev)
                            ELSE DEV_SEM_BASE(line, dev)
  BY SemIndexValue
<1>2. d.line \in Lines /\ d.dev \in Devs /\ d.halves \subseteq {"tx", "rx"}
  BY DEF Device
<1>3. CASE d.line # 7
  <2>1. semIndex(addr) = (d.line - 3) * 8 + d.dev
    BY <1>3 DEF Released, DEV_SEM_BASE
  <2>2. line = d.line /\ dev = d.dev
    <3>1. line # 7
      BY <2>1, <1>1, <1>2, <1>3 DEF Lines, Devs, TERM_TX_SEM, TERM_RX_SEM
    <3>2. (line - 3) * 8 + dev = (d.line - 3) * 8 + d.dev
      BY <2>1, <3>1, <1>1 DEF DEV_SEM_BASE
    <3> QED
      BY <3>2, <1>2, EightPerLine
  <2>3. DEV_REG_BASE(line, dev) \in Int
    BY DEF DEV_REG_BASE, START_DEVREG, Lines, Devs
  <2> QED
    BY <1>1, <1>3, <2>2, <2>3 DEF Registers
<1>4. CASE d.line = 7
  <2>1. PICK h \in d.halves :
          semIndex(addr) = IF h = "tx" THEN TERM_TX_SEM(d.dev) ELSE TERM_RX_SEM(d.dev)
    BY <1>4 DEF Released
  <2>2. line = 7 /\ dev = d.dev /\ (h = "tx" <=> r >= 8)
    BY <2>1, <1>1, <1>2 DEF Lines, Devs, TERM_TX_SEM, TERM_RX_SEM, DEV_SEM_BASE
  <2>3. DEV_REG_BASE(7, d.dev) \in Int
    BY <1>2 DEF DEV_REG_BASE, START_DEVREG, Devs
  <2>4. h \in {"tx", "rx"}
    BY <1>2, <2>1
  <2> DEFINE base == DEV_REG_BASE(7, d.dev)
             Half(g) == IF g = "rx" THEN base..base + 7 ELSE base + 8..base + 15
  <2>5. addr \in Half(h)
    <3> HIDE DEF base
    <3>1. base \in Int /\ addr = base + r
      BY <1>1, <2>2, <2>3 DEF base
    <3> QED
      BY <3>1, <2>2, <2>4, <1>1
  <2>6. Registers(d) = UNION {Half(g) : g \in d.halves}
    BY <1>4 DEF Registers
  <2> QED
    BY <2>1, <2>5, <2>6
<1> QED
  BY <1>3, <1>4

(* What holds while the process waits.                                      *)
IInv ==
  /\ commandAddr \in Int
  /\ waitsOn # NotWaiting => Accepted(commandAddr) /\ waitsOn = semIndex(commandAddr)
  /\ ReleasedByOwnDevice

LEMMA IInvInit == Init => IInv
<1> SUFFICES ASSUME Init PROVE IInv
  OBVIOUS
<1>1. commandAddr \in Int
  BY DEF Init, START_DEVREG
<1> QED
  BY <1>1 DEF Init, IInv, ReleasedByOwnDevice

LEMMA IInvStep == IInv /\ [Next]_vars => IInv'
<1> SUFFICES ASSUME IInv, [Next]_vars PROVE IInv'
  OBVIOUS
<1>1. CASE doIO
  BY <1>1 DEF IInv, doIO, ReleasedByOwnDevice, Accepted
<1>2. ASSUME NEW line \in Lines, NEW bitmap \in (SUBSET Devs) \ {{}},
             NEW halves \in (SUBSET {"tx", "rx"}) \ {{}},
             interruptHandler(line, bitmap, halves)
      PROVE  IInv'
  <2> DEFINE d == [line |-> line, dev |-> getHighestPriorityDevice(bitmap), halves |-> halves]
  <2>1. d \in Device
    BY HighestPriority DEF Device
  <2>2. servedBy' = d /\ commandAddr' = commandAddr /\ waitsOn' = NotWaiting
    BY <1>2 DEF interruptHandler
  <2>3. waitsOn \in Released(d.line, d.dev, d.halves)
    BY <1>2 DEF interruptHandler
  <2>4. waitsOn # NotWaiting
    <3>1. d.dev \in 0..7 /\ d.line \in 3..7
      BY <2>1 DEF Device, Lines, Devs
    <3> HIDE DEF d
    <3> QED
      BY <2>3, <3>1 DEF Released, NotWaiting, DEV_SEM_BASE, TERM_TX_SEM, TERM_RX_SEM
  <2>5. commandAddr < LastAddress => commandAddr \in Registers(d)
    BY <2>1, <2>3, <2>4, MapsAgree DEF IInv, Accepted
  <2> QED
    BY <2>2, <2>5 DEF IInv, ReleasedByOwnDevice, Registers
<1>3. CASE UNCHANGED vars
  BY <1>3 DEF IInv, vars, ReleasedByOwnDevice, Accepted
<1> QED
  BY <1>1, <1>2, <1>3 DEF Next

(* A process is released only by the device to which it gave a command, for *)
(* every address inside the registers, every device and every bitmap.       *)
THEOREM OwnDevice == Spec => []ReleasedByOwnDevice
<1>1. IInv => ReleasedByOwnDevice
  BY DEF IInv
<1> QED
  BY IInvInit, IInvStep, <1>1, PTL DEF Spec
=============================================================================

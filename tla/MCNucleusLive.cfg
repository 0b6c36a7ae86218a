\* Three PCBs, a disk, the pseudo-clock, the hardware's fairness.
SPECIFICATION FairSpec
CONSTANTS
  NULL = NULL
  Pcbs = {root, p1, p2}
  MAXPROC = 20
  rootProcess = root
  Prios = {0, 1}
  DeviceSems = {8, 48}
  UserSems = {mutex}
  SemMax = 1
  DriftMax = 2
INVARIANTS
  ClosedFormsAreLoops
PROPERTIES
  WaitEnds
  SoftBlockedWake
  ReadyRuns

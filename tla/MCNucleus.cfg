\* Three PCBs of two priorities, one user semaphore, a terminal with its two
\* sides, the pseudo-clock.
SPECIFICATION Spec
CONSTANTS
  NULL = NULL
  Pcbs = {root, p1, p2}
  MAXPROC = 20
  rootProcess = root
  Prios = {0, 1}
  DeviceSems = {32, 40, 48}
  UserSems = {mutex}
  SemMax = 1
  DriftMax = 2
SYMMETRY PcbSymmetry
INVARIANTS
  TypeOK
  ProcessesPlaced
  NoOrphans
  CountsExact
  UserSemaphoresExact
  DeviceSemaphoresLow
  WaitersAwaited
  QueuesOrdered
  HonestStop
PROPERTIES
  NoOvertaking

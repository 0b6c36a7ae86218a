\* Two PCBs, two semaphore descriptors, three semaphores.
SPECIFICATION Spec
CONSTANTS
  NULL = NULL
  Pcbs = {root, p1}
  MAXPROC = 2
  rootProcess = root
  Prios = {0}
  DeviceSems = {48}
  UserSems = {s1, s2}
  SemMax = 1
  DriftMax = 3
INVARIANTS
  NegativeCountsBlocked

\* Three PCBs and one disk.
SPECIFICATION Spec
CONSTANTS
  NULL = NULL
  Pcbs = {root, p1, p2}
  MAXPROC = 20
  rootProcess = root
  Prios = {0}
  DeviceSems = {8, 48}
  UserSems = {mutex}
  SemMax = 1
  DriftMax = 3
PROPERTIES
  OwnResult

\* Two PCBs that use the two sides of one terminal.
SPECIFICATION Spec
CONSTANTS
  NULL = NULL
  Pcbs = {root, p1}
  MAXPROC = 20
  rootProcess = root
  Prios = {0}
  DeviceSems = {32, 40, 48}
  UserSems = {mutex}
  SemMax = 1
  DriftMax = 3
PROPERTIES
  TransmitterWokenWhenFinished

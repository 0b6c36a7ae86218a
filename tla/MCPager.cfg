\* Two address spaces, three pages, two frames; flash failures and reuse of ASIDs.
SPECIFICATION FairSpec
CONSTANTS
  Asids = {1, 2}
  Mapped <- ThreePages
  POOLSIZE = 2
  Values = {x, y}
  NULL = NULL
  ABSENT = ABSENT
  LOST = LOST
INVARIANTS
  TypeOK
  FramesApart
  HitsAreCurrent
PROPERTIES
  
  FaultsEnd

\* A program is started twice on the same ASID.
SPECIFICATION Spec
CONSTANTS
  Asids = {1, 2}
  Mapped <- ThreePages
  POOLSIZE = 2
  Values = {x, y}
  NULL = NULL
  ABSENT = ABSENT
  LOST = LOST
INVARIANTS
  InvalidPagesFault

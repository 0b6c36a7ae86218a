CONSTANTS
  u1 = u1
  u2 = u2
  k = k
  Uprocs = {u1, u2}
  Kprocs = {k}
  Program <- MCProgram
  NULL = NULL
  MaxTime = 2
SPECIFICATION Spec
INVARIANTS TypeOK CpuTimeExact
PROPERTIES StacksSpec
CHECK_DEADLOCK FALSE

\* Three PCBs of two priorities, two descriptors, three semaphores.
SPECIFICATION Spec
CONSTANTS
  urgent = urgent
  Pcbs = {urgent, p1, p2}
  Semds = {sd1, sd2}
  Sems = {4, 8, 12}
  prio <- TwoPriorities
  NULL = NULL
SYMMETRY TableSymmetry
INVARIANTS
  DoublyLinked
  DescriptorsFound
PROPERTIES
  ListsSpec

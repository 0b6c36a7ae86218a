\* Three PCBs for programs, strings of at most two characters.
SPECIFICATION FairSpec
CONSTANTS
  test = test
  shell = shell
  Programs = {c1, c2, c3}
  MaxLen = 2
INVARIANTS
  TypeOK
  ProgramsRunAlone
  CreateSucceeds
PROPERTIES
  ShellResumes
  HaltsAfterShell

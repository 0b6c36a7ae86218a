\* A program that faults inside a call.
SPECIFICATION FairSpec
CONSTANTS
  test = test
  shell = shell
  Programs = {c1}
  MaxLen = 1
PROPERTIES
  NextCommand

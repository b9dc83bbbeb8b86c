\* Two children on terminals of their own, one in a terminal window, one descriptor of the host program.
SPECIFICATION Spec
CONSTANTS
  Launch = {l1, l2, l3}
  Terminal = {l3}
  FdLimit = 9
  GarbageFd = {1, 4}
  MaxHost = 1
INVARIANTS
  TypeOK
  ProgramHoldsOnlyOwn
  ReadsOwn
  HostKeepsItsOwn
  NothingLeaks
\* When every call was made nothing is left to do.
CHECK_DEADLOCK FALSE

\* The standard error of one program, when no call fails.
SPECIFICATION Spec
CONSTANTS
  Launch = {l1}
  Terminal = {}
  FdLimit = 7
  GarbageFd = {4}
  MaxHost = 0
INVARIANTS
  StderrIsPiped
\* When every call was made nothing is left to do.
CHECK_DEADLOCK FALSE

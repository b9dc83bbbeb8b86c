\* A child that exits before its pid is stored is never reported.
SPECIFICATION FairSpec
CONSTANTS
  Child = {c1}
  Launch = {l1}
  Terminal = {}
  Foreign = {}
  Pids = {p1}
  Capacity = 0
  PidReuse = FALSE
  Garbage = {}
  ListHead = ListHead
  None = None
PROPERTIES
  ExitReported
\* After jpl_uninit() or a crash nothing is left to do.
CHECK_DEADLOCK FALSE

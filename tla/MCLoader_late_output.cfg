\* A child writes and exits between the two passes of jpl_run(); another runs in a terminal.
SPECIFICATION Spec
CONSTANTS
  Child = {c1, c2}
  Launch = {l1, l2}
  Terminal = {l2}
  Foreign = {}
  Pids = {p1, p2}
  Capacity = 1
  PidReuse = FALSE
  Garbage = {}
  ListHead = ListHead
  None = None
SYMMETRY Symmetry
INVARIANTS
  AllOutputLogged
\* After jpl_uninit() or a crash nothing is left to do.
CHECK_DEADLOCK FALSE

\* A pid is reused while the struct of its first owner is on the list.
SPECIFICATION Spec
CONSTANTS
  Child = {c1, c2}
  Launch = {l1, l2}
  Terminal = {}
  Foreign = {}
  Pids = {p1}
  Capacity = 0
  PidReuse = TRUE
  Garbage = {}
  ListHead = ListHead
  None = None
SYMMETRY Symmetry
INVARIANTS
  StatusIsOwn
\* After jpl_uninit() or a crash nothing is left to do.
CHECK_DEADLOCK FALSE

\* Three structs, three launches, a child of the host program; pids are reused and memory holds any pid.
SPECIFICATION Spec
CONSTANTS
  Child = {c1, c2, c3}
  Launch = {l1, l2, l3}
  Terminal = {l3}
  Foreign = {f1}
  Pids = {p1, p2, p3}
  Capacity = 0
  PidReuse = TRUE
  Garbage = {p1, p2, p3}
  ListHead = ListHead
  None = None
SYMMETRY Symmetry
INVARIANTS
  WalkNeverDangles
  AppCountExact
  SigchldNotLost
PROPERTIES
  RunBuriesKnownDead
\* After jpl_uninit() or a crash nothing is left to do.
CHECK_DEADLOCK FALSE

\* Two launches under fairness, pids never reused; no symmetry, which is unsound for liveness.
SPECIFICATION FairSpec
CONSTANTS
  Child = {c1, c2}
  Launch = {l1, l2}
  Terminal = {}
  Foreign = {}
  Pids = {p1, p2}
  Capacity = 2
  PidReuse = FALSE
  Garbage = {}
  ListHead = ListHead
  None = None
INVARIANTS
  TypeOK
  IInv
  ReportedOnceAfterExit
  UnreportedListed
PROPERTIES
  KnownDeadOutputLogged
  ImplementsContract
  RecordedExitReported
  LinesLogged
  HandlerReturns
\* After jpl_uninit() or a crash nothing is left to do.
CHECK_DEADLOCK FALSE

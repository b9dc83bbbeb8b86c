\* The dispositions once the handlers are installed.
SPECIFICATION Spec
INVARIANTS
  SignalsAsAsked
\* The daemon ends.
CHECK_DEADLOCK FALSE

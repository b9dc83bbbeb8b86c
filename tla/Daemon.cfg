\* Every signal ignored or not at the start, every call of libdbus failing or not.
SPECIFICATION FairSpec
INVARIANTS
  TypeOK
PROPERTIES
  EverythingUndone
  EndsWhenAsked
\* The daemon ends.
CHECK_DEADLOCK FALSE

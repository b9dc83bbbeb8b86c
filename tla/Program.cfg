\* Names of up to two letters, two libraries, two variables to set.
SPECIFICATION FairSpec
CONSTANTS
  Nul = Nul
  NULL = NULL
  Letter = {x}
  Space = Space
  Variable = {V}
  LD_PRELOAD = LD_PRELOAD
  CommandLine = CommandLine
  MaxLength = 2
  MaxStrings = 2
INVARIANTS
  TypeOK
  MemorySound
  HooksFirst
  EnvironmentAsAsked
PROPERTIES
  NeverComesBack
CHECK_DEADLOCK FALSE

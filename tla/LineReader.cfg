\* A buffer of four characters, a repeat count of two bits, one letter, seven characters written.
SPECIFICATION FairSpec
CONSTANTS
  Char = {a, NL, Nul}
  NL = NL
  Nul = Nul
  BufferSize = 4
  CountMod = 4
  MaxWritten = 7
INVARIANTS
  TypeOK
  ChunkingInvisible
  LogTellsOutput
  LinesAccounted
PROPERTIES
  ReadReturns
\* After the child is buried nothing is left to do.
CHECK_DEADLOCK FALSE

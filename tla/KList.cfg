\* Three nodes, two heads.
SPECIFICATION FairSpec
CONSTANTS
  Node = {n1, n2, n3}
  ListHead = ListHead
  OtherHead = OtherHead
  Poison = Poison
  Null = Null
INVARIANTS
  IInv
  WalkVisitsList
  ReaderSound
  ListAsAsked
  BackwardAgrees
  CarefulMeansDone
PROPERTIES
  WalkEnds
  ActsAtomically

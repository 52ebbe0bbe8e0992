CONSTANTS
  NE = 7
  BlockSize = 4
  MaxIter = 3

SPECIFICATION FairSpec

INVARIANTS
  TypeOK
  SlotsDisjoint
  CoverExact

PROPERTIES
  CoverSpec
  Termination

SPECIFICATION FairSpec
CONSTANTS
  Inputs <- MCInputs
INVARIANTS
  TypeOK
  PiecesExact
  OrderReproducible
  StackBounded
PROPERTIES
  Termination

CONSTANTS
  Inputs <- MCInputs
  GSize = 3
  Span = 6

SPECIFICATION Spec

INVARIANTS
  TypeOK
  LayoutExact
  CrossingsOnce
  ClosestFound

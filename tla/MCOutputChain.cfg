CONSTANTS
  Inputs <- MCInputs

SPECIFICATION Spec

INVARIANTS
  TypeOK
  FragmentsExact
  NumbersStable

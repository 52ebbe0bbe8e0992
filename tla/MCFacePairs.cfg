CONSTANTS
  Inputs <- MCInputs

SPECIFICATION Spec

INVARIANTS
  FacesByPair

CONSTANTS
  Radix = 8
  PassCount = 2
  LaneCount = 4
  WaveCount = 2
  PartitionDivision = 2
  Inputs <- MCInputs

SPECIFICATION Spec

INVARIANTS
  TypeOK
  DestinationsExact
  StableSort

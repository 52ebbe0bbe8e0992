CONSTANTS
  NE = 3
  Segments <- MCSegments
  PX = 1
  PY = 1
  Reach = 2
  Width = 2
  MaxCalls = 2
  Modes = {"rt", "lbvh", "native", "vk"}

SPECIFICATION Spec

INVARIANTS
  TypeOK
  ClosestExact
  LowestId

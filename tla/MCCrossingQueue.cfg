CONSTANTS
  NQ = 2
  NB = 2
  Capacity = 3
  Rounds = 2
  MaxFresh = 1
  Modes = {"rt", "lbvh", "vk"}

SPECIFICATION Spec

INVARIANTS
  TypeOK
  ResultExact
  SlotsPrivate
  LimitKept

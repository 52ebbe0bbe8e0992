CONSTANTS
  Procs = {p1, p2}
  Loads = 2
  Kinds = {"cuda", "vk"}
  Sources = 1
  MaxCrashes = 0

SPECIFICATION Spec

INVARIANTS
  CheckedWhole

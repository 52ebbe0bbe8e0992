CONSTANTS
  Procs = {p1, p2}
  Loads = 2
  Kinds = {"cuda", "vk"}
  Sources = 2
  MaxCrashes = 1

SPECIFICATION Spec

INVARIANTS
  TypeOK
  QuietWhole
  LoadExact

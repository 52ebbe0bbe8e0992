CONSTANTS
  NE <- MCNE
  WinSize = 2
  LogBlock = 2

SPECIFICATION Spec

INVARIANTS
  TypeOK
  ScanExact
  IndexExact

PROPERTIES
  CoverSpec

SPECIFICATION ConfigSpec
CONSTANTS
  Keys <- MCKeys
  Backends <- MCBackends
  ValidNames <- MCValidNames
  MaxKeys = 2
  MaxBackends = 2
INVARIANTS
  RoutesAsInTable
  Deterministic
CHECK_DEADLOCK FALSE

SPECIFICATION Spec
INVARIANTS
  ExpectedIsSpec
CONSTANTS
  NoProfile = NoProfile
  NoMemory = NoMemory
  PageSize = 32
  MaxPages = 4
  EnginePages = 3
  DefaultMaximum = 2
  InitialPages = {0}
CHECK_DEADLOCK FALSE

SPECIFICATION Spec
INVARIANTS
  TypeOK
  NoFalseAlarm
  DeviationReported
CONSTANTS
  NoProfile = NoProfile
  NoMemory = NoMemory
  PageSize = 32
  MaxPages = 4
  EnginePages = 3
  DefaultMaximum = 2
  InitialPages = {1, 2, 3}
CHECK_DEADLOCK FALSE

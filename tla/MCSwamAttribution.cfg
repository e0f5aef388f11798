SPECIFICATION Spec
INVARIANTS
  EvidenceIsPending
CONSTANTS
  NoProfile = NoProfile
  NoMarkers = NoMarkers
  NoShm = NoShm
  Torn = Torn
  NoProbe = NoProbe
  NoModule = NoModule
  NumScenarios = 2
  OpClassOf <- MCOpClassOf
  Expected <- BothBugs
  MarkerValue <- MCMarkerValue
  FailWindow = 1
  ReachWindow = 2
  BugSaveCap = 1
  NotrapSaveCap = 1
  NamesKept = TRUE
  SharedFile = FALSE
  Peers = FALSE
  Runtimes = {"all"}
  MaxCalls = 3
  MaxCorpus = 2
CHECK_DEADLOCK FALSE

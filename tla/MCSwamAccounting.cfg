SPECIFICATION FairSpec
INVARIANTS
  LedgerBalanced
  CountersConsistent
  ColdStartFirst
  TotalsAgree
PROPERTIES
  ExploitResolved
CONSTANTS
  NoProfile = NoProfile
  NoMarkers = NoMarkers
  NoShm = NoShm
  Torn = Torn
  NoProbe = NoProbe
  NoModule = NoModule
  NumScenarios = 2
  OpClassOf <- MCOpClassOf
  Expected <- BugUnknown
  MarkerValue <- MCMarkerValue
  FailWindow = 1
  ReachWindow = 2
  BugSaveCap = 1
  NotrapSaveCap = 1
  NamesKept = TRUE
  SharedFile = FALSE
  Peers = FALSE
  Runtimes = {"all"}
  MaxCalls = 5
  MaxCorpus = 1
CHECK_DEADLOCK FALSE

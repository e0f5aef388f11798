\* Three runs of a target that is persistent or forks for every run, with a
\* map that fits or not; a persistent child serves two runs.
CONSTANTS
    MaxRuns = 3
    Targets = {TRUE, FALSE}
    Loop = 2
    CntWord = 4
    AutoDict = TRUE
    Maps = {TRUE, FALSE}
    ChildKill = "KILL"
    CrashCodes = {1}
    ForkMayFail = TRUE
SPECIFICATION FairSpec
INVARIANTS
    TypeOK
    InStep
    NoStrayChild
PROPERTIES
    ImplementsContract
    RunReturns
    StopEnds

\* Three entries over two map bytes, with all settings.
CONSTANTS
    MaxItems = 3
    CycleItems = 2
    MapSize = 2
    MaxLen = 2
    MaxUs = 1
    MaxLevel = 1
    CalChances = 2
    SkipItems = 1
    Schedules = {"EXPLORE"}
SPECIFICATION FairSpec
INVARIANTS
    TypeOK
    TracesSound
    FavoredSound
PROPERTY LoopReturns

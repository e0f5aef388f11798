\* Normal runs, crashes and timeouts over two map bytes, with all settings.
CONSTANTS
    MapSize = 2
    Counts = {0, 200}
    MaxItems = 3
    MaxExecs = 2
    CalCycles = 1
    CalCyclesLong = 2
    CalChances = 2
    KeepCrashes = 1
    KeepHangs = 1
SPECIFICATION Spec
INVARIANTS TypeOK VirginMapSound SignaturesKept

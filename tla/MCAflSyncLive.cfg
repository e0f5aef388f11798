\* Two instances, one of them or none a main node, that go on for ever.
CONSTANTS
    NoOne = NoOne
    Node = {a, b}
    Mains = {{}, {a}}
    MaxItems = 2
    MaxCases = 3
    MaxEnds = 0
    TrimSettings = {FALSE}
    Ends = {}
    Starts = {}
SPECIFICATION FairSpec
PROPERTIES  TemporaryMainYields AlwaysAMain

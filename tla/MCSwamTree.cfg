SPECIFICATION FairSpec
CONSTANTS
    SeedNodes = 3
    MaxNodes = 8
    Kinds = {"const", "op", "call", "call_indirect", "br", "br_if", "switch", "block"}
    NestedTargets = FALSE
    Imports = 1
    MaxCnt = 2
    StageMax = 2
INVARIANTS
    TypeOK
    
    
PROPERTIES
    
    StageEnds

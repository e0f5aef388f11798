\* A main node and a secondary.  Either their entries are trimmed while the
\* other one reads, or one session ends, in order or killed, and resumes.
CONSTANTS
    NoOne = NoOne
    Node = {a, b}
    Mains = {{a}}
    MaxItems = 2
    MaxCases = 3
    MaxEnds = 1
    TrimSettings = {TRUE, FALSE}
    Ends = {"stop", "crash"}
    Starts = {"resume"}
SPECIFICATION Spec
INVARIANTS TypeOK 
CHECK_DEADLOCK FALSE

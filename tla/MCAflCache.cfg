\* Four entries of two lengths (three where they are trimmed); the cache
\* holds two to four of them.
CONSTANTS
    MaxItems = 4
    TrimItems = 3
    MaxFile = 2
    MaxSize = 4
    MaxEntries = 4
    Slack = 0
    Word = 1000
    CustomTrims = FALSE
SPECIFICATION Spec
INVARIANTS
    TypeOK
    SlotsConsistent
    EvictionSound
    SizeSound
    MutatorCasesUntrimmed

SPECIFICATION FairSpec
CONSTANTS
    Schedule = {s1}
    Occurrence = {1, 3, 4}
    Loop = {l1, l2}
    Limit = 1
    ClaimFor = 1
    Backend = "pg"
    MaxTime = 3
    MaxResumes = 1
CHECK_DEADLOCK FALSE
INVARIANTS
    OneRunPerOccurrence
    NoCatchUp
    NoOccurrenceLost
PROPERTIES
    DueIsRun

SPECIFICATION FairSpec
CONSTANTS
    Document <- AllDocuments
CHECK_DEADLOCK FALSE
INVARIANTS
    VerdictCorrect
PROPERTIES
    Terminates

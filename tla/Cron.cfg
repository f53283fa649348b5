SPECIFICATION FairCronSpec
CONSTANTS
    Expr <- ExprDef
    Min <- MinDef
    Max <- MaxDef
    Week = 3
    MaxInt = 1000
    Last <- LastDef
    Asked <- AskedDef
    Civil <- CivilDef
    Deadline <- DeadlineDef
CHECK_DEADLOCK FALSE
INVARIANTS
    RefusedIsInvalid
    NextIsLeast
PROPERTIES
    Answers

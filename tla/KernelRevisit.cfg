SPECIFICATION Spec
CONSTANTS
    StepId <- LoopSteps
    Def <- LoopDef
    Name = {"ok"}
    Instance = {i1}
    Key = {nokey}
    NoKey = nokey
    TaskId = {1, 2}
    TimerId = {1, 2}
    SignalId = {1}
    Token = {k1}
    NoToken = none
    Loop = {l1}
    Backend = "pg"
    LeaseFor = 1
    Backoff = {}
    MaxCalls = 0
CHECK_DEADLOCK FALSE
PROPERTIES
    OwnTaskMovesInstance

SPECIFICATION FairSpec
CONSTANTS
    StepId <- GateSteps
    Def <- GateDef
    Name = {"ok"}
    Instance = {i1}
    Key = {nokey}
    NoKey = nokey
    TaskId = {}
    TimerId = {}
    SignalId = {1}
    Token = {}
    NoToken = none
    Loop = {l1}
    Backend = "pg"
    LeaseFor = 1
    Backoff = {}
    MaxCalls = 0
CHECK_DEADLOCK FALSE
PROPERTIES
    PendingSignalApplied

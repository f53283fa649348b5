SPECIFICATION Spec
CONSTANTS
    StepId <- LoopSteps
    Def <- LoopDef
    Name = {"ok"}
    Instance = {i1}
    Key = {nokey}
    NoKey = nokey
    TaskId = {1, 2}
    TimerId = {1, 2}
    SignalId = {1, 2}
    Token = {k1}
    NoToken = none
    Loop = {l1}
    Backend = "mem"
    LeaseFor = 1
    Backoff = {1}
    MaxCalls = 0
CHECK_DEADLOCK FALSE
INVARIANTS
    TypeOK
    RowsLinked
    ParkedHasWakeup
    HistoryExplainsState
    SignalsAccounted
    SignalsInCallOrder

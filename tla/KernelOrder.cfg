SPECIFICATION Spec
CONSTANTS
    StepId <- OrderSteps
    Def <- OrderDef
    Name = {"ok"}
    Instance = {i1}
    Key = {nokey}
    NoKey = nokey
    TaskId = {1, 2}
    TimerId = {1}
    SignalId = {1}
    Token = {k1, k2}
    NoToken = none
    Loop = {l1, l2}
    Backend = "mem"
    LeaseFor = 1
    Backoff = {1}
    MaxCalls = 1
CHECK_DEADLOCK FALSE
SYMMETRY Symmetry
INVARIANTS
    ContextMatchesHistory
    PayloadIsCurrent
    OpenTaskIsAwaited
    OutboxMirrorsHistory
PROPERTIES
    OwnTaskMovesInstance
    OwnTimerMovesInstance
    TerminalIsFinal

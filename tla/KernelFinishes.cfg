SPECIFICATION FairSpec
CONSTANTS
    StepId <- ShortSteps
    Def <- ShortDef
    Name = {"ok"}
    Instance = {i1}
    Key = {nokey}
    NoKey = nokey
    TaskId = {1}
    TimerId = {1}
    SignalId = {1}
    Token = {k1, k2}
    NoToken = none
    Loop = {l1, l2}
    Backend = "pg"
    LeaseFor = 1
    Backoff = {1}
    MaxCalls = 2
CHECK_DEADLOCK FALSE
INVARIANTS
    AttemptsMatchHistory
PROPERTIES
    FailedIsFinal
    EventuallyFinishes
    ImplementsWorkflow

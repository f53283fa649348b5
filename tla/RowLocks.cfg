SPECIFICATION TxSpec
CONSTANTS
    StepId <- TaskSteps
    Def <- TaskDef
    Name = {"ok"}
    Instance = {i1}
    Key = {nokey}
    NoKey = nokey
    TaskId = {1}
    TimerId = {}
    SignalId = {}
    Token = {k1, k2}
    NoToken = none
    Loop = {}
    Backend = "pg"
    LeaseFor = 1
    Backoff = {0}
    MaxCalls = 2
    Client = {c1, c2, c3}
SYMMETRY ClientTokenSymmetry
CHECK_DEADLOCK FALSE
INVARIANTS
    DeadlockIsCompleteVersusFail
    ReadsAreCurrent
    SeqLostOnlyToStart
PROPERTIES
    ImplementsKernel

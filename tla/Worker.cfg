SPECIFICATION FairWorkerSpec
CONSTANTS
    Task <- OneTask
    ActivityOf <- OneActivity
    Token = {k1, k2, k3, k4}
    NoToken = none
    Slots = 3
    LeaseFor = 3
    MaxAttempts = 2
    MaxLost = 2
CHECK_DEADLOCK FALSE
INVARIANTS
    KeptWhileRunning
PROPERTIES
    EveryTaskSettles
    StopsWhenCancelled

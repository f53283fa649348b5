SPECIFICATION FairClusterSpec
CONSTANTS
    Replica = {r1, r2}
    Nobody = nobody
    Lingers = TRUE
    MaxLosses = 1
    Record = {1, 2}
    Limit = 1
CHECK_DEADLOCK FALSE
INVARIANTS
    LeadersAccounted
    SentIsPublished
PROPERTIES
    LeaderReturns
    RepublishedOnlyIfCut
    EveryRecordSent

CONSTANTS
    j1 = j1  j2 = j2  d1 = d1  d2 = d2
    Jobs = {j1}
    Docs = {d1, d2}
    DocOf <- OneJob
    Workers = {w1}
    Publishers = {p1}
    JobMaxRetries = 1
    CeleryMaxRetries = 0
    LimitBelowThreshold = TRUE
    NoMessage = NoMessage
    NoEvent = NoEvent
    NoJob = NoJob
    MaxEvents = 3
    MaxAdminRetries = 0
    MaxFaults = 3
    MaxDeletions = 0
SPECIFICATION FairSpec
PROPERTIES AcceptedJobEnds OutboxDrains
CHECK_DEADLOCK FALSE

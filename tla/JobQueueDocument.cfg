CONSTANTS
    j1 = j1  j2 = j2  d1 = d1  d2 = d2
    Jobs = {j1, j2}
    Docs = {d1, d2}
    DocOf <- SameDocument
    Workers = {w1}
    Publishers = {p1}
    JobMaxRetries = 1
    CeleryMaxRetries = 1
    LimitBelowThreshold = FALSE
    NoMessage = NoMessage
    NoEvent = NoEvent
    NoJob = NoJob
    MaxEvents = 2
    MaxAdminRetries = 1
    MaxFaults = 0
    MaxDeletions = 0
SPECIFICATION Spec
INVARIANT OneActivePerDocument
CHECK_DEADLOCK FALSE

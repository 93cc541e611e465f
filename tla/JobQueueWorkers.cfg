CONSTANTS
    j1 = j1  j2 = j2  d1 = d1  d2 = d2
    Jobs = {j1}
    Docs = {d1, d2}
    DocOf <- OneJob
    Workers = {w1, w2}
    Publishers = {p1, p2}
    JobMaxRetries = 1
    CeleryMaxRetries = 1
    LimitBelowThreshold = FALSE
    NoMessage = NoMessage
    NoEvent = NoEvent
    NoJob = NoJob
    MaxEvents = 2
    MaxAdminRetries = 0
    MaxFaults = 1
    MaxDeletions = 1
SPECIFICATION Spec
SYMMETRY Symmetry
INVARIANTS ActiveHasCarrier PublishedWasSent DuplicatesDropped
PROPERTIES ImplementsLifecycle
CHECK_DEADLOCK FALSE

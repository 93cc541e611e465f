CONSTANTS
    j1 = j1  j2 = j2  d1 = d1  d2 = d2
    Jobs = {j1, j2}
    Docs = {d1, d2}
    DocOf <- TwoDocuments
    Workers = {w1}
    Publishers = {p1}
    JobMaxRetries = 1
    CeleryMaxRetries = 1
    LimitBelowThreshold = FALSE
    NoMessage = NoMessage
    NoEvent = NoEvent
    NoJob = NoJob
    MaxEvents = 2
    MaxAdminRetries = 0
    MaxFaults = 0
    MaxDeletions = 1
SPECIFICATION Spec
SYMMETRY JobSymmetry
INVARIANT ActiveHasCarrier
CHECK_DEADLOCK FALSE

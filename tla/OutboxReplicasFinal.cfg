SPECIFICATION Spec
CONSTANTS
    e1 = e1
    e2 = e2
    e3 = e3
    NoEvent = NoEvent
    CreatedAt <- MCCreatedAt
    Event = {e1, e2}
    LooseEvent = {}
    Publisher = {p1, p2}
    BatchSize = 2
    MaxRetries = 2
    FailedDLQ = TRUE
    Poison = {}
    RetryCap = 3
    MaxFaults = 3
    MaxReplays = 0
PROPERTIES
    PublishedIsFinal
\* the table may be drained and every transaction over
CHECK_DEADLOCK FALSE

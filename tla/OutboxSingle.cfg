SPECIFICATION FairSpec
CONSTANTS
    e1 = e1
    e2 = e2
    e3 = e3
    NoEvent = NoEvent
    CreatedAt <- MCCreatedAt
    Event = {e1, e2, e3}
    LooseEvent = {e2}
    Publisher = {p1}
    BatchSize = 2
    MaxRetries = 2
    FailedDLQ = TRUE
    Poison = {e1, e2}
    RetryCap = 2
    MaxFaults = 3
    MaxReplays = 1
INVARIANTS
    NoPhantom
    PublishedReachedBroker
    NothingLost
    FailedWasExhausted
PROPERTIES
    PublishedIsFinal
    RetryNeverSetBack
    HealthyEventsGetOut
\* the table may be drained and every transaction over
CHECK_DEADLOCK FALSE

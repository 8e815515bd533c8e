SPECIFICATION PipeFairSpec
CONSTANTS
    e1 = e1
    e2 = e2
    c1 = c1
    c2 = c2
    p1 = p1
    accounting = accounting
    webhook = webhook
    Malformed = Malformed
    NoEvent = NoEvent
    CreatedAt <- MCCreatedAt
    SourceOf <- MCSourceOf
    Event = {e1}
    LooseEvent = {}
    Publisher = {p1}
    BatchSize = 2
    MaxRetries = 2
    FailedDLQ = FALSE
    Poison = {}
    RetryCap = 3
    MaxFaults = 1
    MaxReplays = 0
    Source = {accounting, webhook}
    Consumer = {c1, c2}
    CumulativeAck = FALSE
    MaxLog = 3
    MaxConsumerFaults = 2
INVARIANTS
    NoPhantomEffect
PROPERTIES
    EventuallyExactlyOnce
\* everything may have been published, processed and cleaned up
CHECK_DEADLOCK FALSE

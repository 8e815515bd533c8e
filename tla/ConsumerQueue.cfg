SPECIFICATION Spec
CONSTANTS
    e1 = e1
    e2 = e2
    c1 = c1
    c2 = c2
    c3 = c3
    accounting = accounting
    webhook = webhook
    Malformed = Malformed
    SourceOf <- MCSourceOf
    Source = {accounting, webhook}
    Event = {e1}
    Consumer = {c1, c2, c3}
    CumulativeAck = FALSE
    MaxLog = 2
    MaxFaults = 2
INVARIANTS
    EffectAtMostOnce
    EffectIffProcessed
    AckedWasProcessed
PROPERTIES
    DeliverySpec
\* the log may be read to its end
CHECK_DEADLOCK FALSE

SPECIFICATION Spec
CONSTANTS
    demand = demand
    weather = weather
    e1 = e1
    e2 = e2
    e3 = e3
    e4 = e4
    Thread = {demand}
    Partition = {0}
    EventId = {e1, e2, e3, e4}
    InitialLogs <- OneInvalid
    BatchSize = 2
    Faults = {"kill"}
    MaxFaults = 1
\* An ingestor with nothing to poll waits, and one whose threads have died stays up.
CHECK_DEADLOCK FALSE
INVARIANTS
    AtLeastOnceDelivery

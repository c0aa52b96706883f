SPECIFICATION FairSpec
CONSTANTS
    demand = demand
    weather = weather
    e1 = e1
    e2 = e2
    e3 = e3
    e4 = e4
    Thread = {demand, weather}
    Partition = {0, 1}
    EventId = {e1, e2, e3, e4}
    InitialLogs <- AllLogs
    BatchSize = 2
    Faults = {"kill", "stop", "jointimeout", "flushtimeout", "connect", "dbdown", "dberror", "commit", "refuse", "full", "expire", "replay"}
    MaxFaults = 2
\* An ingestor with nothing to poll waits, and one whose threads have died stays up.
CHECK_DEADLOCK FALSE
INVARIANTS
    NoUnsettledCommit
    OneRowPerEvent
PROPERTIES
    ImplementsAtLeastOnce
    CleanStopDropsNothing
    EverythingCommitted

SPECIFICATION FairSpec
CONSTANTS
    demand = demand
    weather = weather
    h1 = h1
    h2 = h2
    Thread = {demand, weather}
    Partition = {0, 1}
    Hour = {h1, h2}
    InitialLogs <- AllLogs
    Faults = {"kill", "stop", "redis", "commit", "s3error", "s3down"}
    MaxFaults = 2
\* A worker with nothing to poll waits for messages or a signal.
CHECK_DEADLOCK FALSE
INVARIANTS
    CommitsRestOnHandled
    CleanStopDrains
PROPERTIES
    FlushKeepsRecords
    ImplementsAtLeastOnce
    Liveness

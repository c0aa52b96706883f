SPECIFICATION Spec
CONSTANTS
    demand = demand
    weather = weather
    h1 = h1
    h2 = h2
    Thread = {demand}
    Partition = {0}
    Hour = {h1, h2}
    InitialLogs <- OneLog
    Faults = {"kill", "redis"}
    MaxFaults = 2
\* A worker with nothing to poll waits for messages or a signal.
CHECK_DEADLOCK FALSE
INVARIANTS
    CrashRedelivers

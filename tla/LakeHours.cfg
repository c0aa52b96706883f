SPECIFICATION FairSpec
CONSTANTS
    Tables <- TwoTables
    Lookback = 2
    Faults = {"kill", "stop", "refused", "unreachable"}
    MaxFaults = 2
    MaxHour = 2
    MaxRows = 2
\* The clock stops at its bound, the writer when it is told to.
CHECK_DEADLOCK FALSE
INVARIANTS
    FilesComplete
    CaughtUp
    StopFlushesHours
PROPERTIES
    TrackedHoursWritten

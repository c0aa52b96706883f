SPECIFICATION FairSpec
CONSTANTS
    QueueSize = 2
    InitialDelay = 2
    MaxDelay = 3
    MaxConnection = 3
    MaxMessage = 3
    MaxFaults = 2
\* The messages are bounded, and a browser that unmounted stays away.
CHECK_DEADLOCK FALSE
INVARIANTS
    NoGaps
    OneConnection
PROPERTIES
    Liveness

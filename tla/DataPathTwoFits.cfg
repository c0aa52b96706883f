SPECIFICATION Spec
CONSTANTS
    a = a
    b = b
    worker = worker
    manual = manual
    Process = {worker, manual}
    Cities <- TwoCities
    MaxHour = 4
    QueueMax = 2
    Ahead = 2
    ChaosUpdates <- ReadmeUpdates
    Lookback = 1
    LagRows = {1}
    RollRows = {2}
    HolidayHours <- Holidays
    DayHours = 1
    RouteDays = 1
    BatchSize = 1
    Scenarios <- TwoFits
\* A data path whose programs are down and whose clock has reached the bound stays put.
CHECK_DEADLOCK FALSE
PROPERTIES
    FittedOnce

SPECIFICATION Spec
CONSTANTS
    e1 = e1
    e2 = e2
    e3 = e3
    e4 = e4
    v = v
    w = w
    Id = {e1, e2, e3, e4}
    Value = {v, w}
    Field = {"weather_temp_c", "weather_precip_mm"}
    None = None
    Topics <- EventsAndReadings
    Second = 2
    W5m = 1  W15m = 2  W1h = 4
    SLA = 1
    Faults = {"kill", "redis"}
    MaxFaults = 2
    MaxNow = 2
\* The topics are finite: the consumers stop at their ends.
CHECK_DEADLOCK FALSE
INVARIANTS
    WindowsExact
    LatestWeather
    FlaggedIsStale

SPECIFICATION FairSpec
CONSTANTS
    DriftThread = {d1, d2}
    Weekly = weekly
    Trainer = trainer
    Cooldown = 2
    Registries <- AnyRegistry
    MaxVersion = 2
    MaxTime = 3
    MaxFaults = 1
INVARIANTS
    OneRetrain
    TagsAreTrue
PROPERTIES
    DriftRunsApart
    RunsEnd
    LifecycleSpec

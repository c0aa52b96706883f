SPECIFICATION FairSpec
CONSTANTS
    Boot = boot
    Admin = {a1, a2}
    Request = {r1}
    Registries <- AnyRegistry
    MaxVersion = 2
    MaxFaults = 1
INVARIANTS
    TypeOK
    ServesProduction
    AuditMatchesAnswers
PROPERTIES
    PromoteServesIt
    LifecycleSpec
    Liveness

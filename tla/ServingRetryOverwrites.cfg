SPECIFICATION Spec
CONSTANTS
    Boot = boot
    Admin = {a1}
    Request = {}
    Registries <- AnyRegistry
    MaxVersion = 2
    MaxFaults = 1
INVARIANTS
    PromotionStays

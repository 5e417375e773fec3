SPECIFICATION Spec
CONSTANTS
    w1 = w1
    w2 = w2
    Items = {1, 2}
    Poison = {}
    Workers = {w1, w2}
    Limit = 2
    MaxAttempts = 2
    ExpCap = 2
    RetryCap = 5
    Retention = 1
    BusyClock = TRUE
    MaxCrashes = 1
SYMMETRY WorkerSymmetry
INVARIANTS
    TypeOK
    DeliveredMeansAccepted
PROPERTIES
    DeliveryFinal
    ImplementsDelivery

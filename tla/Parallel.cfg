SPECIFICATION Spec
CHECK_DEADLOCK FALSE
CONSTANTS
    Names <- MCNames
    Sources <- MCSources
    Tables <- MCTables
    Tolerance = 1
    MinimumObservations = 2
    MaxObservations = 3
INVARIANTS
    TypeOK
    ReadyIsExact
    BlockersExplain

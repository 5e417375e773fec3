SPECIFICATION Spec
CHECK_DEADLOCK FALSE
CONSTANTS
    Names = {"a", "b"}
    Inputs <- AllInputs
    Webs <- AllWebs
    Bodies <- AllBodies
    AllowPublicTargets = TRUE
    PageLimit = 1
    MaxChanges = 2
INVARIANTS
    TypeOK
    AllOrNothing
    OthersCameLater
    NothingUnreviewedRuns
    ReadyMeansImportable
    SilentMeansPreserved
    ActivatedJudgesAlike
    
    PagesComplete

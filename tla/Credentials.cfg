SPECIFICATION Spec
CHECK_DEADLOCK FALSE
CONSTANTS
    c1 = c1
    c2 = c2
    Senders = {c1, c2}
    Allowed = 2
    ConcurrentEdits = TRUE
    MaxSecrets = 2
    MaxEdits = 1
    MaxDelay = 1
    MaxTime = 3
SYMMETRY SenderSymmetry
INVARIANTS
    TypeOK
    NewestSecretOnly
    BeatsKept
    DownIsEarned
PROPERTY
    SilenceIsDown

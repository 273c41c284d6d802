SPECIFICATION Spec
CONSTANTS
    m1 = m1
    c1 = c1
    c2 = c2
    i1 = i1
    i2 = i2
    i3 = i3
    None = None
    Msgs <- OneMsg
    Callers <- TwoCallers
    Inodes <- ThreeInodes
    Later <- LaterStages
    Route <- Pipeline
    Deletes <- Visible
    Device <- SignedApart
    Retention <- Keep
    MaxAge = 2
    MaxIOErrors = 2
    MaxCrashes = 1
SYMMETRY Symmetric
INVARIANTS
    TypeOK
    VisibleIsComplete
    AckedIsKept
    FailedIsInvisible
    OneStage
    CleanupTakesOld
PROPERTY AtomicSpoolSpec

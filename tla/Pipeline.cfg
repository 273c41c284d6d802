SPECIFICATION Spec
CONSTANTS
    m1 = m1
    Msgs <- OneMsg
    Visible <- Stages
    Route <- Stations
    Retention <- KeepLongEnough
    MaxAttempts = 4
    RetrySchedule <- Schedule
    MaxLag = 1
    MaxLate = 2
    MaxCrashes = 1
    MaxAge = 15
INVARIANTS
    UnmovedIsFound
    KeptForRetries
PROPERTY SpoolDrains

SPECIFICATION Spec
CONSTANTS
    d1 = d1
    d2 = d2
    w1 = w1
    w2 = w2
    Deliveries <- TwoDeliveries
    Workers <- TwoWorkers
    MaxAttempts = 2
    RetrySchedule <- OneDelay
    BatchLimit = 2
    Replies <- AcceptRefuseOrFail
    MaxLate = 1
    MaxCrashes = 1
    MaxDbErrors = 1
    MaxLost = 0
SYMMETRY Symmetric
INVARIANTS
    TypeOK
    NoFalseSuccess
    SnapshotIsVersion
    AttemptsBounded
PROPERTY StaleOverwriteOnly

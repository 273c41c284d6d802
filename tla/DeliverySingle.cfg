SPECIFICATION Spec
CONSTANTS
    d1 = d1
    d2 = d2
    w1 = w1
    w2 = w2
    Deliveries <- TwoDeliveries
    Workers <- OneWorker
    MaxAttempts = 3
    RetrySchedule <- Delays
    BatchLimit = 2
    Replies <- AllReplies
    MaxLate = 1
    MaxCrashes = 1
    MaxDbErrors = 1
    MaxLost = 1
INVARIANT DuplicatesOnlyFromFaults
PROPERTY LifecycleSpec

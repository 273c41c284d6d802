SPECIFICATION Spec
CONSTANTS
    d1 = d1
    d2 = d2
    w1 = w1
    w2 = w2
    Deliveries <- OneDelivery
    Workers <- TwoWorkers
    MaxAttempts = 2
    RetrySchedule <- OneDelay
    BatchLimit = 2
    Replies <- AcceptOrRefuse
    MaxLate = 0
    MaxCrashes = 0
    MaxDbErrors = 0
    MaxLost = 0
PROPERTY PermFailIsFinal

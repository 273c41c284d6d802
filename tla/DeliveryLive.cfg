SPECIFICATION FairSpec
CONSTANTS
    d1 = d1
    d2 = d2
    w1 = w1
    w2 = w2
    Deliveries <- TwoDeliveries
    Workers <- TwoWorkers
    MaxAttempts = 2
    RetrySchedule <- OneDelay
    BatchLimit = 2
    Replies <- AcceptRefuseOrHang
    MaxLate = 0
    MaxCrashes = 0
    MaxDbErrors = 0
    MaxLost = 0
PROPERTIES
    EventuallySettled
    StopDrains

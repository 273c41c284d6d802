SPECIFICATION Spec
CONSTANTS
    c1 = c1
    c2 = c2
    c3 = c3
    c4 = c4
    c5 = c5
    Conns <- FiveConns
    GlobalLimit = 2
    Limit = 2
    Window = 3
    Grace = 1
    Faults <- AllFaults
    MaxInFlight = 3
    MaxCount = 4
SYMMETRY Symmetric
INVARIANTS
    TypeOK
    CounterIsExact
    OvershootBounded
    SlidingWindowKept
    FallbackBounded
PROPERTY QuietIsAdmitted

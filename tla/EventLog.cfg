SPECIFICATION Spec
CONSTANTS
    e1 = e1
    e2 = e2
    e3 = e3
    Worker = Worker
    Events <- ThreeEvents
    BufferSize = 2
INVARIANTS
    ExactlyOnce
    FullIsBeingFlushed
    LeftoverIsLate
PROPERTY EarlyIsWritten

SPECIFICATION Spec
CONSTANTS
    ListenerLists <- Lists
    MaxInFile = 2
    MaxInEnv = 1
    MaxSignals = 2
INVARIANT NothingServesMisconfigured
PROPERTIES
    ListenersServed
    ShutdownEnds

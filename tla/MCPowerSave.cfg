CONSTANTS
    MaxAwake = 1
    DrainGrace = 1
    RetryPeriod = 1
    GenMod = 1
SPECIFICATION FairSpec
INVARIANTS
    OwnershipExact
    WakeMatchesBusState
    DeadBusNotAwaited
PROPERTIES
    WindowCloses
    PairsReconciled

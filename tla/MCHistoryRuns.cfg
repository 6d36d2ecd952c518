SPECIFICATION RunsSpec
\* The clock ends at MaxNow.
CHECK_DEADLOCK FALSE
CONSTANTS
    HISTORY_CAPACITY = 3
    PENDING_CAPACITY = 1
    FLASH_CAPACITY = 4
    RUN_INDEX_CAPACITY = 2
    Intervals = {"A", "B"}
    DefaultInterval = "A"
    Requests = {0, 1}
    NoProgress = 1
    MaxTransfer = 1
    Faults = {"program", "record", "index", "read"}
    MaxNow = 6
    MaxEvents = 3
INVARIANTS
    AnchorsTrue
    RunsOnce
PROPERTIES
    DeliversTheRun

CONSTANTS
    Intervals = {10, 2000}
    Faults = {"config call", "start call", "stop call", "start", "stop"}
    MaxFaults = 2
    MaxStimuli = 4
SPECIFICATION LateOrFailingSpec
INVARIANTS
    SettledShowsCurrent
PROPERTIES
    QuietWhileConnected
    PayloadReturns
CHECK_DEADLOCK FALSE

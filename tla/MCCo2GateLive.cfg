CONSTANTS
    MaxAwake = 1
    DrainGrace = 1
    RetryPeriod = 1
    GenMod = 2
    Quiet = 2
    IdleStable = 2
    GuardTime = 1
    GraceTime = 1
    DebugCapture = FALSE
    Stimuli = {"usb", "rtrh"}
SPECIFICATION HealthyGateFairSpec
INVARIANTS
    LocksMatchPolicy
    PhaseMatchesPower
PROPERTIES
    EdgeHandoffEnds
    NativeWindowAwake
    SleepsBetweenWindows

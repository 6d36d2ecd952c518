CONSTANTS
    MaxAwake = 1
    DrainGrace = 1
    RetryPeriod = 1
    GenMod = 2
    Quiet = 1
    IdleStable = 1
    GuardTime = 1
    GraceTime = 1
    DebugCapture = FALSE
    Stimuli = {"energy"}
SPECIFICATION HealthyGateSpec
PROPERTIES
    NativeWindowAwake

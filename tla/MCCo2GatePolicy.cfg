CONSTANTS
    MaxAwake = 1
    DrainGrace = 0
    RetryPeriod = 1
    GenMod = 2
    Quiet = 1
    IdleStable = 1
    GuardTime = 1
    GraceTime = 1
    DebugCapture = TRUE
    Stimuli = {"usb", "energy", "netdown"}
\* Drivers that may fail, but not while Energy Save Mode or the network changes.
SPECIFICATION GateSpec
ACTION_CONSTRAINT
    QuietFaults
INVARIANTS
    CaptureFollowsPhase
PROPERTIES
    PromotionKeepsAwake

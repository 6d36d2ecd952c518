CONSTANTS
    Coalesce = 1
    Ppm = {1, 4, 5, 7}
    MinPlausible = 2
    MaxDelta = 1
    Interval = 2
    ProbeWait = 1
SPECIFICATION SampleFairSpec
PROPERTIES
    GlitchesConfirmed
    NewestPairCommitted
    HaCatchesUp

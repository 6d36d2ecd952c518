CONSTANTS
    Levels = {0, 1}
    MaxSamples = 3
    Timeout = 1
    PacketSamples = 2
    Rearms = TRUE
    CooldownInitial = 1
    CooldownMax = 4
    HealthyReset = 1
SPECIFICATION BuildSpec
INVARIANTS
    Listening
PROPERTIES
    FrozenBufferStays
    BackoffEarned
    ImplementsBuffer
    BufferRecycled

\* A whole CO2 measurement on a 25 kHz bus with stretched bytes, no clock wrap; RT/RH
\* phases of two slices.
SPECIFICATION Spec
CONSTANTS
    HalfBit = 20
    ByteGap = 40
    IdleTime = 1000
    MAX_FRAMES = 2
    MAX_DATA_BYTES = 4
    ClockMod = 65536
    MAX_SAMPLES = 200
    RecoveryCandidates = 32
    RecoverySdaEvents = 4
    RmtMaxRepairEdges = 16
    Wires <- MCWires
    Losses <- MCLosses
    Epochs <- MCEpochs
    RmtStates = {"overflow", "done"}
    RefEnd = 2
    RtEnd = 4
    WaveEnd = 6
    Quiet = 1
    Gap = 3
INVARIANTS
    SetupsResolved
    NeverMisread
    ClocksRepaired
    WaveformKept
    BeginsWithWave
    ValidIsOneWave
PROPERTIES
    MeasurementsGoOn

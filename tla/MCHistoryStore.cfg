CONSTANTS
    plain = plain
    marked = marked
    Samples = {plain, marked}
    FLASH_DATA_SECTORS = 3
    SAMPLES_PER_SECTOR = 2
    HISTORY_CAPACITY = 2
    PENDING_CAPACITY = 2
    RECORDS_PER_SECTOR = 2
    GenMod = 8
    FirstGen = 7
    FirstSlots = {5}
    LastGen = 2
    MaxMishaps = 2
    Errors = {"erase", "program", "record"}
SPECIFICATION MCSpec
INVARIANTS
    CountsAgree
    CleanIsDurable
PROPERTIES
    ImplementsLog

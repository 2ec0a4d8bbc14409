CONSTANTS
    TicksPerHour = 1
    HoursPerDay = 4
    PruneHour = 3
    Lookback = 2
    RawDays = 2
    Horizon = 16
SPECIFICATION RollupSpec
INVARIANT RolledUpBeforePruned
CHECK_DEADLOCK FALSE

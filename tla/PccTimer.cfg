\* Ticks no further apart than the credit of one Tick.
CONSTANTS
    Wrap = 4
    PerTick = 2
    MaxCredit = 7
    OvfCap = 3
    Preloads = {0, 2, 3}
    MaxGap = 7
SPECIFICATION TimerSpec
INVARIANTS NoTickLost
PROPERTIES ClockMonotonic OverflowComes
CHECK_DEADLOCK TRUE

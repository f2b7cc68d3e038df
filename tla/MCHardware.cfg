SPECIFICATION MCSpec
CONSTANTS
    IRQS = {0, 1}
    Handles = {a, b}
    NoHandle = NoHandle
    Names = {short, long}
    LongNames = {long}
    Truncated = Truncated
    MAX_COUNTERS = 2
    UINT = 3
    MaxDepth = 2
    Channels = {0, 1, 7}
    Sizes = {0, 1}
    Hours = {0, 19, 23, 24}
    Minutes = {9, 59, 60}
    Seconds = {0, 59, 60}
    Years = {10, 99, 100}
    Months = {0, 9, 12, 13}
    Days = {0, 1, 31, 255}
    TimerPeriods = {0, 1, 2, 3}
    WORD = 4
    MaxReads = 9
INVARIANTS
    BoardTypeOK
    NoTriggerLost
    NoServiceRepeated
    DriverSeesAll
    OwnerAgrees
    CountersAreExact
    ClockReportsWhatWasSet
    TimerCountsModuloPeriod
PROPERTY
    TickServesAll

\* Two tasks of any two priorities that share a semaphore; task functions yield, take
\* and give, and always return.  No delays: a body that waits need not return.
SPECIFICATION MCSpec
CONSTANTS
    MAX_TASKS = 2
    UINT = 3
    Priorities = {1, 2}
    Periods = {0, 2}
    Delays = {}
    MaxDepth = 2
    InitialCounts = {0, 1, 2}
    MaxCounts = {0, 1}
INVARIANTS
    UnitsAccountedFor
    OnlyExcessIsRefused
PROPERTIES
    FirstChoiceKeepsRunning
    UnitComesBack

\* Nested ticks, two tasks, a clock of four values that wraps.
SPECIFICATION Spec
CONSTANTS
    MAX_TASKS = 2
    UINT = 4
    Priorities = {1, 2}
    Periods = {0, 2}
    Delays = {0, 1}
    MaxDepth = 3
INVARIANTS TypeOK NoTaskLost ReentryNeedsPeriod TickAccounting SchedulerInv
PROPERTY MissIsReal
\* A delay that has not wrapped never ends: the program hangs there.
CHECK_DEADLOCK FALSE

SPECIFICATION TestSpec
CONSTANTS
    MAX_TASKS = 2
    UINT = 1000
    Priorities = {1}
    Periods = {2}
    Delays = {}
    MaxDepth = 2
INVARIANT BothTasksRan

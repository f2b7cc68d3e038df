SPECIFICATION HubSpec
CONSTANTS
    MAX_TASKS = 8
    UINT = 100000
    Priorities = {1, 2, 3}
    Periods = {10, 50, 1000}
    Delays = {10, 50, 1000}
    MaxDepth = 8
PROPERTY SensorSamplesAgain
CHECK_DEADLOCK FALSE

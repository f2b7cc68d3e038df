\* Buffers of one to three bytes in both modes.
CONSTANTS
    a = a
    b = b
    Bytes = {a, b}
    Junk = Junk
    Capacities = {1, 2, 3}
    Data <- MCData
    Sizes = {0, 1, 2, 4}
    Sources <- MCSources
SPECIFICATION Spec
INVARIANTS TypeOK ReadWindowStable WriteWindowStable
PROPERTY ImplementsByteQueue

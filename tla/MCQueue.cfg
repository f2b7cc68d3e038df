\* Three elements and every capacity up to 3, the empty queue included.
CONSTANTS
    Elements = {e1, e2, e3}
    Capacities = {0, 1, 2, 3}
    NULL = NULL
    Junk = Junk
    NoValue = NoValue
SPECIFICATION Spec
INVARIANTS TypeOK RingConsistent
PROPERTY ImplementsFifo

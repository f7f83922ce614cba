\* Four requests on three databases, with room for the locks of two in the LRU
\* tables.  A request is sent once, and only the scheduler never stops: without
\* it the system may.
CONSTANTS
    d1 = d1
    d2 = d2
    d3 = d3
    Databases = {d1, d2, d3}
    Writers = {a1, a2}
    Loaders = {l1, l2}
    Operators = {o1, o2}
    Workers = {w1, w2}
    Locks = {1, 2, 3, 4, 5, 6, 7, 8}
    Capacity = 2
    SourceInterval <- MCSourceInterval
    BaseInterval <- MCBaseInterval
    DefaultInterval = 48
    MaxFaults = 1
    None = None
SPECIFICATION FairSpec
CHECK_DEADLOCK FALSE
INVARIANTS
    TypeOK
    OneLock
    Exclusive
PROPERTIES
    DueBackedUp
    CallsEnd

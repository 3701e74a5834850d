\* One message, far below the buffer size, and one restart of car-bridge.
CONSTANTS
    Streams = {s1}
    t1 = t1
    t2 = t2
    wild = wild
    Topics = {t1, t2}
    Matches <- ExactFilters
    Capacity = 2
    MaxMessages = 1
    MaxDisconnects = 0
    MaxRestarts = 1
    None = None

SPECIFICATION Spec

INVARIANT NoLossWithinBuffer

CHECK_DEADLOCK FALSE

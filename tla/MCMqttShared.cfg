\* Two subscriptions on different topics share the one receiver that
\* get_stream returned.
CONSTANTS
    Streams = {s1, s2}
    t1 = t1
    t2 = t2
    wild = wild
    Topics = {t1, t2}
    Matches <- ExactFilters
    Capacity = 2
    MaxMessages = 2
    MaxDisconnects = 0
    MaxRestarts = 0
    None = None

SPECIFICATION Spec

INVARIANT NoMessageFiltered

CHECK_DEADLOCK FALSE

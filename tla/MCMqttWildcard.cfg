\* One subscription whose topic argument is a wildcard filter selecting
\* both topics.
CONSTANTS
    Streams = {s1}
    t1 = t1
    t2 = t2
    wild = wild
    Topics = {t1, t2}
    Matches <- WildcardFilter
    Capacity = 2
    MaxMessages = 1
    MaxDisconnects = 0
    MaxRestarts = 0
    None = None

SPECIFICATION Spec

INVARIANT NoMessageFiltered

CHECK_DEADLOCK FALSE

\* One subscription and one connection loss, which ends the session.
CONSTANTS
    Streams = {s1}
    t1 = t1
    t2 = t2
    wild = wild
    Topics = {t1, t2}
    Matches <- ExactFilters
    Capacity = 2
    MaxMessages = 1
    MaxDisconnects = 1
    MaxRestarts = 0
    None = None

SPECIFICATION Spec

INVARIANT StreamsStaySubscribed

CHECK_DEADLOCK FALSE

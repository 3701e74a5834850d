\* One subscription: the way car-bridge is exercised when a single topic is
\* subscribed.  The broker sends 3 messages into a channel of 2 slots; one
\* connection loss (whose None may precede a subscription) and one restart
\* may happen.  The run quiesces once the messages are consumed, so
\* deadlock is not checked.
CONSTANTS
    Streams = {s1}
    t1 = t1
    t2 = t2
    wild = wild
    Topics = {t1, t2}
    Matches <- ExactFilters
    Capacity = 2
    MaxMessages = 3
    MaxDisconnects = 1
    MaxRestarts = 1
    None = None

SPECIFICATION Spec

INVARIANT
    TypeOK

PROPERTY
    QueuedEventuallyYielded

CHECK_DEADLOCK FALSE

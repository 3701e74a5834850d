\* Two channel ids, two sources, up to 2 serving tasks and 2 publications
\* per source.  Publications are bounded, so the system quiesces and
\* deadlock is not checked.
CONSTANTS
    ChannelIds = {c1, c2}
    Sources = {a, b}
    MaxTasks = 2
    MaxPublish = 2

SPECIFICATION Spec

INVARIANT
    TypeOK

PROPERTY
    EventuallyServed

CHECK_DEADLOCK FALSE

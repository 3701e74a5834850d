\* Every sequence of up to 4 events for one intent, from an existing or a
\* missing entry: a prune event and three bindings, or four bindings.  The
\* enumeration ends at the longest sequences, so deadlock is not checked.
CONSTANT MaxEvents = 4

SPECIFICATION Spec

INVARIANT
    TransitionIsNetEffect

CHECK_DEADLOCK FALSE

\* Both observers behind the Composite may panic in on_change; upserts go
\* on after a panic, on the state the panicking upsert committed.
CONSTANTS
    svcA = svcA
    svcB = svcB
    url1 = url1
    url2 = url2
    ServiceIds <- MCServiceIds
    Endpoints <- MCEndpoints
    Intents <- MCIntents
    AsciiLower <- MCAsciiLower
    MaxIntents = 2
    PanickingSinks = {"left", "right"}

SPECIFICATION Spec

VIEW RegistryView

INVARIANTS
    BindingsMatchKnown

PROPERTIES
    RefinesCatalog

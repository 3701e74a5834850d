CONSTANTS
    svcA = svcA
    svcB = svcB
    url1 = url1
    url2 = url2
    ServiceIds <- MCServiceIds
    Endpoints <- MCEndpoints
    Intents <- MCIntents
    AsciiLower <- MCAsciiLower
    MaxIntents = 2
    PanickingSinks = {}

SPECIFICATION Spec

INVARIANTS
    TypeOK
    NoPanic
    NoEmptyEntry
    BindingsMatchKnown
    NoReservedBinding
    SinksInSync

PROPERTY
    RefinesCatalog

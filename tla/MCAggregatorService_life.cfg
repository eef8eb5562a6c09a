SPECIFICATION Spec
CONSTANTS
    p1 = p1
    late = late
    other = other
    Partitions = {p1}
    Events <- MCEvents
    Topic <- Both
    Parseable <- MCParseable
    CommitInterval = 0
    ChanCap = 1
    MonthFirst <- MCMonthFirst
    IdOf <- OneId
    TypeOf <- MCTypeOf
    StartedAt <- MCStartedAt
    Zone <- MCZone
    Opening = 25
    LateEventThreshold = 2
    DirtyCap = 1
    MaxUpsertFaults = 1
    MaxHours = 1
    MaxStarts = 2
    MaxStops = 1
INVARIANTS
    TypeOK
    RecountBounded
PROPERTIES
    ImplementsMessageFate
CHECK_DEADLOCK FALSE

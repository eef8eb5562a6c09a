SPECIFICATION FairSpec
CONSTANTS
    p1 = p1
    late = late
    other = other
    Partitions = {p1}
    Events <- MCEvents
    Topic <- Both
    Parseable <- MCParseable
    CommitInterval = 0
    ChanCap = 1
    MonthFirst <- MCMonthFirst
    IdOf <- TwoIds
    TypeOf <- MCTypeOf
    StartedAt <- MCStartedAt
    Zone <- MCZone
    Opening = 25
    LateEventThreshold = 0
    DirtyCap = 1
    MaxUpsertFaults = 1
    MaxHours = 0
    MaxStarts = 1
    MaxStops = 1
PROPERTIES
    EventuallyCounted
    ShutdownEnds
CHECK_DEADLOCK FALSE

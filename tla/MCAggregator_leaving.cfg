SPECIFICATION Spec
CONSTANTS
    p1 = p1
    late = late
    next = next
    Partitions = {p1}
    Events <- MCEvents
    Topic <- Redelivered
    Parseable <- MCEvents
    ChanCap = 1
    MonthFirst <- MCMonthFirst
    IdOf <- MCIdOf
    TypeOf <- MCTypeOf
    StartedAt <- MCStartedAt
    Zone <- MCZone
    Opening = 24
    LateEventThreshold = 0
    DirtyCap = 1
    MaxUpsertFaults = 0
    MaxHours = 0
INVARIANT FlushedBeforeLeaving
CHECK_DEADLOCK FALSE

SPECIFICATION FairSpec
CONSTANTS
    s1 = s1
    s2 = s2
    earlier = earlier
    Others <- MCOthers
    ZoneOf <- MCZoneOf
    Senders = {s1, s2}
    TotalEvents = 4
    DuplicateEvents = 13
    BatchSize = 2
    MaxFailures = 3
    MonthFirst <- MCMonthFirst
    StartedAt <- MCStartedAt
    TypeOf <- MCTypeOf
    LocalZone = 3
    ChunkSize = 2
    MaxVerifyIterations = 2
    MaxCounts = 2
INVARIANTS
    TypeOK
    AnswerIsRight
    DuplicatesSent
    
    
PROPERTIES
    VerdictComes
CHECK_DEADLOCK FALSE

SPECIFICATION Spec
CONSTANTS
    e1 = e1
    e2 = e2
    e3 = e3
    bad = bad
    invalid = invalid
    unstorable = unstorable
    p1 = p1
    p2 = p2
    w1 = w1
    w2 = w2
    id = id
    phone = phone
    nilId = nilId
    noPhone = noPhone
    garbled = garbled
    absent = absent
    Ids <- MCIds
    Phones <- MCPhones
    NilId = nilId
    NoPhone = noPhone
    Garbled = garbled
    Absent = absent
    ZeroTime = 0
    TableFrom = 5000
    TableUpTo = 60000
    Partitions = {p1, p2}
    Events <- MCEvents
    Topic <- TopicMixed
    Parseable <- MCParseable
    Valid <- MCValid
    Storable <- MCStorable
    CommitInterval = 1
    ChanCap = 2
    Workers = {w1, w2}
    BatchSize = 1
    RetryAttempts = 2
    MaxFaults = 1
    MaxStarts = 2
    MaxStops = 1
INVARIANTS
    AckedIsStored
CHECK_DEADLOCK FALSE

SPECIFICATION Spec
CONSTANTS
    LastEvent = 4
    Outboxed <- Lifecycle
    EventOf <- OneSession
    Filters <- SomeFilters
    HistoryLimit = 3
    MaxPendingEvents = 2
    MaxPendingBytes = 3
    MaxConnections = 3
    MaxGeneration = 1
    MaxPurged = 1
PROPERTY
    TimelineAlwaysEnds
CHECK_DEADLOCK FALSE

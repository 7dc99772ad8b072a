SPECIFICATION LiveSpec
CONSTANTS
    s1 = s1
    s2 = s2
    s3 = s3
    Sessions <- TwoSessions
    MaxOrdinal = 1
    Instances = {1}
    Capacity <- OneSlot
    MaxActiveSessions = 2
    LeaseTicks = 2
    MaxAge = 1
    Requests <- Managed
    Verdicts = {FALSE}
    Observations <- AlwaysReady
    FleetLimits <- OneFleet
    CloudLimits <- NoCloud
INVARIANTS
    TypeOK
    SlotsWithinCapacity
    EndedSessionsHoldNothing
PROPERTIES
    TerminalIsFinal
    LeaseProtects
    NobodyStuck

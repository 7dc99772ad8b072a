SPECIFICATION Spec
CONSTANTS
    s1 = s1
    s2 = s2
    s3 = s3
    Sessions <- TwoSessions
    MaxOrdinal = 1
    Instances = {1}
    Capacity <- OneSlot
    MaxActiveSessions = 2
    LeaseTicks = 2
    MaxAge = 1
    Requests <- Managed
    Verdicts = {TRUE, FALSE}
    Observations <- AlwaysReady
    FleetLimits <- OneFleet
    CloudLimits <- NoCloud
SYMMETRY SessionSymmetry
INVARIANTS
    NoSharedSlot

SPECIFICATION Spec
CONSTANTS
    s1 = s1
    s2 = s2
    s3 = s3
    Sessions <- TwoSessions
    MaxOrdinal = 2
    Instances = {1}
    Capacity <- OneSlot
    MaxActiveSessions = 1
    LeaseTicks = 1
    MaxAge = 0
    Requests <- AnyProvider
    Verdicts <- Failed
    Observations <- AlwaysReady
    FleetLimits <- TwoFleets
    CloudLimits <- TwoClouds
SYMMETRY SessionSymmetry
INVARIANTS
    OneAcquisitionAtATime

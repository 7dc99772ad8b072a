SPECIFICATION Spec
CONSTANTS
    s1 = s1
    s2 = s2
    s3 = s3
    Sessions <- ThreeSessions
    MaxOrdinal = 1
    Instances = {1}
    Capacity <- OneSlot
    MaxActiveSessions = 2
    LeaseTicks = 1
    MaxAge = 0
    Requests <- Managed
    Verdicts <- Failed
    Observations <- OnAndOff
    FleetLimits <- DeepQueue
    CloudLimits <- NoCloud
SYMMETRY SessionSymmetry
INVARIANTS
    SessionsWithinCapacity
PROPERTIES
    GrantedInQueueOrder
    ImplementsPool

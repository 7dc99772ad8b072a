SPECIFICATION Spec
CONSTANTS
    PatternMinComparisons = 1
    PatternMaxContradictions = 2
    MaxFaults = 1
    MaxEvidence <- NoEvidence
CHECK_DEADLOCK FALSE
INVARIANTS
    LateAdmissionsReleased

SPECIFICATION LiveSpec
CONSTANTS
    PatternMinComparisons = 1
    PatternMaxContradictions = 2
    MaxFaults = 1
    MaxEvidence <- Evidence
CHECK_DEADLOCK FALSE
INVARIANTS
    PlainNeedsEvidence
    ResolversGated
    RendersOnlyWhatItHolds
    CapacityReturned
    ReportsTruthful
PROPERTIES
    CaptureEnds

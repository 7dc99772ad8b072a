SPECIFICATION Spec
CONSTANTS
    a1 = a1
    Attempts = {a1}
    Events <- MCEvents
    Usage <- MCUsage
    Measured <- MCMeasured
    DefaultRate = 1200
    Rates = {0, 1200}
    EarlierStats <- MCEarlierStats
    Overhead = "overhead"
    Other = "other"
    MaxMethods = 3
    MaxDeliver = 2
    MaxFaults = 1
    MaxLosses = 1
    MaxRateChanges = 0
PROPERTIES
    RetainedReplayed

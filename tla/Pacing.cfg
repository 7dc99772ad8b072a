SPECIFICATION Spec
CONSTANTS
    c1 = c1
    c2 = c2
    c3 = c3
    Captures = {c1, c2, c3}
    Settings <- TwoSettings
    RetryAfters = {2}
    LeaseTicks = 2
    MaxVersions = 2
    MaxGeneration = 3
    Far = 6
SYMMETRY CaptureSymmetry
INVARIANTS
    LearnedStateSound
PROPERTIES
    StartsRespectPolicy
    BurstCountsOnce

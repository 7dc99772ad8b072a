SPECIFICATION Spec
CONSTANTS
    c1 = c1
    c2 = c2
    c3 = c3
    Captures = {c1, c2}
    Settings <- TwoSettings
    RetryAfters = {}
    LeaseTicks = 2
    MaxVersions = 2
    MaxGeneration = 4
    Far = 6
SYMMETRY CaptureSymmetry
INVARIANTS
    RowSurvivesInsert

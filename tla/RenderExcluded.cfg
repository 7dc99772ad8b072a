SPECIFICATION Spec
CONSTANTS
    Renders = {r1, r2}
    Modes <- AllModes
    ConnectTries = 2
    ChallengePolls = 1
    ProgressPolls = 2
    Rounds = 1
    MaxDeaths = 2
    MaxFaults = 1
INVARIANTS
    NothingOfExcludedKept
CHECK_DEADLOCK FALSE

SPECIFICATION Spec
CONSTANTS
    u1 = u1
    u2 = u2
    a1 = a1
    a2 = a2
    Pods = {u1, u2}
    MaxReplicas = 2
    Attempts = {a1}
    Configurations <- AnySize
    Cooldown = 1
    PodsFail = TRUE
SYMMETRY FleetSymmetry
INVARIANTS
    DrainedStayIdle

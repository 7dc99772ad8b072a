SPECIFICATION Spec
CONSTANTS
    u1 = u1
    u2 = u2
    a1 = a1
    a2 = a2
    Pods = {u1, u2}
    MaxReplicas = 1
    Attempts = {a1}
    Configurations <- Resized
    Cooldown = 1
    PodsFail = FALSE
SYMMETRY FleetSymmetry
PROPERTIES
    ReconfigurationWaits

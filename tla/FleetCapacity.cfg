SPECIFICATION LiveSpec
CONSTANTS
    u1 = u1
    u2 = u2
    a1 = a1
    a2 = a2
    Pods = {u1, u2}
    MaxReplicas = 1
    Attempts = {a1, a2}
    Configurations <- Resized
    Cooldown = 1
    PodsFail = FALSE
INVARIANTS
    WithinWorkerCapacity
PROPERTIES
    IdleFleetSettles

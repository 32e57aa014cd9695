SPECIFICATION MCFairSpec
CONSTANTS
    Pools = {a}
    Versions = {1, 2}
    SKUs = {small, large}
    MaxReplicas = 2
    MaxFaults = 0
    MaxEdits = 2
    CanRevert = TRUE
    CanHurry = TRUE
    CanResize = TRUE
    Absent = Absent
PROPERTY Converges
PROPERTY OwnsByContract
CHECK_DEADLOCK FALSE

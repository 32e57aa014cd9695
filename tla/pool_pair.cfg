SPECIFICATION MCSpec
CONSTANTS
    Pools = {a, b}
    Versions = {1}
    SKUs = {small}
    MaxReplicas = 1
    MaxFaults = 0
    MaxEdits = 0
    CanRevert = FALSE
    CanHurry = FALSE
    CanResize = FALSE
    Absent = Absent
PROPERTY WantedKept
CHECK_DEADLOCK FALSE

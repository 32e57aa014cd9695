SPECIFICATION MCSpec
CONSTANTS
    Pools = {a}
    Versions = {1, 2}
    SKUs = {small}
    MaxReplicas = 2
    MaxFaults = 1
    MaxEdits = 2
    CanRevert = FALSE
    CanHurry = FALSE
    CanResize = FALSE
    Absent = Absent
INVARIANT TypeOK
INVARIANT RetireAfterSuccess
INVARIANT ReportHonest
PROPERTY KeepsSucceeded
PROPERTY WantedKept
CHECK_DEADLOCK FALSE

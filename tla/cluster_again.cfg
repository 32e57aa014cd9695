SPECIFICATION Spec
CONSTANTS
    Count = 3
    Failing = {}
    MaxFaults = 0
    MaxCreates = 2
    MaxDeletes = 0
    CanRepeat = TRUE
    Absent = Absent
PROPERTY ClusterKept
CHECK_DEADLOCK FALSE

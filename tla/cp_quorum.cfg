SPECIFICATION Spec
CONSTANTS
    Count = 3
    Versions = {1, 2, 3}
    Failing = {}
    MaxFaults = 0
    MaxEdits = 1
    CanRevert = FALSE
    CanHurry = FALSE
    Absent = Absent
PROPERTY QuorumKept

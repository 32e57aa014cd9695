SPECIFICATION Spec
CONSTANTS
    Count = 3
    Versions = {1, 2}
    Failing = {"script"}
    MaxFaults = 1
    MaxEdits = 1
    CanRevert = FALSE
    CanHurry = FALSE
    Absent = Absent
INVARIANT ServersUpgraded

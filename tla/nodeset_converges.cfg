SPECIFICATION FairSpec
CONSTANTS
    VMs = {1, 2, 3}
    MaxReplicas = 2
    PageSize = 3
    Failing = {"api", "list", "put", "drain", "share"}
    MaxFaults = 1
    MaxEdits = 1
    Absent = Absent
PROPERTY Converges
CHECK_DEADLOCK FALSE

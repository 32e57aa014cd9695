SPECIFICATION Spec
CONSTANTS
    VMs = {1, 2, 3}
    MaxReplicas = 2
    PageSize = 3
    Failing = {"delete"}
    MaxFaults = 1
    MaxEdits = 1
    Absent = Absent
INVARIANT NoOrphanVMSS
CHECK_DEADLOCK FALSE

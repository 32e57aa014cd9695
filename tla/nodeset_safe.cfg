SPECIFICATION Spec
CONSTANTS
    VMs = {1, 2, 3}
    MaxReplicas = 2
    PageSize = 3
    Failing = {"api", "put", "drain", "vm", "restart"}
    MaxFaults = 1
    MaxEdits = 2
    Absent = Absent
INVARIANT TypeOK
INVARIANT NoOrphanVMSS
INVARIANT StatusListsVMs
PROPERTY DrainBeforeRemove
PROPERTY SettledStays
PROPERTY KeepsContract
CHECK_DEADLOCK FALSE

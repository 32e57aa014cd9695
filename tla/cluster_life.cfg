SPECIFICATION FairSpec
CONSTANTS
    Count = 3
    Failing = {"group", "network", "put", "delete", "apply", "api", "interrupt", "restart"}
    MaxFaults = 3
    MaxCreates = 3
    MaxDeletes = 2
    CanRepeat = FALSE
    Absent = Absent
INVARIANT TypeOK
INVARIANT FinalizerFirst
INVARIANT KeysAgree
INVARIANT SaidGone
INVARIANT Prepared
PROPERTY ClusterKept
PROPERTY ControlPlaneLives
PROPERTY DeletedGoes
CHECK_DEADLOCK FALSE

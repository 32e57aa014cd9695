SPECIFICATION FairSpec
CONSTANTS
    Count = 3
    Versions = {1, 2, 3}
    Failing = {"api", "list", "put", "azure", "script", "restart"}
    MaxFaults = 2
    MaxEdits = 2
    CanRevert = FALSE
    CanHurry = FALSE
    Absent = Absent
INVARIANT TypeOK
INVARIANT HonestReport
INVARIANT OneAtATime
INVARIANT VersionSkew
PROPERTY SettledStays
PROPERTY KeepsContract
PROPERTY Converges

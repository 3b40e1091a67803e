SPECIFICATION Spec
CONSTANTS
    Hosts = {"primary", "recovery"}
    MaxDrillTime = 1
    MaxArchiveTime = 1
    MaxCopyTime = 1
    MaxTime = 2
    MaxDrillingTime = 1
    MaxFaults = 1
    None = None
INVARIANTS
    ManifestsComplete
    ReceiptsNameExports
    LatestReceiptsNameNewestCopies
    DrillsRestoreExports
CHECK_DEADLOCK FALSE

SPECIFICATION FairSpec
CONSTANTS
    s1 = s1
    s2 = s2
    t1 = t1
    f1 = f1
    f2 = f2
    None = None
    Scans <- MCScans
    Targets <- MCTargets
    Findings <- MCFindings
    Critical <- MCCritical
    MaxCrashes = 1
    MaxErrors = 1
CHECK_DEADLOCK FALSE
INVARIANTS
    NoStrandedScan
    RowsAgree
    ReportsGrounded
PROPERTIES
    OnlyScanNowRegresses
    RefinesRegistry
    EveryScanSettles
    

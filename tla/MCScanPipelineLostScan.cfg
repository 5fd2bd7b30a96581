SPECIFICATION Spec
CONSTANTS
    s1 = s1
    s2 = s2
    t1 = t1
    f1 = f1
    f2 = f2
    None = None
    Scans <- MCScans
    Targets <- MCTargets
    Findings <- MCOneFinding
    Critical <- MCCritical
    MaxCrashes = 1
    MaxErrors = 0
CHECK_DEADLOCK FALSE
INVARIANT InterruptedScansAreRecovered

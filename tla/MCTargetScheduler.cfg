SPECIFICATION Spec
CONSTANTS
    t1 = t1
    h1 = h1
    h2 = h2
    h3 = h3
    Targets <- MCTargets
    Handlers <- MCThree
    Schedules <- MCSchedules
    Parsed <- MCParsed
    None = None
    MaxCrashes = 1
SYMMETRY Symmetry

    
PROPERTY OnlyOverlapFails
CHECK_DEADLOCK FALSE

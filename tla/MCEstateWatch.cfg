SPECIFICATION EstateSpec
CONSTANTS
    c1 = c1
    t1 = t1
    t2 = t2
    Targets <- MCTargets
    Clients <- MCClients
    Shapes <- MCShapes
    Lines <- MCLines
    ScoreOf <- MCScoreOf
    BandOf <- MCBandOf
    Horizons <- MCHorizons
    Inventories <- MCInventories
    Default = 10
    MaxScans = 2
    MaxAlerts = 2
    Absent = Absent
SYMMETRY MCSymmetry
INVARIANTS
    AlertsNotSilent
    
    
    
CHECK_DEADLOCK FALSE

SPECIFICATION AuditSpec
CONSTANTS
    w1 = w1
    w2 = w2
    w3 = w3
    Writers <- MCWriters
    Actions <- MCActions
    MayChangeNothing <- MCMayChangeNothing
    Nobody = Nobody
    MaxRecords = 3
SYMMETRY Symmetry
INVARIANTS
    FlushedRecordsLink
    
CHECK_DEADLOCK FALSE

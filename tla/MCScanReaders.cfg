SPECIFICATION ReadersSpec
CONSTANTS
    Trees <- MCTrees
    Archives <- MCArchives
    MaxUpload = 4
    MaxUncompressed = 6
    MaxFiles = 3
    MaxRatio = 3
    Nothing = Nothing
    RootDirs = {"srv"}
    Detected <- MCDetected
    Every = 2
    Ids = {1, 2, 3, 4}
    Paths <- MCPaths
    RiskAt <- MCRiskAt
    Remedied = {"rsa", "md5"}
    ZValues = {5, 15}
    FirstHorizon = 5
    AskedBand = "critical"
    PageSize = 1
CHECK_DEADLOCK FALSE
INVARIANTS
    
    TraversalExact
    ReplayExact
    ViewsAgree

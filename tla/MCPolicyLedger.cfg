SPECIFICATION Spec
CONSTANTS
    None = None
    Targets = {"t"}
    Patterns <- MCPatterns
    Paths <- MCPaths
    Matches <- MCMatches
    PolicyIds = {"policy_default"}
    DefaultId = "policy_default"
    DefaultPolicy <- MCDefaultPolicy
    PolicyBodies <- MCPolicyBodies
    Writers = {"w1"}
    Records <- MCRecords
    Files <- MCFiles
    s1 = s1
    s2 = s2
    Scans <- MCScans
    Detections <- MCDetections
    Horizons = {20}
SYMMETRY MCSymmetry
INVARIANTS
    TypeOK
    ImportStands
    OperatorPrevails
    ScoresSound
    RemedyForRisk

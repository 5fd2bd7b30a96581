SPECIFICATION Spec
CONSTANTS
    Size = 5
    Bytes = 5
    TableSize = 3
    WordSize = 2
    TableWords = 1
    Frame = 2
    MatchLengths <- MCMatchLengths
    Window = 2
    Stride = 1
    None = None
    Rules <- MCRules
    Predicates <- MCPredicates
    AppliesTo <- MCAppliesTo
    Gap = 1
    FindingRanges <- MCFindingRanges
    TopN = 1
    MaxSpans = 3
INVARIANTS
    
    LedgerSound
    ClustersPartition
    Conservation
CHECK_DEADLOCK FALSE

SPECIFICATION Spec
CONSTANTS
    c1 = c1
    c2 = c2
    o1 = o1
    Clusters <- MCClusters
    Hash <- MCHash
    Clients <- MCClients
    Texts <- MCTexts
    Blank = "blank"
    Occurrences <- MCOccurrences
    Targets <- MCTargets
    Bodies <- MCBodies
    None = None
SYMMETRY MCSymmetry
INVARIANTS
    ExclusionJustified
PROPERTIES
    PromotedLeftOnlyIfOvertaken
    EvidenceKept

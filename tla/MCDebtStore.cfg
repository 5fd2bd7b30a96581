SPECIFICATION DebtSpec
CONSTANTS
    p1 = p1
    p2 = p2
    k1 = k1
    k2 = k2
    Processes <- MCProcesses
    Hashes <- MCHashes
    Phrases <- MCPhrases
    Empty = ""
    Promoter = "engine-promoter"
    Torn = Torn
    NoCommand = NoCommand
SYMMETRY MCSymmetry

    
PROPERTY NeverResurfaces

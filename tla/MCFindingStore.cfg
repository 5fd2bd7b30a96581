SPECIFICATION Spec
CONSTANTS
    p1 = p1
    Findings <- MCFindings
    Probers <- MCOneProber
    Weight <- MCWeight
    Years <- MCYears
    Broken <- MCBroken
    PrivateKeys <- MCPrivateKeys
    Horizons <- MCHorizons
    Default <- MCDefault
    Statuses <- MCStatuses
    None = None
INVARIANTS
    BandsCountFindings
    ScoresOfOneHorizon
    TriageKept
PROPERTY MarkLostOnlyIfOvertaken

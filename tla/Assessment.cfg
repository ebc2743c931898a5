SPECIFICATION MCSpec
CONSTANTS
    None = None
    Categories <- MCCategories
    RisingMin = 1
    AttentionSome = 1
    AttentionStrong = 5
    CrowdedMin = 100
    PullWeak = 1
    PullStrong = 3
    FundingWeak = 1
    FundingStrong = 10
    Unit = 10000
    Weights <- MCWeights
    RegulatedCategories <- MCRegulated
    PullReference = 3
    SlopeReference = 3
    CitationSaturation = 5
    NeighbourCrowded = 100
    FundingReference = 10
    Blank = " "
    TaxonomyTerms <- MCTaxonomyTerms
    TopK = 5
    MinScore = 5
    Regulations <- MCRegulations
    Unset = Unset
    Garbled = Garbled
    PatentAgeDateKeys <- MCPatentKeys
    ProjectEndDateKeys <- MCProjectKeys
    MinAgeYears = 3
    MaxAgeYears = 10
    FeeStatusIn <- MCFees
    RequireNoActiveLicence = TRUE
    MinYearsSinceEnd = 1
    MaxYearsSinceEnd = 5
    RequireNoExploitationEvent = TRUE
    RequireOrgOwnership = TRUE
    OrgConfigured = TRUE
    SectorTerms <- MCSectorTerms
    MinTerms = 1
    Answers <- MCAnswers
    Assets <- MCAssets
    Days <- MCDays
    Terms <- MCTerms
INVARIANTS
    SprintIsCrossStream
    OnlyS2LossPromotes
    ScoreFollowsReadings
    MoreIsNotLess
    StaysInSector
CHECK_DEADLOCK FALSE

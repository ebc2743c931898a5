SPECIFICATION Spec
CONSTANTS
    Assets = {a1}
    Workers = {w1, w2}
    Streams <- MCStreams
    LiveStreams <- MCLive
    StreamOrder <- MCOrder
    CoverageFloor = 50
    MaxBatches = 2
    Runs <- MCRuns
    NoAsset = NoAsset
SYMMETRY MCSymmetry
INVARIANTS
    SourcesResolve
    NothingSurvivesDeletion
    EvidenceOfOneRun
    CleanRunIsWhole
PROPERTIES
    ScoreKeptUntilDeletion
CHECK_DEADLOCK FALSE

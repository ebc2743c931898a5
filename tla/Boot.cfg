SPECIFICATION SeedSpec
CONSTANTS
    Assets = {a1, a2, a3}
    Workers = {w1}
    Streams <- MCNoStreams
    LiveStreams <- MCNoStreams
    StreamOrder <- MCNoOrder
    CoverageFloor = 50
    MaxBatches = 2
    Runs <- MCRuns
    NoAsset = NoAsset
    Demos = {d1, d2}
    MaxBoots = 2
    NoDemo = NoDemo
INVARIANTS
    DemoStoredOnce
PROPERTIES
    StoreSpec
    OthersUntouched
    EveryAssetAnswered
    CleanBootServes
CHECK_DEADLOCK FALSE

SPECIFICATION Spec
CONSTANTS
    Assets = {a1, a2}
    Streams = {S2}
    Runs <- MCRuns
    Ingesters = {i1, i2}
    Refs <- MCRefs
    Docs <- MCDocs
    Response <- MCResponse
    Neighbours <- MCNeighbours
    Bare <- MCBare
    RefLists <- MCRefLists
    MaxIngests = 2
    NoDoc = NoDoc
SYMMETRY MCSymmetry
INVARIANTS
    OneAssetPerDocument
    SkippedWasStoredOrCited
    ReportComplete
CHECK_DEADLOCK FALSE

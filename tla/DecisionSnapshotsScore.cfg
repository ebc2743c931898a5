CONSTANTS
    Assets <- MCAssets
    Members = {m1}
    Values = {0, 8}
    GoodOutcomes = {spun_out}
    BadOutcomes = {abandoned}
    OpenOutcomes = {in_progress}
    InitialScores <- MCScores
    MinSample = 2
    MinSeparation = 4
    MaxTime = 1
    MaxDecisions = 2
    MaxOutcomes = 2
    MaxCalls = 5
    None = None
SPECIFICATION Spec
CHECK_DEADLOCK FALSE
PROPERTIES
    DecisionSnapshotsScore

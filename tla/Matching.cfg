CONSTANTS
    Builders = {b1}
    Projects <- MCProjects
    Organisations <- MCOrganisations
    Topic <- MCTopic
    SourceRef <- MCSourceRef
    LegalSuffixes <- MCSuffixes
    Foreign <- MCForeign
    MaxRuns = 2
    Absent = Absent
    None = None
    Matchers = {m1, m2}
    Assets = {a1}
    StopWords <- MCStop
    TopicTerms <- MCTopicTerms
    Profiles <- MCProfiles
    MinSharedTerms = 2
    StrengthenTerms = 3
    MaxMatchings = 3
SPECIFICATION Spec
SYMMETRY MCMatchSymmetry
CHECK_DEADLOCK FALSE
INVARIANTS
    HypothesesOfOneRun
    HypothesisIsGrounded
PROPERTIES
    RematchKeepsCompanies

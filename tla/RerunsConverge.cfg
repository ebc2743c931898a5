CONSTANTS
    Builders = {b1, b2}
    Projects <- MCProjects
    Organisations <- MCOrganisations
    Topic <- MCTopic
    SourceRef <- MCSourceRef
    LegalSuffixes <- MCSuffixes
    Foreign <- MCForeign
    MaxRuns = 4
    Absent = Absent
    None = None
SPECIFICATION GraphSpec
CHECK_DEADLOCK FALSE
PROPERTIES
    RerunsConverge

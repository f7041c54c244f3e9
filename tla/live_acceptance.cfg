\* Two freezes and two runs of one experiment, any of them killed.
SPECIFICATION FairSpec
CONSTANTS
    Freezers = {"f1", "f2"}
    Runners = {"r1", "r2"}
    Teams <- MCTeams
    Templates <- MCTemplates
    Catalogs = {"c1", "c2", "c3"}
    Models <- MCModels
    JevNames <- MCNames
    Requested <- MCRequested
    Commits = {"head"}
    Dirty = "dirty"
    Outcomes <- MCOutcomes
    MaxRuns = 1
    MaxFaults = 1
CHECK_DEADLOCK FALSE
INVARIANTS
    HashMatchesSpecimen
    EvidenceInv
PROPERTIES
    CreateOnly
    RecordSpec
    CommandsEnd

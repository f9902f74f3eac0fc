SPECIFICATION Spec
CONSTANTS
    Question = {"AUT-001"}
    Generated = {"FR", "PH"}
    MaxNumber <- Numbers
    MaxRequests = 4
    MaxPackages = 2
INVARIANTS
    ReportedAsSaid
    AddendumSettled
PROPERTIES
    GeneratedFresh
    RecordsStand
CHECK_DEADLOCK FALSE

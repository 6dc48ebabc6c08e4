SPECIFICATION FairSpec
CONSTANTS
    NodeIds = {"n1", "n2", "n3", "n4"}
    Sources = {"web", "db"}
    Absent = "absent"
    Logical = "logical"
    Incidents = {"i1", "i2"}
    sourceOf <- MCSourceOf
    Window = 1
    MAX_REFRESH = 1
    Analyses = {"p1", "p2"}
    Scenarios <- MCScenarios
    Workers = {"w1", "w2"}
    MAX_ATTEMPTS = 2
    SettleTicks = 0
    LeaseTicks = 1
INVARIANTS
    TypeOK
    NarrativeMatchesFindings
    ServedOnce
    FindingsCurrent
    MapAnalysesCorrect
PROPERTIES
    RequestsSettle

\* Two overlapping evaluations, people resolving, rule edits, aborts.
SPECIFICATION Spec
CONSTANTS
    cpu = cpu  disk = disk  core = core  root = root  home = home  None = None
    RuleIds = {r1}
    Sources = {s1}
    Series <- CpuOnly
    Evaluators = {e1, e2}
    Users = {u1}
    UserOps = {"resolve"}
    RuleSettings <- Loud
    Values = {0, 1, 2}
    Baselines = {}
    Lookback = 3
    MaxIncidents = 3
    MaxEdits = 1
    MaxUserOps = 1
    MaxAborts = 0
    MaxClock = 1
SYMMETRY Symmetry
INVARIANTS
    TypeOK
    DuplicatesBounded
    PeakCoversTrigger

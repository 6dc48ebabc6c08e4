\* Once samples, rules and people are quiet, incidents agree with the condition.
SPECIFICATION FairSpec
CONSTANTS
    cpu = cpu  disk = disk  core = core  root = root  home = home  None = None
    RuleIds = {r1}
    Sources = {s1}
    Series <- CpuOnly
    Evaluators = {e1, e2}
    Users = {u1}
    UserOps = {"acknowledge", "resolve", "reopen"}
    RuleSettings <- Quiet
    Values = {0, 1}
    Baselines = {}
    Lookback = 3
    MaxIncidents = 3
    MaxEdits = 0
    MaxUserOps = 1
    MaxAborts = 1
    MaxClock = 1
PROPERTIES
    IncidentsTrackCondition

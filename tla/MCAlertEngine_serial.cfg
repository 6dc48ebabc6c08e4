\* One evaluation at a time: wildcard rules, anomaly conditions, edits and people.
SPECIFICATION Spec
CONSTANTS
    cpu = cpu  disk = disk  core = core  root = root  home = home  None = None
    RuleIds = {r1}
    Sources = {s1}
    Series <- TwoMounts
    Evaluators = {e1}
    Users = {u1}
    UserOps = {"acknowledge", "resolve", "reopen"}
    RuleSettings <- Mixed
    Values = {0, 2}
    Baselines <- LowNormal
    Lookback = 3
    MaxIncidents = 2
    MaxEdits = 1
    MaxUserOps = 2
    MaxAborts = 0
    MaxClock = 1
PROPERTIES
    PeakNeverDrops

\* The action is edited while an alert queues it.
SPECIFICATION Spec
CONSTANTS
    h1 = h1  s1 = s1  s2 = s2  linux = linux  None = None
    ActionIds = {a1}
    HostIds = {h1}
    Requests = {r1}
    Claims = {}
    Workers = {}
    Scripts = {s1, s2}
    OsFamilies = {linux}
    HostOs <- Linux
    ActionSettings <- ApprovalSettings
    AgentPolicies <- AnyPolicy
    Triggers <- AutoOnly
    ClaimAttempts = 1
    ReportAttempts = 1
    RateWindow = 1
    PendingTTL = 1
    ApprovalTTL = 2
    ResultGrace = 0
    MaxExecs = 1
    MaxEdits = 1
    Horizon = 1
    MaxClock = 1
INVARIANTS
    NoUnattendedRun

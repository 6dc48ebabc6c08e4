\* Every execution gets an outcome.
SPECIFICATION FairSpec
CONSTANTS
    h1 = h1  s1 = s1  s2 = s2  linux = linux  None = None
    ActionIds = {a1}
    HostIds = {h1}
    Requests = {r1}
    Claims = {c1}
    Workers = {w1}
    Scripts = {s1}
    OsFamilies = {linux}
    HostOs <- Linux
    ActionSettings <- TargetSettings
    AgentPolicies <- AnyPolicy
    Triggers <- EveryTrigger
    ClaimAttempts = 1
    ReportAttempts = 1
    RateWindow = 1
    PendingTTL = 1
    ApprovalTTL = 1
    ResultGrace = 0
    MaxExecs = 1
    MaxEdits = 1
    Horizon = 1
    MaxClock = 3
PROPERTIES
    EveryExecutionSettles

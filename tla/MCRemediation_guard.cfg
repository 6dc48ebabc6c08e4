\* Concurrent creations against the guard-rails.
SPECIFICATION Spec
CONSTANTS
    h1 = h1  s1 = s1  s2 = s2  linux = linux  None = None
    ActionIds = {a1}
    HostIds = {h1}
    Requests = {r1, r2}
    Claims = {c1}
    Workers = {}
    Scripts = {s1}
    OsFamilies = {linux}
    HostOs <- Linux
    ActionSettings <- GuardSettings
    AgentPolicies <- AnyPolicy
    Triggers <- ManualOnly
    ClaimAttempts = 1
    ReportAttempts = 1
    RateWindow = 1
    PendingTTL = 2
    ApprovalTTL = 3
    ResultGrace = 1
    MaxExecs = 3
    MaxEdits = 0
    Horizon = 2
    MaxClock = 2
SYMMETRY Symmetry
INVARIANTS
    TypeOK
    AtMostOneLive
    CooldownRespected
    RateLimitRespected

\* Overlapping polls, lost answers, repeated reports and the sweep.
SPECIFICATION Spec
CONSTANTS
    h1 = h1  s1 = s1  s2 = s2  linux = linux  None = None
    ActionIds = {a1}
    HostIds = {h1}
    Requests = {r1}
    Claims = {c1, c2}
    Workers = {w1}
    Scripts = {s1}
    OsFamilies = {linux}
    HostOs <- Linux
    ActionSettings <- OneSetting
    AgentPolicies <- AnyPolicy
    Triggers <- AutoOnly
    ClaimAttempts = 2
    ReportAttempts = 2
    RateWindow = 1
    PendingTTL = 0
    ApprovalTTL = 2
    ResultGrace = 0
    MaxExecs = 1
    MaxEdits = 1
    Horizon = 1
    MaxClock = 2
INVARIANTS
    StartedAtMostOnce
    CancelledNeverRuns
    FinishedEventIsTheReport
PROPERTIES
    OutcomeIsFinal
    ImplementsLifecycle

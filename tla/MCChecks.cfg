SPECIFICATION FairSpec
CONSTANTS
    Urls <- MCUrls
    Addresses = {"public", "private"}
    PublicAddresses = {"public"}
    allowPrivateTargets = FALSE
    MAX_REDIRECTS = 2
    EndpointIds = {"c1"}
    Runners = {"r1", "r2"}
    Configs <- MCConfigs
    Responses <- MCResponses
    concurrency = 1
    intervalSec = 1
    MaxLate = 0
    MaxFailures = 2
    MaxEdits = 2
    MaxFaults = 1
INVARIANTS
    TypeOK
    RequestsKeepToConfig
    DownAfterTwoFailures
PROPERTIES
    ClaimsArePaced
    ResultsCatchUp

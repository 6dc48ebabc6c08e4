CONSTANTS
    Ips = {ip1}
    Databases = {db1}
    MaxEntries = 2
    MaxAge = 2
    bufferFlushBatch = 1
    pollerConfigRefreshEvery = 1
    MaxSkew = 1
    MaxBackfill = 2
    RotationGrace = 1
    Skews = {0, 2}
    MaxClock = 2
    MaxEvents = 2
SPECIFICATION FairSpec
INVARIANTS
    TypeOK
    StoredWholeAndOnce
    OldSecretsExpire
PROPERTIES
    BatchesAccounted
    RetiredDevicesLeave
    BacklogDrains

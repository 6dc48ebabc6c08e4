CONSTANTS
    r1 = r1
    r2 = r2
    Requests <- MCRequests
    LOGIN_MAX_FAILURES_PER_EMAIL = 1
    LOGIN_WINDOW = 2
    SESSION_IDLE = 2
    SESSION_ABSOLUTE = 3
    SESSION_REFRESH_INTERVAL = 0
    PURGE_AFTER = 1
    TOTP_CHALLENGE_TTL = 2
    TOTP_MAX_CHALLENGE_ATTEMPTS = 2
    MaxClock = 3
    MaxStarts = 4
SPECIFICATION Spec
SYMMETRY MCSymmetry
INVARIANTS
    TypeOK
    ThrottleIsExact
PROPERTIES
    SessionsEnd
    ChallengesPassedOnce
CHECK_DEADLOCK FALSE

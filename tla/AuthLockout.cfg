SPECIFICATION Spec
CONSTANTS
    Requests = {r1, r2, r3, r4}
    Calls <- LockoutCalls
    MaxInFlight = 3
    MaxLives = 1
    MaxTime = 3
    Emails <- MCEmails
    Canonical <- MCCanonical
    Secrets <- MCSecrets
    IPs <- MCIPs
    UserAgents <- MCAgents
    MaxLoginAttempts = 3
    Lockout = 2
    BackoffUnit = 1
    MaxBackoff = 1
    ResetTtl = 1
SYMMETRY RequestSymmetry
CHECK_DEADLOCK FALSE
INVARIANTS AdmittedBeforeLock LockBounded
PROPERTIES LockLiftedOnlyByEarlierLogin

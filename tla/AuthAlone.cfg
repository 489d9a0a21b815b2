SPECIFICATION Spec
CONSTANTS
    Requests = {r1, r2, r3, r4}
    Calls <- AllCalls
    MaxInFlight = 1
    MaxLives = 1
    MaxTime = 2
    Emails <- MCEmails
    Canonical <- MCCanonical
    Secrets <- MCSecrets
    IPs <- MCIPs
    UserAgents <- MCAgents
    MaxLoginAttempts = 2
    Lockout = 2
    BackoffUnit = 1
    MaxBackoff = 1
    ResetTtl = 1
SYMMETRY RequestSymmetry
CHECK_DEADLOCK FALSE
PROPERTIES LockStands
INVARIANTS EmailsUnique ResetTokenUsedOnce SessionsProveCurrentPassword

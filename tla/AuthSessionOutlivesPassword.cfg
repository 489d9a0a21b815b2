SPECIFICATION Spec
CONSTANTS
    Requests = {r1, r2, r3}
    Calls <- PasswordCalls
    MaxInFlight = 2
    MaxLives = 1
    MaxTime = 1
    Emails <- MCEmails
    Canonical <- MCCanonical
    Secrets <- MCSecrets
    IPs <- MCIPs
    UserAgents <- MCAgents
    MaxLoginAttempts = 2
    Lockout = 2
    BackoffUnit = 1
    MaxBackoff = 1
    ResetTtl = 1
SYMMETRY RequestSymmetry
CHECK_DEADLOCK FALSE
INVARIANTS SessionsProveCurrentPassword

SPECIFICATION SystemSpec
CONSTANTS
    Requests = {r1, r2, r3}
    Calls <- MCCalls
    InviteCalls <- MCInviteCalls
    MaxInFlight = 2
    MaxLives = 2
    MaxTime = 1
    Emails <- MCEmails
    Canonical <- MCCanonical
    Secrets <- MCSecrets
    IPs <- MCIPs
    UserAgents <- MCAgents
    MaxLoginAttempts = 3
    Lockout = 2
    BackoffUnit = 1
    MaxBackoff = 1
    ResetTtl = 1
    InviteTtl = 1
    MaxEvents = 3
    MaxListed = 3
CHECK_DEADLOCK FALSE
INVARIANTS RegistrationsAccounted OwnersExist
PROPERTIES EveryRequestAnswered

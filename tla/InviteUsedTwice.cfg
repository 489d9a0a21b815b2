SPECIFICATION Spec
CONSTANTS
    Requests = {r1, r2, r3}
    Calls <- InviteCalls
    MaxInFlight = 2
    MaxLives = 1
    MaxTime = 2
    Emails <- MCEmails
    Canonical <- MCCanonical
    Secrets <- MCSecrets
    IPs <- MCIPs
    UserAgents <- MCAgents
    InviteTtl = 1
SYMMETRY RequestSymmetry
CHECK_DEADLOCK FALSE
INVARIANTS InviteUsedOnce

SPECIFICATION Spec
CONSTANTS
    Requests = {r1, r2, r3, r4}
    Calls <- InviteCalls
    MaxInFlight = 2
    MaxLives = 2
    MaxTime = 2
    Emails <- MCEmails
    Canonical <- MCCanonical
    Secrets <- MCSecrets
    IPs <- MCIPs
    UserAgents <- MCAgents
    InviteTtl = 1
SYMMETRY RequestSymmetry
CHECK_DEADLOCK FALSE
INVARIANTS TypeOK RegisteredWereInvited
PROPERTIES InvitesKept CompletionSpendsInvite SettledInvitesStaySettled

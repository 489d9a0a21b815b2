------------------------------- MODULE Clients -------------------------------
(***************************************************************************)
(* What clients send: email addresses as typed, the address and user agent *)
(* of the connection.  Canonical is normalizeEmail (trim and lower case),  *)
(* which every service applies before it looks an email up or stores it.   *)
(***************************************************************************)
EXTENDS Integers

CONSTANTS
    Emails,         \* email strings as callers write them
    Canonical,      \* what trim().toLowerCase() makes of each of them
    IPs,            \* client addresses
    UserAgents      \* user-agent headers

ASSUME CanonicalAssumption ==
    /\ Canonical \in [Emails -> Emails]
    /\ \A e \in Emails : Canonical[Canonical[e]] = Canonical[e]
==============================================================================

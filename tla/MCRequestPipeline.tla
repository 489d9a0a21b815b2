-------------------------- MODULE MCRequestPipeline --------------------------
(* An instance of RequestPipeline for TLC.  Routes with the same guards    *)
(* and the same handler are one route here.                                *)
EXTENDS RequestPipeline, TLC

Plain   == [origin |-> "none", csrf |-> FALSE, apiKey |-> FALSE]
Trusted == [Plain EXCEPT !.csrf = TRUE]
Foreign == [Trusted EXCEPT !.origin = "foreign"]

Id(number, parsed, decimal) == [number |-> number, parsed |-> parsed, decimal |-> decimal]

Ask(route, id, headers) == [route |-> route, id |-> id, headers |-> headers]

Zero == Id(0, 0, TRUE)      \* where a route has no :id

(* Mutations with and without what CSRF protection asks for; a profile by  *)
(* "2", "0x2" and "2abc"; a key where it counts.                           *)
MCQueries ==
    {Ask("sign-up", Zero, headers) : headers \in {Plain, Trusted, Foreign}}
    \cup {Ask(route, Zero, Trusted) :
             route \in {"complete-sign-up", "login", "cancel", "change-password"}}
    \cup {Ask(route, Zero, Plain) : route \in {"me", "live"}}
    \cup {Ask("user", id, Plain) : id \in {Id(2, 2, TRUE), Id(2, 0, FALSE), Id(-1, 2, FALSE)}}
    \cup {Ask("status", Zero, [Plain EXCEPT !.apiKey = key]) : key \in BOOLEAN}

Unprotected == [csrf |-> FALSE, csrfToken |-> FALSE, origins |-> FALSE,
                apiKeys |-> FALSE, oauthTokens |-> FALSE]
Protected   == [csrf |-> TRUE, csrfToken |-> TRUE, origins |-> TRUE,
                apiKeys |-> TRUE, oauthTokens |-> TRUE]

MCConfigs == {Unprotected, Protected}

MCPeople == {"aureo", "bueno", "carla"}

RequestSymmetry == Permutations(Requests)
==============================================================================

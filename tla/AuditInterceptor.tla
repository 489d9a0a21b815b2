-------------------------- MODULE AuditInterceptor --------------------------
(***************************************************************************)
(* src/audit/presentation/interceptors/audit.interceptor.ts                *)
(*                                                                         *)
(* The global interceptor around every handler.  Middleware and guards run *)
(* before it; it then waits for the handler, whose answers interleave, and *)
(* records a mutating request as its answer comes by.  What the handlers   *)
(* do is left to the modules of the services: here they return, or throw.  *)
(* The status recorded is read off the error by the interceptor, the one   *)
(* answered comes from the framework, which gets the same error after it.  *)
(***************************************************************************)
EXTENDS AuditEvents

CONSTANTS
    Requests,       \* the HTTP requests, one each
    Limits,         \* the limits asked of GET /audit/events
    Thrown,         \* bound: the errors handlers throw
    MaxLives        \* bound: process lifetimes, restarts included

\* The statuses of the HttpExceptions thrown in handlers: a bad or spent
\* token, a wrong password, no user, a known email, a locked login.
HandlerStatuses == {"400", "401", "404", "409", "429"}

\* What the handlers throw: an HttpException, or an error of argon2 or SES,
\* which has no status.
Error == [http : {TRUE}, status : HandlerStatuses] \cup [http : {FALSE}, status : {"none"}]

ASSUME InterceptorAssumption == Limits \subseteq Int /\ Thrown \subseteq Error

VARIABLES
    pc,         \* "idle", "handling", "listed", "lost" or the status answered
    request,    \* the method and path of a request in its handler
    listed,     \* the body answered by GET /audit/events
    recorded,   \* history: what this process recorded, oldest first
    life        \* the number of the current process lifetime
vars == <<trailVars, pc, request, listed, recorded, life>>

Methods  == {"GET", "POST", "DELETE"}
Request  == [method : Methods, path : {"/health/", "/api/"}]
NoRequest == [method |-> "none"]

\* Mutant: requests that delete are forgotten.
AuditsPosts(q) == q.path # "/health/" /\ q.method = "POST"

\* shouldAuditRequest
ShouldAuditRequest(q) ==
    q.path # "/health/" /\ q.method \in {"POST", "PUT", "PATCH", "DELETE"}

\* extractStatusCode: the error's own status, if it has one.
ExtractStatusCode(error) == IF error.status # "none" THEN error.status ELSE "500"

\* What the exception filter answers: it asks for the class of the error.
FilterStatus(error) == IF error.http THEN error.status ELSE "500"

\* The status Nest answers when a handler returns.
ReturnStatus(q) == IF q.method = "POST" THEN "201" ELSE "200"

\* auditService.record
Record(r, status, success) ==
    LET event == [request |-> r, status |-> status, success |-> success]
    IN  Save(event) /\ recorded' = Append(recorded, event)

------------------------------------------------------------------------------
(* A middleware (CSRF) or a guard (token, role, throttle) refuses it. *)
Refuse(r) ==
    /\ pc[r] = "idle"
    /\ \E status \in {"401", "403", "429"} : pc' = [pc EXCEPT ![r] = status]
    /\ UNCHANGED <<trailVars, request, listed, recorded, life>>

Handle(r, q) ==
    /\ pc[r] = "idle"
    /\ request' = [request EXCEPT ![r] = q]
    /\ pc' = [pc EXCEPT ![r] = "handling"]
    /\ UNCHANGED <<trailVars, listed, recorded, life>>

(* The handler's answer comes by, then goes on to the client. *)
Respond(r, answered, recordedStatus, success) ==
    /\ pc[r] = "handling"
    /\ pc' = [pc EXCEPT ![r] = answered]
    /\ IF ShouldAuditRequest(request[r]) THEN Record(r, recordedStatus, success)
       ELSE UNCHANGED <<trailVars, recorded>>
    /\ request' = [request EXCEPT ![r] = NoRequest]
    /\ UNCHANGED <<listed, life>>

(* tap: the status is the response's. *)
HandlerReturns(r) ==
    LET status == ReturnStatus(request[r]) IN Respond(r, status, status, TRUE)

(* catchError: the error is recorded and thrown on. *)
HandlerThrows(r) ==
    \E error \in Thrown :
        Respond(r, FilterStatus(error), ExtractStatusCode(error), FALSE)

(* GET /audit/events, a handler that awaits nothing. *)
ListEvents(r, limit) ==
    /\ pc[r] = "idle"
    /\ pc' = [pc EXCEPT ![r] = "listed"]
    /\ listed' = [listed EXCEPT ![r] = List(limit)]
    /\ UNCHANGED <<trailVars, request, recorded, life>>

(* The process dies; the trail dies with it. *)
Restart ==
    /\ life < MaxLives
    /\ life' = life + 1
    /\ pc' = [r \in Requests |-> IF pc[r] = "handling" THEN "lost" ELSE pc[r]]
    /\ request' = [r \in Requests |-> NoRequest]
    /\ events' = <<>> /\ sequence' = 0 /\ recorded' = <<>>
    /\ UNCHANGED listed

Init == /\ TrailInit
        /\ pc = [r \in Requests |-> "idle"]
        /\ request = [r \in Requests |-> NoRequest]
        /\ listed = [r \in Requests |-> <<>>]
        /\ recorded = <<>>
        /\ life = 1

Next == \/ \E r \in Requests :
              \/ Refuse(r) \/ \E q \in Request : Handle(r, q)
              \/ HandlerReturns(r) \/ HandlerThrows(r)
              \/ \E limit \in Limits : ListEvents(r, limit)
        \/ Restart

Spec == Init /\ [][Next]_vars

------------------------------------------------------------------------------
(* Properties *)

(* However many events went by, the trail is exactly the newest of what    *)
(* this process recorded, as many as AUDIT_MAX_EVENTS allows, in the order *)
(* of the answers, and numbered without a gap up to the last one.          *)
TrailIsRecent ==
    /\ sequence = Len(recorded)
    /\ Len(events) = IF sequence < MaxEvents THEN sequence ELSE MaxEvents
    /\ \A i \in DOMAIN events :
          /\ events[i].id = sequence - Len(events) + i - 1
          /\ events[i].input = recorded[events[i].id + 1]

(* The answer of a handler leaves the event of its request as the newest   *)
(* of the trail when and only when the request was a mutation outside the  *)
(* health routes.  It says what the client is answered, though interceptor *)
(* and exception filter read the status off an error in different ways.    *)
MutationsRecorded ==
    [][life' = life =>
        \A r \in Requests : pc[r] = "handling" /\ pc'[r] # "handling" =>
            (request[r] \in [method : {"POST", "DELETE"}, path : {"/api/"}]
                <=> \E i \in DOMAIN events' :
                        /\ i = Len(events')
                        /\ events'[i].input.request = r
                        /\ events'[i].input.status = pc'[r])]_vars

(* A listing is a gapless run of the trail at the time, newest first, with *)
(* at least the newest event and never more than 200.                      *)
ListedNewestFirst ==
    [][\A r \in Requests : pc[r] # "listed" /\ pc'[r] = "listed" =>
        /\ Len(listed'[r]) <= MaxListed
        /\ events # <<>> => listed'[r] # <<>>
        /\ \A i \in DOMAIN listed'[r] : listed'[r][i].id = sequence - i]_vars
==============================================================================

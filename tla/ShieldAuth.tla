------------------------------ MODULE ShieldAuth ------------------------------
(***************************************************************************)
(* The services of the process together: AuthService and InviteUserService *)
(* on one user table, and the audit trail that the global interceptor      *)
(* keeps of both (src/audit/presentation/interceptors/                     *)
(* audit.interceptor.ts).  A request goes to one of the two controllers;   *)
(* what the services leave a step for still overlaps across them.  Every   *)
(* route of the two is a POST, except logout, which is a DELETE, so the    *)
(* interceptor records each of them, as its answer comes by.               *)
(***************************************************************************)
EXTENDS AuthService, AuditEvents

CONSTANTS
    InviteCalls,    \* the calls of InviteUserService and their arguments
    InviteTtl       \* INVITE_EXPIRES_HOURS, in ticks

VARIABLES invites, invitePc, inviteCall, inviteGiven, taken, calledAt

Inv == INSTANCE InviteUserService WITH
    Calls <- InviteCalls, pc <- invitePc, call <- inviteCall, given <- inviteGiven

ASSUME InviteCallsAssumption == /\ InviteCalls \subseteq Inv!Call
                                /\ InviteTtl \in Nat \ {0}

authVars   == <<storeVars, pc, argVars, user, session, admitted, verifying>>
inviteVars == <<invites, invitePc, inviteCall, inviteGiven, taken, calledAt>>
systemVars == <<vars, inviteVars, trailVars>>

Settled == Answers \cup Inv!Answers

\* What Nest answers when a handler returns, with tokens, a message, or
\* undefined alike.
Returned == {"tokens", "undefined", "ok", "valid", "canceled", "inactive"}

HttpStatus(route, answer) ==
    IF answer \notin Returned THEN answer
    ELSE IF route = "logout" THEN "200" ELSE "201"

(* tap, when the handler returns, and catchError, when it throws. *)
Intercept(r, route, answer) ==
    IF answer \in Settled
    THEN Save([request |-> r, route |-> route,
               status |-> HttpStatus(route, answer),
               success |-> answer \in Returned])
    ELSE UNCHANGED trailVars

ToAuth(r)    == Intercept(r, call'[r].op, pc'[r]) /\ UNCHANGED inviteVars
ToInvites(r) == Intercept(r, inviteCall'[r].op, invitePc'[r]) /\ UNCHANGED authVars

(* A request reaches one of the two controllers. *)
CallArrives(r) == \/ invitePc[r] = "idle" /\ Arrive(r) /\ ToAuth(r)
                  \/ pc[r] = "idle" /\ Inv!Arrive(r) /\ ToInvites(r)

CallProceeds(r) == \/ Proceed(r) /\ ToAuth(r)
                   \/ Inv!Proceed(r) /\ ToInvites(r)

ClockTicks == TimePasses /\ UNCHANGED <<inviteVars, trailVars>>

(* The process dies: users, both services and the trail go together. *)
ProcessRestarts == Restart /\ Inv!Restart /\ events' = <<>> /\ sequence' = 0

SystemInit == Init /\ Inv!Init /\ TrailInit

SystemNext == \/ \E r \in Requests : CallArrives(r) \/ CallProceeds(r)
              \/ ClockTicks
              \/ ProcessRestarts

SystemFairness == /\ \A r \in Requests : WF_systemVars(CallProceeds(r))
                  /\ WF_systemVars(ClockTicks)

SystemSpec == SystemInit /\ [][SystemNext]_systemVars /\ SystemFairness

------------------------------------------------------------------------------
(* Properties *)

Events == {events[i].input : i \in DOMAIN events}

(* Calls between the creation of their user and their answer. *)
Registering == {r \in Requests : pc[r] = "signUpCreate" \/ invitePc[r] = "completeCreate"}

(* The trail accounts for the user table: as long as it dropped nothing,   *)
(* the users beyond the seed are those whose signUp or completeSignUp was  *)
(* recorded as a success, and those whose call is on its way to be.  No    *)
(* overlap of the two services registers somebody behind an error.         *)
RegistrationsAccounted ==
    sequence <= MaxEvents =>
        Len(users) = Len(SeedUsers) + Cardinality(Registering)
                      + Cardinality({e \in Events : e.success
                                                /\ e.route \in {"signUp", "complete"}})

(* Every request that a service accepted is answered, whichever of the two *)
(* it went to: through failing argon2 and SES calls, delays and restarts.  *)
EveryRequestAnswered == EveryCallAnswered /\ Inv!EveryCallAnswered

(* login and refresh answer 401 when they hand out no tokens: what is      *)
(* recorded as their success did.                                          *)
SuccessHandsTokens ==
    \A e \in Events : e.success /\ e.route \in {"login", "refresh"} =>
        pc[e.request] = "tokens"
==============================================================================

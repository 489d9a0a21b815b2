-------------------------- MODULE InviteUserService --------------------------
(***************************************************************************)
(* src/invite-user/application/services/invite-user.service.ts             *)
(*                                                                         *)
(* Invites by email: issued and sent again by administrators, validated,   *)
(* cancelled, and completed into a user.  Calls interleave at their        *)
(* awaits as in AuthService, whose user table this service shares.  An     *)
(* invite carries 32 fresh random bytes and is named by its index in the   *)
(* array, which only grows; 0 stands for a text that is no invite's token. *)
(***************************************************************************)
EXTENDS UsersService, Clock, FiniteSets

CONSTANTS
    Requests,       \* the calls the environment may make, one each
    Calls,          \* the methods and arguments it may choose from
    MaxInFlight,    \* bound: calls in progress at the same time
    MaxLives,       \* bound: process lifetimes, restarts included
    InviteTtl       \* INVITE_EXPIRES_HOURS, in ticks

Call == [op : {"invite", "resend", "validate", "cancel", "complete"},
         email : Emails, password : Secrets]

ASSUME InviteAssumption == /\ Calls \subseteq Call
                           /\ InviteTtl \in Nat \ {0}

VARIABLES
    invites,
    pc,         \* the await a call is suspended at, or its answer
    call,       \* its method and arguments,
    given,      \* the invite token it presents
    taken,      \* local: the email had a user when it was looked up
    calledAt,   \* local: `now` of completeSignUp, read before its lookup
    life        \* the number of the current process lifetime

argVars == <<call, given>>
vars    == <<now, users, invites, pc, argVars, taken, calledAt, life>>

Invite == [email : Emails, expires : Nat, active : BOOLEAN]

Awaits == {"inviteLookup", "inviteSend",
           "completeLookup", "completeHash", "completeCreate"}

\* "canceled" and "inactive" are the two messages of cancelInvite.
Answers == {"ok", "valid", "canceled", "inactive", "400", "409", "500", "lost"}

NoCall == [op |-> "none"]

InFlight == {r \in Requests : pc[r] \in Awaits}

Called(r, c, ops) == /\ pc[r] = "idle"
                     /\ c.op \in ops
                     /\ Cardinality(InFlight) < MaxInFlight
                     /\ call' = [call EXCEPT ![r] = c]

Await(r, next) == /\ pc' = [pc EXCEPT ![r] = next]
                  /\ UNCHANGED argVars

Answer(r, answer) == /\ pc' = [pc EXCEPT ![r] = answer]
                     /\ taken' = [taken EXCEPT ![r] = FALSE]
                     /\ calledAt' = [calledAt EXCEPT ![r] = 0]

EmailOf(r) == Canonical[call[r].email]

LookUp(r, email) == taken' = [taken EXCEPT ![r] = FindByEmail(email) # 0]

\* getInviteByEmailAndToken
Matches(t, email) == t \in DOMAIN invites /\ invites[t].email = email

Expired(t, time) == invites[t].expires <= time

\* Mutant: the invite stays usable.
KeepActive(t) == UNCHANGED invites

Deactivate(t) == invites' = [invites EXCEPT ![t].active = FALSE]

\* Mutant: earlier invites stay usable.
NoneSuperseded(email) == invites

\* deactivateActiveInvitesForEmail
Superseded(email) ==
    [i \in DOMAIN invites |->
        IF invites[i].email = email THEN [invites[i] EXCEPT !.active = FALSE]
                                    ELSE invites[i]]

------------------------------------------------------------------------------
(* invite and resendInvite *)

InviteStart(r, c) ==
    /\ Called(r, c, {"invite", "resend"})
    /\ pc' = [pc EXCEPT ![r] = "inviteLookup"]
    /\ LookUp(r, Canonical[c.email])
    /\ UNCHANGED <<now, users, invites, given, calledAt, life>>

InviteConflict(r) ==
    /\ pc[r] = "inviteLookup"
    /\ taken[r]
    /\ Answer(r, "409")
    /\ UNCHANGED <<now, users, invites, argVars, life>>

EverInvited(email) == \E i \in DOMAIN invites : invites[i].email = email

\* Mutant: an answer the API does not have.
ResendNotFound(r) ==
    /\ pc[r] = "inviteLookup"
    /\ ~taken[r]
    /\ call[r].op = "resend" /\ ~EverInvited(EmailOf(r))
    /\ Answer(r, "404")
    /\ UNCHANGED <<now, users, invites, argVars, life>>

ResendUnknown(r) ==
    /\ pc[r] = "inviteLookup"
    /\ ~taken[r]
    /\ call[r].op = "resend" /\ ~EverInvited(EmailOf(r))
    /\ Answer(r, "400")
    /\ UNCHANGED <<now, users, invites, argVars, life>>

(* createInviteAndSend, up to the call of SES. *)
InviteIssue(r) ==
    /\ pc[r] = "inviteLookup"
    /\ ~taken[r]
    /\ call[r].op = "resend" => EverInvited(EmailOf(r))
    /\ invites' = Append(Superseded(EmailOf(r)),
                         [email |-> EmailOf(r), expires |-> now + InviteTtl,
                          active |-> TRUE])
    /\ Await(r, "inviteSend")
    /\ UNCHANGED <<now, users, taken, calledAt, life>>

(* SES answers or fails; the invite stays issued either way. *)
InviteSent(r) ==
    /\ pc[r] = "inviteSend"
    /\ \E answer \in {"ok", "500"} : Answer(r, answer)
    /\ UNCHANGED <<now, users, invites, argVars, life>>

------------------------------------------------------------------------------
(* validateInvite and cancelInvite await nothing. *)

Validate(r, c, t) ==
    LET usable == Matches(t, Canonical[c.email]) /\ invites[t].active
    IN  /\ Called(r, c, {"validate"})
        /\ given' = [given EXCEPT ![r] = t]
        /\ \/ ~usable /\ Answer(r, "400") /\ UNCHANGED invites
           \/ usable /\ Expired(t, now) /\ Answer(r, "400") /\ Deactivate(t)
           \/ usable /\ ~Expired(t, now) /\ Answer(r, "valid") /\ UNCHANGED invites
        /\ UNCHANGED <<now, users, life>>

Cancel(r, c, t) ==
    LET found == Matches(t, Canonical[c.email])
    IN  /\ Called(r, c, {"cancel"})
        /\ given' = [given EXCEPT ![r] = t]
        /\ \/ ~found /\ Answer(r, "400") /\ UNCHANGED invites
           \/ found /\ ~invites[t].active /\ Answer(r, "inactive") /\ UNCHANGED invites
           \/ found /\ invites[t].active /\ Answer(r, "canceled") /\ Deactivate(t)
        /\ UNCHANGED <<now, users, life>>

------------------------------------------------------------------------------
(* completeSignUp *)

CompleteStart(r, c, t) ==
    /\ Called(r, c, {"complete"})
    /\ given' = [given EXCEPT ![r] = t]
    /\ pc' = [pc EXCEPT ![r] = "completeLookup"]
    /\ LookUp(r, Canonical[c.email])
    /\ calledAt' = [calledAt EXCEPT ![r] = now]
    /\ UNCHANGED <<now, users, invites, life>>

CompleteConflict(r) ==
    /\ pc[r] = "completeLookup"
    /\ taken[r]
    /\ Answer(r, "409")
    /\ UNCHANGED <<now, users, invites, argVars, life>>

\* Mutant: any invite's token will do.
UsableByAnyone(r) == given[r] \in DOMAIN invites /\ invites[given[r]].active

Usable(r) == Matches(given[r], EmailOf(r)) /\ invites[given[r]].active

CompleteRefuse(r) ==
    /\ pc[r] = "completeLookup"
    /\ ~taken[r] /\ ~Usable(r)
    /\ Answer(r, "400")
    /\ UNCHANGED <<now, users, invites, argVars, life>>

CompleteExpire(r) ==
    /\ pc[r] = "completeLookup"
    /\ ~taken[r] /\ Usable(r) /\ Expired(given[r], calledAt[r])
    /\ Deactivate(given[r])
    /\ Answer(r, "400")
    /\ UNCHANGED <<now, users, argVars, life>>

\* Mutant: the token alone decides.
CompleteAcceptToken(r) ==
    /\ pc[r] = "completeLookup"
    /\ Matches(given[r], EmailOf(r))
    /\ Await(r, "completeHash")
    /\ UNCHANGED <<now, users, invites, taken, calledAt, life>>

(* From here on neither the invite nor the email is looked at again. *)
CompleteAccept(r) ==
    /\ pc[r] = "completeLookup"
    /\ ~taken[r] /\ Usable(r) /\ ~Expired(given[r], calledAt[r])
    /\ Await(r, "completeHash")
    /\ UNCHANGED <<now, users, invites, taken, calledAt, life>>

CompleteCreate(r) ==
    /\ pc[r] = "completeHash"
    /\ Create(EmailOf(r), Hashed(call[r].password))
    /\ Await(r, "completeCreate")
    /\ UNCHANGED <<now, invites, taken, calledAt, life>>

CompleteSucceed(r) ==
    /\ pc[r] = "completeCreate"
    /\ Deactivate(given[r])
    /\ Answer(r, "ok")
    /\ UNCHANGED <<now, users, argVars, life>>

\* Mutant: what goes wrong after the user was created is answered 500 too.
HashFailsLate(r) ==
    /\ pc[r] \in {"completeHash", "completeCreate"}
    /\ Answer(r, "500")
    /\ UNCHANGED <<now, users, invites, argVars, life>>

(* argon2 throws: the call is answered 500 and the invite stays usable. *)
HashFails(r) ==
    /\ pc[r] = "completeHash"
    /\ Answer(r, "500")
    /\ UNCHANGED <<now, users, invites, argVars, life>>

------------------------------------------------------------------------------
(* The process dies and comes back with its seed; the mailed invites are   *)
(* no invites of the next one.                                             *)
Restart ==
    /\ life < MaxLives
    /\ life' = life + 1
    /\ pc' = [r \in Requests |-> IF pc[r] \in Awaits THEN "lost" ELSE pc[r]]
    /\ taken' = [r \in Requests |-> FALSE]
    /\ calledAt' = [r \in Requests |-> 0]
    /\ users' = SeedUsers
    /\ invites' = <<>>
    /\ given' = [r \in Requests |-> 0]
    /\ UNCHANGED <<now, call>>

TimePasses == /\ Tick(FALSE)
              /\ UNCHANGED <<users, invites, pc, argVars, taken, calledAt, life>>

Init == /\ ClockInit /\ UsersInit
        /\ invites = <<>>
        /\ pc = [r \in Requests |-> "idle"]
        /\ call = [r \in Requests |-> NoCall]
        /\ given = [r \in Requests |-> 0]
        /\ taken = [r \in Requests |-> FALSE]
        /\ calledAt = [r \in Requests |-> 0]
        /\ life = 1

(* What the environment does: a call arrives. *)
Arrive(r) ==
    \E c \in Calls :
        \/ InviteStart(r, c)
        \/ \E t \in 0 .. Len(invites) :
              Validate(r, c, t) \/ Cancel(r, c, t) \/ CompleteStart(r, c, t)

(* What the service does with a call it has accepted. *)
Proceed(r) ==
    \/ InviteConflict(r) \/ ResendUnknown(r) \/ InviteIssue(r) \/ InviteSent(r)
    \/ CompleteConflict(r) \/ CompleteRefuse(r) \/ CompleteExpire(r)
    \/ CompleteAccept(r) \/ CompleteCreate(r) \/ CompleteSucceed(r) \/ HashFails(r)

Next == \/ \E r \in Requests : Arrive(r) \/ Proceed(r)
        \/ TimePasses
        \/ Restart

(* Continuations run, argon2 and SES settle; nobody owes the service a     *)
(* call, and the process owes no restart.                                  *)
Fairness == \A r \in Requests : WF_vars(Proceed(r))

Spec == Init /\ [][Next]_vars /\ Fairness

------------------------------------------------------------------------------
(* Properties *)

TypeOK == /\ now \in Nat \ {0} /\ life \in Nat \ {0}
          /\ UsersTypeOK
          /\ invites \in Seq(Invite)
          /\ pc \in [Requests -> Awaits \cup Answers \cup {"idle"}]
          /\ call \in [Requests -> Calls \cup {NoCall}]
          /\ given \in [Requests -> Nat]
          /\ taken \in [Requests -> BOOLEAN]
          /\ calledAt \in [Requests -> Nat]

(* The invites keep the promise of OneTimeTokens: inviting and sending     *)
(* again supersede, and no overlap of calls makes an invite usable again   *)
(* once it was superseded, completed, cancelled or found expired.          *)
InviteTokens == INSTANCE OneTimeTokens WITH
    issued <- [i \in DOMAIN invites |-> invites[i].email],
    active <- {i \in DOMAIN invites : invites[i].active}

InvitesKept == InviteTokens!TokensSpec

(* Whoever completeSignUp registers was invited by that very email, and    *)
(* the invite it was let in with is one for the email it registers.        *)
RegisteredWereInvited ==
    /\ \A u \in DOMAIN users : u > Len(SeedUsers) => EverInvited(users[u].email)
    /\ \A r \in Requests :
          pc[r] = "completeCreate" => Matches(given[r], EmailOf(r))

(* An answered completion leaves its invite spent and, in this lifetime,   *)
(* its user registered, whatever overlapped with it.                       *)
CompletionSpendsInvite ==
    [][\A r \in Requests :
          pc[r] # "ok" /\ pc'[r] = "ok" /\ call[r].op = "complete" =>
              /\ ~invites'[given[r]].active
              /\ \E u \in DOMAIN users' : users'[u].email = EmailOf(r)]_vars

(* A completion that was answered with success. *)
Completed(r) == call[r].op = "complete" /\ pc[r] = "ok"

(* An invite registers one user: a second completion is refused because    *)
(* the invite is no longer active.  (A restart forgets what the answered   *)
(* calls presented: given is 0 for them.)                                  *)
InviteUsedOnce ==
    \A r, s \in Requests :
        /\ Completed(r) /\ Completed(s)
        /\ given[r] # 0 /\ given[r] = given[s]
        => r = s

(* A completion or a cancellation that was answered settles its invite:    *)
(* from then on no call is let in with it, whatever overlaps.  A second    *)
(* registration has to be past the check before the first is answered.     *)
SettledInvitesStaySettled ==
    [][\A r, s \in Requests :
          /\ pc[r] = "completeLookup" /\ pc'[r] = "completeHash"
          /\ Completed(s) \/ pc[s] = "canceled"
          => given[r] # given[s]]_vars

(* Every call the service accepts is answered, through failing argon2 and  *)
(* SES calls and restarts.                                                 *)
EveryCallAnswered ==
    \A r \in Requests : pc[r] \in Awaits ~> pc[r] \in Answers
==============================================================================

----------------------------- MODULE AuthService -----------------------------
(***************************************************************************)
(* src/auth/application/services/auth.service.ts                           *)
(*                                                                         *)
(* The seven public methods of AuthService, run by concurrent callers.  A  *)
(* method is a chain of steps: one step goes from the call, or from the    *)
(* answer of an await, to the next await, and the steps of different calls *)
(* interleave.  Each member of Requests makes at most one call.  The state *)
(* is in memory only: a restart of the process puts it back to the seed    *)
(* and drops the calls in flight, while the JWTs that clients hold remain. *)
(***************************************************************************)
EXTENDS LoginAttempts, RefreshTokens, PasswordResetTokens, FiniteSets

CONSTANTS
    Requests,       \* the calls the environment may make, one each
    Calls,          \* the methods and arguments it may choose from
    MaxInFlight,    \* bound: calls in progress at the same time
    MaxLives        \* bound: process lifetimes, restarts included

Call == [op : {"login", "signUp", "forgot", "reset", "change", "refresh", "logout"},
         email : Emails, ip : IPs, ua : UserAgents,
         password : Secrets, newPassword : Secrets, userId : Nat]

ASSUME CallsAssumption == Calls \subseteq Call

VARIABLES
    pc,         \* the await a call is suspended at, or its answer
    call,       \* its method and arguments,
    jwt,        \* the refresh JWT it presents,
    given,      \* the reset token it presents
    user,       \* local: reference from the last lookup, 0 for undefined
    session,    \* local: the session the JWT resolved to
    admitted,   \* local: when login checked the lock, which count it read
    verifying,  \* local: argon2's coming answer and the stored password
    life        \* the number of the current process lifetime

storeVars == <<attemptVars, sessionVars, passwordResetTokens>>
argVars   == <<call, jwt, given>>
vars      == <<now, users, storeVars, pc, argVars, user, session, admitted,
               verifying, life>>

Awaits == {"loginDelay", "loginLookup", "loginVerify",
           "signUpLookup", "signUpHash", "signUpCreate",
           "forgotLookup", "forgotSend",
           "resetLookup", "resetHash", "resetUpdate",
           "changeLookup", "changeVerify", "changeHash", "changeUpdate",
           "refreshLookup"}

(* What a method returns, or the status of what it throws; "lost" is a     *)
(* connection that breaks with the process.                                *)
Answers == {"tokens", "undefined", "ok", "400", "401", "404", "409", "429",
            "500", "lost"}

Outcomes == {"none", "match", "mismatch", "error"}

NoCall       == [op |-> "none"]
NoAdmission  == [since |-> 0, fails |-> 0]
NoVerify     == [outcome |-> "none", basis |-> NoPassword]

InFlight == {r \in Requests : pc[r] \in Awaits}

(* A new call r of the method op. *)
Called(r, c, op) == /\ pc[r] = "idle"
                    /\ c.op = op
                    /\ Cardinality(InFlight) < MaxInFlight
                    /\ call' = [call EXCEPT ![r] = c]

(* The call goes on to its next await, with the same arguments. *)
Await(r, next) == /\ pc' = [pc EXCEPT ![r] = next]
                  /\ UNCHANGED argVars

(* The locals of an answered call are gone. *)
Forget(r) == /\ user' = [user EXCEPT ![r] = 0]
             /\ session' = [session EXCEPT ![r] = NoSession]
             /\ admitted' = [admitted EXCEPT ![r] = NoAdmission]
             /\ verifying' = [verifying EXCEPT ![r] = NoVerify]

Answer(r, answer) == /\ pc' = [pc EXCEPT ![r] = answer]
                     /\ Forget(r)

LookUp(r, u) == /\ user' = [user EXCEPT ![r] = u]
                /\ UNCHANGED <<session, admitted, verifying>>

SameLocals == UNCHANGED <<user, session, admitted, verifying>>

(* argon2.verify is decided by the stored string it is given; it may also  *)
(* throw.  A legacy plain text is compared without argon2.                 *)
VerifyOutcomes(stored, candidate) ==
    {IF stored.secret = candidate THEN "match" ELSE "mismatch"}
        \cup (IF stored.hashed THEN {"error"} ELSE {})

Verify(r, stored) ==
    /\ \E outcome \in VerifyOutcomes(stored, call[r].password) :
          verifying' = [verifying EXCEPT ![r] = [outcome |-> outcome, basis |-> stored]]
    /\ UNCHANGED <<user, session, admitted>>

EmailOf(r) == Canonical[call[r].email]
UserIdOf(r) == users[user[r]].id

------------------------------------------------------------------------------
(* login *)

LoginStart(r, c) ==
    /\ Called(r, c, "login")
    /\ IF LoginLocked(Canonical[c.email], c.ip)
       THEN Answer(r, "429")
       ELSE /\ pc' = [pc EXCEPT ![r] = "loginDelay"]
            /\ admitted' = [admitted EXCEPT ![r] =
                  [since |-> now, fails |-> WorstFailCount(Canonical[c.email], c.ip)]]
            /\ UNCHANGED <<user, session, verifying>>
    /\ UNCHANGED <<now, users, storeVars, jwt, given, life>>

(* The sleep of applyProgressiveDelay is over; look the user up. *)
LoginLookup(r) ==
    /\ pc[r] = "loginDelay"
    /\ now >= admitted[r].since + Backoff(admitted[r].fails)
    /\ Await(r, "loginLookup")
    /\ LookUp(r, FindByEmail(EmailOf(r)))
    /\ UNCHANGED <<now, users, storeVars, life>>

LoginUnknown(r) ==
    /\ pc[r] = "loginLookup"
    /\ user[r] = 0
    /\ RegisterFailedLogin(EmailOf(r), call[r].ip)
    /\ Answer(r, "undefined")
    /\ UNCHANGED <<now, users, sessionVars, passwordResetTokens, argVars, life>>

LoginVerify(r) ==
    /\ pc[r] = "loginLookup"
    /\ user[r] # 0
    /\ Await(r, "loginVerify")
    /\ Verify(r, users[user[r]].password)
    /\ UNCHANGED <<now, users, storeVars, life>>

LoginMismatch(r) ==
    /\ pc[r] = "loginVerify"
    /\ verifying[r].outcome = "mismatch"
    /\ RegisterFailedLogin(EmailOf(r), call[r].ip)
    /\ Answer(r, "undefined")
    /\ UNCHANGED <<now, users, sessionVars, passwordResetTokens, argVars, life>>

LoginSucceed(r) ==
    /\ pc[r] = "loginVerify"
    /\ verifying[r].outcome = "match"
    /\ ClearLoginAttempts(EmailOf(r), call[r].ip)
    /\ NewRefreshAndAccessToken(UserIdOf(r), call[r].ip, call[r].ua,
                                verifying[r].basis, life)
    /\ Answer(r, "tokens")
    /\ UNCHANGED <<now, users, passwordResetTokens, argVars, life>>

------------------------------------------------------------------------------
(* signUp *)

(* Mutant: the email is looked up as it was typed. *)
SignUpStartAsTyped(r, c) ==
    /\ Called(r, c, "signUp")
    /\ pc' = [pc EXCEPT ![r] = "signUpLookup"]
    /\ LookUp(r, FindByEmail(c.email))
    /\ UNCHANGED <<now, users, storeVars, jwt, given, life>>

SignUpStart(r, c) ==
    /\ Called(r, c, "signUp")
    /\ pc' = [pc EXCEPT ![r] = "signUpLookup"]
    /\ LookUp(r, FindByEmail(Canonical[c.email]))
    /\ UNCHANGED <<now, users, storeVars, jwt, given, life>>

SignUpConflict(r) ==
    /\ pc[r] = "signUpLookup"
    /\ user[r] # 0
    /\ Answer(r, "409")
    /\ UNCHANGED <<now, users, storeVars, argVars, life>>

SignUpHash(r) ==
    /\ pc[r] = "signUpLookup"
    /\ user[r] = 0
    /\ Await(r, "signUpHash")
    /\ UNCHANGED <<now, users, storeVars, life>> /\ SameLocals

(* The email was free when it was looked up; it is not looked up again. *)
SignUpCreate(r) ==
    /\ pc[r] = "signUpHash"
    /\ Create(EmailOf(r), Hashed(call[r].password))
    /\ Await(r, "signUpCreate")
    /\ LookUp(r, Len(users) + 1)
    /\ UNCHANGED <<now, storeVars, life>>

SignUpSucceed(r) ==
    /\ pc[r] = "signUpCreate"
    /\ NewRefreshAndAccessToken(UserIdOf(r), call[r].ip, call[r].ua,
                                Hashed(call[r].password), life)
    /\ Answer(r, "tokens")
    /\ UNCHANGED <<now, users, attemptVars, passwordResetTokens, argVars, life>>

------------------------------------------------------------------------------
(* forgotPassword *)

ForgotStart(r, c) ==
    /\ Called(r, c, "forgot")
    /\ pc' = [pc EXCEPT ![r] = "forgotLookup"]
    /\ LookUp(r, FindByEmail(Canonical[c.email]))
    /\ UNCHANGED <<now, users, storeVars, jwt, given, life>>

ForgotUnknown(r) ==
    /\ pc[r] = "forgotLookup"
    /\ user[r] = 0
    /\ Answer(r, "ok")
    /\ UNCHANGED <<now, users, storeVars, argVars, life>>

(* Mutant: the token is issued for the email as it was typed. *)
ForgotIssueAsTyped(r) ==
    /\ pc[r] = "forgotLookup"
    /\ user[r] # 0
    /\ IssuePasswordReset(UserIdOf(r), call[r].email)
    /\ Await(r, "forgotSend")
    /\ UNCHANGED <<now, users, attemptVars, sessionVars, life>> /\ SameLocals

ForgotIssue(r) ==
    /\ pc[r] = "forgotLookup"
    /\ user[r] # 0
    /\ IssuePasswordReset(UserIdOf(r), users[user[r]].email)
    /\ Await(r, "forgotSend")
    /\ UNCHANGED <<now, users, attemptVars, sessionVars, life>> /\ SameLocals

(* SES answers or fails; the token stays issued either way. *)
ForgotSent(r) ==
    /\ pc[r] = "forgotSend"
    /\ \E answer \in {"ok", "500"} : Answer(r, answer)
    /\ UNCHANGED <<now, users, storeVars, argVars, life>>

------------------------------------------------------------------------------
(* resetPassword: t is the token text presented, see PasswordResetTokens.  *)

ResetStart(r, c, t) ==
    /\ Called(r, c, "reset")
    /\ given' = [given EXCEPT ![r] = t]
    /\ pc' = [pc EXCEPT ![r] = "resetLookup"]
    /\ LookUp(r, FindByEmail(Canonical[c.email]))
    /\ UNCHANGED <<now, users, storeVars, jwt, life>>

ResetTokenAccepted(r) ==
    /\ user[r] # 0
    /\ ResetTokenMatches(given[r], UserIdOf(r), EmailOf(r))
    /\ passwordResetTokens[given[r]].active

ResetRefuse(r) ==
    /\ pc[r] = "resetLookup"
    /\ ~ResetTokenAccepted(r)
    /\ Answer(r, "400")
    /\ UNCHANGED <<now, users, storeVars, argVars, life>>

ResetExpire(r) ==
    /\ pc[r] = "resetLookup"
    /\ ResetTokenAccepted(r)
    /\ ResetExpired(given[r])
    /\ passwordResetTokens' = [passwordResetTokens EXCEPT ![given[r]].active = FALSE]
    /\ Answer(r, "400")
    /\ UNCHANGED <<now, users, attemptVars, sessionVars, argVars, life>>

(* From here on the token is not looked at again. *)
ResetAccept(r) ==
    /\ pc[r] = "resetLookup"
    /\ ResetTokenAccepted(r)
    /\ ~ResetExpired(given[r])
    /\ Await(r, "resetHash")
    /\ UNCHANGED <<now, users, storeVars, life>> /\ SameLocals

ResetUpdate(r) ==
    /\ pc[r] = "resetHash"
    /\ UpdatePassword(UserIdOf(r), Hashed(call[r].newPassword))
    /\ Await(r, "resetUpdate")
    /\ UNCHANGED <<now, storeVars, life>> /\ SameLocals

(* updatePassword found the user: users are never removed, so the 404 of   *)
(* this method answers no call.                                            *)
ResetSucceed(r) ==
    /\ pc[r] = "resetUpdate"
    /\ DeactivateActivePasswordResets(UserIdOf(r))
    /\ RevokeAllUserRefreshTokens(UserIdOf(r))
    /\ Answer(r, "ok")
    /\ UNCHANGED <<now, users, attemptVars, argVars, life>>

------------------------------------------------------------------------------
(* changePassword: the caller's id comes from an access token, which is    *)
(* signed together with every refresh JWT and outlives the process.        *)

ChangeStart(r, c) ==
    /\ Called(r, c, "change")
    /\ \E j \in signed : j.session.userId = c.userId
    /\ pc' = [pc EXCEPT ![r] = "changeLookup"]
    /\ LookUp(r, FindOne(c.userId))
    /\ UNCHANGED <<now, users, storeVars, jwt, given, life>>

ChangeRefuse(r) ==
    /\ pc[r] = "changeLookup"
    /\ \/ user[r] = 0 /\ Answer(r, "404")
       \/ /\ user[r] # 0
          /\ call[r].password = call[r].newPassword
          /\ Answer(r, "400")
    /\ UNCHANGED <<now, users, storeVars, argVars, life>>

ChangeVerify(r) ==
    /\ pc[r] = "changeLookup"
    /\ user[r] # 0
    /\ call[r].password # call[r].newPassword
    /\ Await(r, "changeVerify")
    /\ Verify(r, users[user[r]].password)
    /\ UNCHANGED <<now, users, storeVars, life>>

(* Mutant: an answer the API does not have. *)
ChangeForbidden(r) ==
    /\ pc[r] = "changeVerify"
    /\ verifying[r].outcome = "mismatch"
    /\ Answer(r, "403")
    /\ UNCHANGED <<now, users, storeVars, argVars, life>>

ChangeMismatch(r) ==
    /\ pc[r] = "changeVerify"
    /\ verifying[r].outcome = "mismatch"
    /\ Answer(r, "401")
    /\ UNCHANGED <<now, users, storeVars, argVars, life>>

ChangeHash(r) ==
    /\ pc[r] = "changeVerify"
    /\ verifying[r].outcome = "match"
    /\ Await(r, "changeHash")
    /\ UNCHANGED <<now, users, storeVars, life>> /\ SameLocals

ChangeUpdate(r) ==
    /\ pc[r] = "changeHash"
    /\ UpdatePassword(UserIdOf(r), Hashed(call[r].newPassword))
    /\ Await(r, "changeUpdate")
    /\ UNCHANGED <<now, storeVars, life>> /\ SameLocals

ChangeSucceed(r) ==
    /\ pc[r] = "changeUpdate"
    /\ RevokeAllUserRefreshTokens(UserIdOf(r))
    /\ DeactivateActivePasswordResets(UserIdOf(r))
    /\ Answer(r, "ok")
    /\ UNCHANGED <<now, users, attemptVars, argVars, life>>

------------------------------------------------------------------------------
(* refresh and logout: j is the JWT presented. *)

RefreshInvalid(r, c, j) ==
    /\ Called(r, c, "refresh")
    /\ jwt' = [jwt EXCEPT ![r] = j]
    /\ Retrieve(j) = NoSession
    /\ Answer(r, "undefined")
    /\ UNCHANGED <<now, users, storeVars, given, life>>

RefreshStart(r, c, j) ==
    /\ Called(r, c, "refresh")
    /\ jwt' = [jwt EXCEPT ![r] = j]
    /\ Retrieve(j) # NoSession
    /\ pc' = [pc EXCEPT ![r] = "refreshLookup"]
    /\ session' = [session EXCEPT ![r] = Retrieve(j)]
    /\ user' = [user EXCEPT ![r] = FindOne(Retrieve(j).userId)]
    /\ UNCHANGED <<now, users, storeVars, given, admitted, verifying, life>>

(* The session found at the call is rotated, whether or not it is still    *)
(* in the store.                                                           *)
RefreshRotate(r) ==
    /\ pc[r] = "refreshLookup"
    /\ IF user[r] = 0
       THEN Answer(r, "undefined") /\ UNCHANGED sessionVars
       ELSE RotateForDevice(session[r], life) /\ Answer(r, "tokens")
    /\ UNCHANGED <<now, users, attemptVars, passwordResetTokens, argVars, life>>

Logout(r, c, j) ==
    /\ Called(r, c, "logout")
    /\ jwt' = [jwt EXCEPT ![r] = j]
    /\ refreshTokens' = {s \in refreshTokens : s # Retrieve(j)}
    /\ Answer(r, "ok")
    /\ UNCHANGED <<now, users, attemptVars, refreshTokenSequence, signed,
                   passwordResetTokens, given, life>>

------------------------------------------------------------------------------
(* Mutant: a verification that throws is left without an answer. *)
HashFails(r) ==
    /\ pc[r] \in {"signUpHash", "resetHash", "changeHash"}
    /\ Answer(r, "500")
    /\ UNCHANGED <<now, users, storeVars, argVars, life>>

(* argon2 throws where a method awaits it: the call is answered 500 and    *)
(* nothing of what the method would still do is done.                      *)
CryptoFails(r) ==
    /\ \/ pc[r] \in {"signUpHash", "resetHash", "changeHash"}
       \/ pc[r] \in {"loginVerify", "changeVerify"} /\ verifying[r].outcome = "error"
    /\ Answer(r, "500")
    /\ UNCHANGED <<now, users, storeVars, argVars, life>>

(* The process dies and comes back with its seed; the mailed reset tokens  *)
(* are no tokens of the next one.                                          *)
Restart ==
    /\ life < MaxLives
    /\ life' = life + 1
    /\ pc' = [r \in Requests |-> IF pc[r] \in Awaits THEN "lost" ELSE pc[r]]
    /\ user' = [r \in Requests |-> 0]
    /\ session' = [r \in Requests |-> NoSession]
    /\ admitted' = [r \in Requests |-> NoAdmission]
    /\ verifying' = [r \in Requests |-> NoVerify]
    /\ users' = SeedUsers
    /\ emailLoginAttempts' = [e \in Emails |-> NoAttempts]
    /\ ipLoginAttempts' = [i \in IPs |-> NoAttempts]
    /\ refreshTokens' = {}
    /\ refreshTokenSequence' = 0
    /\ passwordResetTokens' = <<>>
    /\ given' = [r \in Requests |-> 0]
    /\ UNCHANGED <<now, signed, call, jwt>>

Sleeping == \E r \in Requests : /\ pc[r] = "loginDelay"
                                /\ now < admitted[r].since + Backoff(admitted[r].fails)

TimePasses == /\ Tick(Sleeping)
              /\ UNCHANGED <<users, storeVars, pc, argVars, life>> /\ SameLocals

Init == /\ ClockInit /\ UsersInit /\ AttemptsInit /\ SessionsInit /\ ResetsInit
        /\ pc = [r \in Requests |-> "idle"]
        /\ call = [r \in Requests |-> NoCall]
        /\ jwt = [r \in Requests |-> NoJwt]
        /\ given = [r \in Requests |-> 0]
        /\ user = [r \in Requests |-> 0]
        /\ session = [r \in Requests |-> NoSession]
        /\ admitted = [r \in Requests |-> NoAdmission]
        /\ verifying = [r \in Requests |-> NoVerify]
        /\ life = 1

(* What the environment does: a call arrives. *)
Arrive(r) ==
    \E c \in Calls :
        \/ LoginStart(r, c) \/ SignUpStart(r, c) \/ ForgotStart(r, c)
        \/ \E t \in 0 .. Len(passwordResetTokens) : ResetStart(r, c, t)
        \/ ChangeStart(r, c)
        \/ \E j \in signed \cup {NoJwt} :
              RefreshInvalid(r, c, j) \/ RefreshStart(r, c, j) \/ Logout(r, c, j)

(* What the service does with a call it has accepted. *)
Proceed(r) ==
    \/ LoginLookup(r) \/ LoginUnknown(r) \/ LoginVerify(r)
    \/ LoginMismatch(r) \/ LoginSucceed(r)
    \/ SignUpConflict(r) \/ SignUpHash(r) \/ SignUpCreate(r) \/ SignUpSucceed(r)
    \/ ForgotUnknown(r) \/ ForgotIssue(r) \/ ForgotSent(r)
    \/ ResetRefuse(r) \/ ResetExpire(r) \/ ResetAccept(r)
    \/ ResetUpdate(r) \/ ResetSucceed(r)
    \/ ChangeRefuse(r) \/ ChangeVerify(r) \/ ChangeMismatch(r)
    \/ ChangeHash(r) \/ ChangeUpdate(r) \/ ChangeSucceed(r)
    \/ RefreshRotate(r) \/ CryptoFails(r)

Next == \/ \E r \in Requests : Arrive(r) \/ Proceed(r)
        \/ TimePasses
        \/ Restart

(* The event loop runs every continuation that is ready, argon2 and SES    *)
(* settle, timers fire; clients owe no call and the process no restart.    *)
Fairness == /\ \A r \in Requests : WF_vars(Proceed(r))
            /\ WF_vars(TimePasses)

Spec == Init /\ [][Next]_vars /\ Fairness

------------------------------------------------------------------------------
(* Properties *)

StoresOK == /\ now \in Nat \ {0} /\ life \in Nat \ {0}
            /\ UsersTypeOK /\ AttemptsTypeOK /\ SessionsTypeOK /\ ResetsTypeOK

LocalsOK == /\ pc \in [Requests -> Awaits \cup Answers \cup {"idle"}]
            /\ call \in [Requests -> Calls \cup {NoCall}]
            /\ jwt \in [Requests -> Jwt \cup {NoJwt}]
            /\ given \in [Requests -> Nat]
            /\ user \in [Requests -> Nat]
            /\ session \in [Requests -> Session \cup {NoSession}]
            /\ admitted \in [Requests -> [since : Nat, fails : Nat]]
            /\ verifying \in [Requests -> [outcome : Outcomes,
                                           basis : Password \cup {NoPassword}]]

TypeOK == StoresOK /\ LocalsOK

(* Where a call in flight will touch these keys' counters. *)
KeyStates(r) == {emailLoginAttempts[EmailOf(r)], ipLoginAttempts[call[r].ip]}

Delayed(r) == pc[r] \in {"loginDelay", "loginLookup", "loginVerify"}

(* login checks the lock once, before its delay and its two awaits, and    *)
(* never again.  Whatever logins overlap, a login that still runs while a  *)
(* lock of its email or address is in force was admitted no later than the *)
(* moment that lock was set: no login slips in under an existing lock.     *)
AdmittedBeforeLock ==
    \A r \in Requests : Delayed(r) =>
        \A a \in KeyStates(r) :
            a.lockedUntil > now => admitted[r].since <= a.lockedUntil - Lockout

(* A lock never lasts longer than AUTH_LOCKOUT_MINUTES from now, however   *)
(* many late failures extend it, and no counter reaches the maximum: the   *)
(* failure that would make it do so resets it (bumpAttemptState).          *)
LockBounded ==
    \A a \in {emailLoginAttempts[e] : e \in Emails} \cup {ipLoginAttempts[i] : i \in IPs} :
        /\ a.failCount < MaxLoginAttempts
        /\ a.lockedUntil <= now + Lockout

(* At any time only the newest reset token of a user can be active:        *)
(* forgotPassword, however many run at once, supersedes what it issued     *)
(* before, and nothing brings an older token back.                         *)
OnlyLatestResetActive ==
    \A i, j \in DOMAIN passwordResetTokens :
        /\ i < j
        /\ passwordResetTokens[i].userId = passwordResetTokens[j].userId
        => ~passwordResetTokens[i].active

(* The reset tokens keep the promise of OneTimeTokens: of the interleaved  *)
(* calls that write the array each step issues one token and supersedes    *)
(* its owner's, withdraws one for good, or leaves the tokens as they are.  *)
ResetTokens == INSTANCE OneTimeTokens WITH
    issued <- [i \in DOMAIN passwordResetTokens |-> passwordResetTokens[i].userId],
    active <- {i \in DOMAIN passwordResetTokens : passwordResetTokens[i].active}

ResetTokensKept == ResetTokens!TokensSpec

(* Within a process lifetime a session id is never given out twice: a JWT  *)
(* resolves, by its id, to the session it was signed for or to nothing,    *)
(* through any overlap of logins, rotations, logouts and revocations.      *)
JwtResolvesToItsSession ==
    \A j \in signed : j.life = life => Retrieve(j) \in {j.session, NoSession}

(* A refresh JWT that was logged out or exchanged stays dead as long as    *)
(* the process lives: no call resolves it to a session again.              *)
SpentJwtStaysDead ==
    \A r \in Requests :
        /\ pc[r] \in Answers
        /\ jwt[r].life = life
        /\ \/ call[r].op = "logout"
           \/ call[r].op = "refresh" /\ pc[r] = "tokens"
        => Retrieve(jwt[r]) = NoSession

(* Refreshing adds no sessions: however refreshes of one JWT overlap with  *)
(* each other, with logouts and with further logins, a device never has    *)
(* more sessions than logins and sign ups were answered to its user there. *)
SessionsComeFromLogins ==
    \A s \in refreshTokens :
        Cardinality({t \in refreshTokens : SameDevice(t, s)})
            <= Cardinality({r \in Requests :
                  /\ call[r].op \in {"login", "signUp"} /\ pc[r] = "tokens"
                  /\ EmailOf(r) = users[s.userId + 1].email
                  /\ call[r].ip = s.ip /\ call[r].ua = s.ua})

(* logout invalidates the refresh token, for good. *)
LogoutIsFinal ==
    \A r \in Requests :
        pc[r] \in Answers /\ call[r].op = "logout"
            => Retrieve(jwt[r]) = NoSession

(* What sessions and reset tokens say of their owner is true: the user is  *)
(* in the table, a reset token carries that user's email, and a refresh    *)
(* always finds the owner of the session it resolved.  The branches that   *)
(* answer `undefined` or 404 for a missing owner are dead code.            *)
OwnersExist ==
    /\ \A i \in DOMAIN users : users[i].id = i - 1
    /\ \A s \in refreshTokens : s.userId < Len(users)
    /\ \A t \in DOMAIN passwordResetTokens :
          /\ passwordResetTokens[t].userId < Len(users)
          /\ passwordResetTokens[t].email = users[passwordResetTokens[t].userId + 1].email
    /\ \A r \in Requests : pc[r] = "refreshLookup" =>
          user[r] # 0 /\ session[r].userId < Len(users)

(* The emails of the table are pairwise different, which signUp's 409      *)
(* promises its callers.                                                   *)
EmailsUnique ==
    \A i, j \in DOMAIN users : users[i].email = users[j].email => i = j

(* A reset token is good for one successful resetPassword: of the calls    *)
(* that were answered with success since the process started, no two       *)
(* presented the same one.                                                 *)
ResetTokenUsedOnce ==
    \A r, s \in Requests :
        /\ \A q \in {r, s} : call[q].op = "reset" /\ pc[q] = "ok" /\ given[q] # 0
        /\ given[r] = given[s]
        => r = s

(* Once a resetPassword was answered with success its token is never       *)
(* accepted again, whatever overlaps: a second use has to be past the      *)
(* check before the first one is answered.                                 *)
SpentResetStaysSpent ==
    [][\A r, s \in Requests :
          /\ pc[r] = "resetLookup" /\ pc'[r] = "resetHash"
          /\ call[s].op = "reset" /\ pc[s] = "ok"
          => given[r] # given[s]]_vars

(* Users whose password is written and whose sessions are revoked in the   *)
(* step after.                                                             *)
Updating == {users[user[r]].id :
                r \in {q \in Requests : pc[q] \in {"resetUpdate", "changeUpdate"}}}

(* resetPassword and changePassword leave no session behind that was       *)
(* opened with the password they replaced.                                 *)
SessionsProveCurrentPassword ==
    \A s \in refreshTokens : \A i \in DOMAIN users :
        users[i].id = s.userId /\ s.userId \notin Updating
            => s.basis = users[i].password

(* A lock in force ends before its time. *)
Lifted(before, after) ==
    before.lockedUntil > now /\ after.lockedUntil < before.lockedUntil

(* r is about to log in and was admitted before that lock was set. *)
EarlierLogin(r, lock) ==
    /\ pc[r] = "loginVerify" /\ verifying[r].outcome = "match"
    /\ admitted[r].since <= lock.lockedUntil - Lockout

(* A lock that is lifted before its time is lifted by the success of a     *)
(* login of its key that was admitted before the lock was set, or by a     *)
(* restart: the deletes of clearLoginAttempts do not ask what they delete. *)
LockLiftedOnlyByEarlierLogin ==
    [][life' = life =>
        /\ \A e \in Emails : Lifted(emailLoginAttempts[e], emailLoginAttempts'[e]) =>
              \E r \in Requests : EarlierLogin(r, emailLoginAttempts[e]) /\ EmailOf(r) = e
        /\ \A i \in IPs : Lifted(ipLoginAttempts[i], ipLoginAttempts'[i]) =>
              \E r \in Requests : EarlierLogin(r, ipLoginAttempts[i]) /\ call[r].ip = i]_vars

(* A lock in force is not lifted before its time, except by a restart.     *)
LockStands ==
    [][life' = life =>
        /\ \A e \in Emails : emailLoginAttempts[e].lockedUntil > now =>
              emailLoginAttempts'[e].lockedUntil >= emailLoginAttempts[e].lockedUntil
        /\ \A i \in IPs : ipLoginAttempts[i].lockedUntil > now =>
              ipLoginAttempts'[i].lockedUntil >= ipLoginAttempts[i].lockedUntil]_vars

(* Every call the service accepts is answered, through failing argon2 and  *)
(* SES calls, delays and restarts.                                         *)
EveryCallAnswered ==
    \A r \in Requests : pc[r] \in Awaits ~> pc[r] \in Answers
==============================================================================

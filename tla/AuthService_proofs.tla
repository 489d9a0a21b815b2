-------------------------- MODULE AuthService_proofs --------------------------
(***************************************************************************)
(* Type correctness of AuthService: TypeOK is inductive only together with *)
(* CallsOK, which says where the locals of a call in flight come from; and *)
(* the login lock under overlapping logins, which needs nothing but the    *)
(* types.  The proofs about sessions and reset tokens extend this module.  *)
(***************************************************************************)
EXTENDS AuthService, UsersService_proofs, SequenceTheorems

(* The awaits at which a call holds a user it has found. *)
HoldsUser == {"loginVerify", "signUpCreate", "forgotSend", "resetHash", "resetUpdate",
              "changeVerify", "changeHash", "changeUpdate"}

(* Where the locals of a call in flight come from. *)
CallOK(r) ==
    /\ pc[r] \in Awaits => call[r] \in Calls
    /\ pc[r] \notin Awaits => user[r] = 0
    /\ user[r] \in 0 .. Len(users)
    /\ pc[r] \in HoldsUser => user[r] # 0
    /\ pc[r] = "loginVerify" => verifying[r].basis \in Password
    /\ pc[r] = "refreshLookup" => session[r] \in Session
    /\ admitted[r].since <= now

CallsOK == \A r \in Requests : CallOK(r)

(* The inductive invariant. *)
TypeInv == TypeOK /\ CallsOK

(* What the assumptions on the configuration give the proofs. *)
LEMMA ConstantsOK ==
    /\ Canonical \in [Emails -> Emails]
    /\ MaxLoginAttempts \in Nat \ {0} /\ Lockout \in Nat \ {0} /\ ResetTtl \in Nat \ {0}
    /\ Calls \subseteq Call
  BY CanonicalAssumption, ConfigAssumption, ResetTtlAssumption, CallsAssumption

(* The constructor's seed is a table of two users. *)
LEMMA SeedTyped == SeedUsers \in Seq(User) /\ Len(SeedUsers) = 2
  <1>1. /\ Legacy("aureopass") \in Password /\ Legacy("buenopass") \in Password
        /\ "aureo" \in Emails /\ "bueno" \in Emails
    BY SeedAssumption DEF Legacy, Password
  <1>2. QED
    BY <1>1 DEF SeedUsers, User

(* The process starts in order. *)
LEMMA InitTypeInv == Init => TypeInv
  <1> SUFFICES ASSUME Init PROVE TypeInv
    OBVIOUS
  <1> USE DEF Init, ClockInit, UsersInit, AttemptsInit, SessionsInit, ResetsInit
  <1>1. UsersTypeOK
    BY SeedTyped DEF UsersTypeOK
  <1>2. AttemptsTypeOK
    BY DEF AttemptsTypeOK, AttemptState, NoAttempts
  <1>3. SessionsTypeOK /\ ResetsTypeOK
    BY DEF SessionsTypeOK, ResetsTypeOK
  <1>4. NoVerify \in [outcome : Outcomes, basis : Password \cup {NoPassword}]
        /\ NoAdmission \in [since : Nat, fails : Nat]
    BY DEF NoVerify, NoAdmission, Outcomes
  <1>5. TypeOK
    BY <1>1, <1>2, <1>3, <1>4 DEF TypeOK, StoresOK, LocalsOK
  <1>6. CallsOK
    BY <1>5, SeedTyped DEF CallsOK, CallOK, Awaits, HoldsUser, NoAdmission, TypeOK, StoresOK
  <1>7. QED
    BY <1>5, <1>6 DEF TypeInv

(* The user a call refers to is in the table. *)
LEMMA UserTyped ==
    ASSUME TypeInv, NEW r \in Requests, user[r] # 0
    PROVE  user[r] \in DOMAIN users /\ users[user[r]] \in User
  <1>1. user[r] \in 1 .. Len(users)
    BY DEF TypeInv, TypeOK, LocalsOK, CallsOK, CallOK
  <1>2. QED
    BY <1>1 DEF TypeInv, TypeOK, StoresOK, UsersTypeOK

(* A step that leaves the stores alone keeps their types. *)
LEMMA SameStores ==
    ASSUME StoresOK, UNCHANGED <<now, users, storeVars, life>>
    PROVE  StoresOK'
  BY DEF StoresOK, UsersTypeOK, AttemptsTypeOK, SessionsTypeOK, ResetsTypeOK,
         storeVars, attemptVars, sessionVars

(* What a step of the call r leaves alone of the other calls. *)
Elsewhere(r) ==
    \A q \in Requests \ {r} :
        /\ pc'[q] = pc[q] /\ call'[q] = call[q] /\ user'[q] = user[q]
        /\ session'[q] = session[q] /\ admitted'[q] = admitted[q]
        /\ verifying'[q] = verifying[q]

(* A step of r that keeps r's own locals in order keeps everyone's. *)
LEMMA CallsOKStep ==
    ASSUME TypeInv, NEW r \in Requests, StoresOK', LocalsOK', Elsewhere(r),
           now' >= now, Len(users') >= Len(users), CallOK(r)'
    PROVE  TypeInv'
  <1>1. ASSUME NEW q \in Requests, q # r
        PROVE  CallOK(q)'
    <2>1. CallOK(q) /\ q \in Requests \ {r}
      BY <1>1 DEF TypeInv, CallsOK
    <2>2. now \in Nat /\ now' \in Nat /\ Len(users) \in Nat /\ Len(users') \in Nat
      BY DEF TypeInv, TypeOK, StoresOK, UsersTypeOK
    <2>3. user[q] \in Nat /\ admitted[q].since \in Nat
      BY DEF TypeInv, TypeOK, LocalsOK
    <2>4. QED
      BY <2>1, <2>2, <2>3 DEF CallOK, Elsewhere
  <1>2. QED
    BY <1>1 DEF TypeInv, TypeOK, CallsOK

(* An answered call is in order, whatever its method. *)
LEMMA AnswerTyped ==
    ASSUME TypeInv, NEW r \in Requests, NEW a \in Answers, Answer(r, a),
           NEW c \in Calls \cup {NoCall}, call' = [call EXCEPT ![r] = c],
           jwt' \in [Requests -> Jwt \cup {NoJwt}], given' \in [Requests -> Nat],
           StoresOK', now' >= now, Len(users') >= Len(users)
    PROVE  TypeInv'
  <1>1. LocalsOK'
    <2>1. NoAdmission \in [since : Nat, fails : Nat]
          /\ NoVerify \in [outcome : Outcomes, basis : Password \cup {NoPassword}]
      BY DEF NoAdmission, NoVerify, Outcomes
    <2>2. QED
      BY <2>1 DEF TypeInv, TypeOK, LocalsOK, Answer, Forget
  <1>2. Elsewhere(r)
    BY DEF TypeInv, TypeOK, LocalsOK, Answer, Forget, Elsewhere
  <1>3. pc'[r] = a /\ user'[r] = 0 /\ admitted'[r] = NoAdmission
    BY DEF TypeInv, TypeOK, LocalsOK, Answer, Forget
  <1>4. CallOK(r)'
    <2>1. a \notin Awaits /\ a \notin HoldsUser /\ a # "loginVerify" /\ a # "refreshLookup"
      BY DEF Answers, Awaits, HoldsUser
    <2>2. now' \in Nat /\ Len(users') \in Nat
      BY DEF StoresOK, UsersTypeOK
    <2>3. QED
      BY <1>3, <2>1, <2>2 DEF CallOK, NoAdmission
  <1>5. QED
    BY <1>1, <1>2, <1>4, CallsOKStep

(* login is refused by a lock or admitted to its delay. *)
LEMMA LoginStartTyped ==
    ASSUME TypeInv, NEW r \in Requests, NEW c \in Calls, LoginStart(r, c)
    PROVE  TypeInv'
  <1>1. StoresOK' /\ now' >= now /\ Len(users') >= Len(users)
    <2>1. StoresOK' 
      BY SameStores DEF LoginStart, TypeInv, TypeOK
    <2>2. QED
     BY <2>1 DEF LoginStart, TypeInv, TypeOK, StoresOK, UsersTypeOK
  <1>2. CASE LoginLocked(Canonical[c.email], c.ip)
    BY <1>1, <1>2, AnswerTyped DEF LoginStart, Called, Answers, TypeInv, TypeOK, LocalsOK
  <1>3. CASE ~LoginLocked(Canonical[c.email], c.ip)
    <2>1. WorstFailCount(Canonical[c.email], c.ip) \in Nat
      BY ConstantsOK DEF TypeInv, TypeOK, StoresOK, AttemptsTypeOK, AttemptState, WorstFailCount, LargerOf, Call
    <2> DEFINE adm == [since |-> now, fails |-> WorstFailCount(Canonical[c.email], c.ip)]
    <2>0. adm \in [since : Nat, fails : Nat]
      BY <2>1 DEF TypeInv, TypeOK, StoresOK
    <2>a. admitted' = [admitted EXCEPT ![r] = adm]
      BY <1>3 DEF LoginStart
    <2> HIDE DEF adm
    <2>2. LocalsOK'
      BY <1>3, <2>0, <2>a DEF TypeInv, TypeOK, LocalsOK, LoginStart, Called, Awaits
    <2>3. Elsewhere(r)
      BY <1>3 DEF TypeInv, TypeOK, LocalsOK, LoginStart, Called, Elsewhere
    <2>4. CallOK(r)'
      BY <1>1, <1>3, <2>1 DEF TypeInv, TypeOK, StoresOK, LocalsOK, LoginStart, Called, CallOK, CallsOK, HoldsUser, Awaits
    <2>5. QED
      BY <1>1, <2>2, <2>3, <2>4, CallsOKStep
  <1>4. QED BY <1>2, <1>3

------------------------------------------------------------------------------
(* What each store operation keeps of the types of its store. *)

(* registerFailedLogin keeps both counter maps typed. *)
LEMMA RegisterTyped ==
    ASSUME StoresOK, NEW e \in Emails, NEW i \in IPs, RegisterFailedLogin(e, i)
    PROVE  AttemptsTypeOK'
  <1>1. ASSUME NEW a \in AttemptState
        PROVE  Bump(a) \in AttemptState
    BY ConstantsOK DEF StoresOK, AttemptState, Bump
  <1>2. QED
    BY <1>1 DEF StoresOK, AttemptsTypeOK, RegisterFailedLogin

(* clearLoginAttempts does too. *)
LEMMA ClearTyped ==
    ASSUME StoresOK, NEW e \in Emails, NEW i \in IPs, ClearLoginAttempts(e, i)
    PROVE  AttemptsTypeOK'
  BY DEF StoresOK, AttemptsTypeOK, ClearLoginAttempts, NoAttempts, AttemptState

(* A pushed session and its JWT are typed. *)
LEMMA OpenSessionTyped ==
    ASSUME StoresOK, NEW kept \in SUBSET Session, NEW u \in Nat, NEW i \in IPs,
           NEW a \in UserAgents, NEW b \in Password, OpenSession(kept, u, i, a, b, life)
    PROVE  SessionsTypeOK'
  BY DEF StoresOK, SessionsTypeOK, OpenSession, Session, Jwt

(* Filtering sessions keeps them typed. *)
LEMMA RevokeTyped ==
    ASSUME StoresOK, NEW u, RevokeAllUserRefreshTokens(u)
    PROVE  SessionsTypeOK'
  BY DEF StoresOK, SessionsTypeOK, RevokeAllUserRefreshTokens

(* A deactivated token is a token. *)
LEMMA Inactive ==
    ASSUME NEW t \in ResetToken
    PROVE  [t EXCEPT !.active = FALSE] \in ResetToken
  BY DEF ResetToken

(* Deactivating a user's tokens keeps the array's type and length. *)
LEMMA DeactivatedTyped ==
    ASSUME ResetsTypeOK, NEW u \in Nat
    PROVE  /\ Deactivated(passwordResetTokens, u) \in Seq(ResetToken)
           /\ Len(Deactivated(passwordResetTokens, u)) = Len(passwordResetTokens)
  <1> DEFINE D == Deactivated(passwordResetTokens, u)
             n == Len(passwordResetTokens)
  <1>1. n \in Nat /\ DOMAIN passwordResetTokens = 1 .. n
    BY DEF ResetsTypeOK
  <1>2. ASSUME NEW t \in 1 .. n
        PROVE  D[t] \in ResetToken
    <2>1. passwordResetTokens[t] \in ResetToken
      BY <1>2, ElementOfSeq DEF ResetsTypeOK
    <2>2. [passwordResetTokens[t] EXCEPT !.active = FALSE] \in ResetToken
      BY <2>1, Inactive
    <2>3. QED
      BY <1>1, <2>1, <2>2 DEF Deactivated
  <1>3. D \in [1 .. n -> ResetToken]
    BY <1>1, <1>2 DEF Deactivated
  <1>4. QED
    BY <1>1, <1>3, SeqDef, LenProperties

(* deactivateActivePasswordResetsForUser keeps the array typed. *)
LEMMA DeactivateTyped ==
    ASSUME StoresOK, NEW u \in Nat, DeactivateActivePasswordResets(u)
    PROVE  ResetsTypeOK'
  BY DeactivatedTyped DEF StoresOK, DeactivateActivePasswordResets, ResetsTypeOK

(* So does the push of a new token. *)
LEMMA IssueTyped ==
    ASSUME StoresOK, NEW u \in Nat, NEW e \in Emails, IssuePasswordReset(u, e)
    PROVE  ResetsTypeOK'
  <1> DEFINE t == [userId |-> u, email |-> e, expires |-> now + ResetTtl, active |-> TRUE]
  <1>1. t \in ResetToken
    BY ConstantsOK DEF StoresOK, ResetToken
  <1>2. Deactivated(passwordResetTokens, u) \in Seq(ResetToken)
    BY DeactivatedTyped DEF StoresOK
  <1>3. passwordResetTokens' = Append(Deactivated(passwordResetTokens, u), t)
    BY DEF IssuePasswordReset
  <1> HIDE DEF t
  <1>4. QED
    BY <1>1, <1>2, <1>3 DEF ResetsTypeOK

(* So does an expiry, which writes one element. *)
LEMMA ExpireTyped ==
    ASSUME StoresOK, NEW t \in DOMAIN passwordResetTokens,
           passwordResetTokens' = [passwordResetTokens EXCEPT ![t].active = FALSE]
    PROVE  ResetsTypeOK'
  <1>1. [passwordResetTokens[t] EXCEPT !.active = FALSE] \in ResetToken
    <2>1. passwordResetTokens[t] \in ResetToken
      BY DEF StoresOK, ResetsTypeOK
    <2>2. QED
      BY <2>1, Inactive
  <1>2. passwordResetTokens'
            = [passwordResetTokens EXCEPT ![t] = [passwordResetTokens[t] EXCEPT !.active = FALSE]]
    OBVIOUS
  <1>3. passwordResetTokens \in Seq(ResetToken) /\ t \in 1 .. Len(passwordResetTokens)
    BY DEF StoresOK, ResetsTypeOK
  <1>4. QED
    BY <1>1, <1>2, <1>3, ExceptSeq DEF ResetsTypeOK

(* UsersService.create adds one user at the end. *)
LEMMA CreateTyped ==
    ASSUME StoresOK, NEW e \in Emails, NEW p \in Password, Create(e, p)
    PROVE  UsersTypeOK' /\ Len(users') = Len(users) + 1
  <1> DEFINE n == IF users = <<>> THEN 0 ELSE users[Len(users)].id + 1
             u == [id |-> n, email |-> e, password |-> p]
  <1>1. n \in Nat
    <2>1. users # <<>> => users[Len(users)] \in User
      BY DEF StoresOK, UsersTypeOK
    <2>2. QED
      BY <2>1 DEF User
  <1>2. u \in User
    BY <1>1 DEF User
  <1>3. users' = Append(users, u)
    BY DEF Create
  <1> HIDE DEF u
  <1>4. QED
    BY <1>2, <1>3 DEF StoresOK, UsersTypeOK

(* UsersService.updatePassword keeps the table typed and its length. *)
LEMMA UpdatePasswordTyped ==
    ASSUME StoresOK, NEW u \in Nat, NEW p \in Password, UpdatePassword(u, p)
    PROVE  UsersTypeOK' /\ Len(users') = Len(users)
  <1> DEFINE i == FindOne(u)
  <1>1. i \in 0 .. Len(users) /\ users \in Seq(User)
    BY FindOneFinds DEF StoresOK, UsersTypeOK
  <1> HIDE DEF i
  <1>2. CASE i = 0
    BY <1>1, <1>2 DEF UpdatePassword, UsersTypeOK, i
  <1>3. CASE i # 0
    <2>1. i \in 1 .. Len(users)
      BY <1>1, <1>3
    <2>2. [users[i] EXCEPT !.password = p] \in User
      <3>1. users[i] \in User
        BY <1>1, <2>1
      <3>2. ASSUME NEW v \in User
            PROVE  [v EXCEPT !.password = p] \in User
        BY DEF User
      <3>3. QED
        BY <3>1, <3>2
    <2>3. users' = [users EXCEPT ![i] = [users[i] EXCEPT !.password = p]]
      BY <1>3 DEF UpdatePassword, i
    <2>4. QED
      BY <1>1, <2>1, <2>2, <2>3, ExceptSeq DEF UsersTypeOK
  <1>4. QED
    BY <1>2, <1>3
------------------------------------------------------------------------------
(* Shapes of steps that recur in the methods. *)

(* The call is answered and keeps its arguments. *)
LEMMA AnsweredTyped ==
    ASSUME TypeInv, NEW r \in Requests, NEW a \in Answers, Answer(r, a),
           UNCHANGED <<now, users, argVars>>, StoresOK'
    PROVE  TypeInv'
  <1>1. call[r] \in Calls \cup {NoCall} /\ call' = [call EXCEPT ![r] = call[r]]
    BY DEF TypeInv, TypeOK, LocalsOK, argVars
  <1>2. jwt' \in [Requests -> Jwt \cup {NoJwt}] /\ given' \in [Requests -> Nat]
    BY DEF TypeInv, TypeOK, LocalsOK, argVars
  <1>3. now' >= now /\ Len(users') >= Len(users)
    BY DEF TypeInv, TypeOK, StoresOK, UsersTypeOK
  <1>4. QED
    BY <1>1, <1>2, <1>3, AnswerTyped

(* The call is answered and nothing else happens. *)
LEMMA RefusedTyped ==
    ASSUME TypeInv, NEW r \in Requests, NEW a \in Answers, Answer(r, a),
           UNCHANGED <<now, users, storeVars, argVars, life>>
    PROVE  TypeInv'
  <1>1. StoresOK'
    BY SameStores DEF TypeInv, TypeOK
  <1>2. QED
    BY <1>1, AnsweredTyped

(* The call goes on to another await with a user it may already hold. *)
LEMMA AwaitTyped ==
    ASSUME TypeInv, NEW r \in Requests, NEW u \in Nat, NEW next \in Awaits,
           pc[r] \in Awaits, Await(r, next), user' = [user EXCEPT ![r] = u],
           UNCHANGED <<session, admitted, verifying>>, StoresOK',
           now' >= now, Len(users') >= Len(users), u <= Len(users'),
           next \in HoldsUser => u # 0,
           next \notin {"loginVerify", "refreshLookup"}
    PROVE  TypeInv'
  <1>1. LocalsOK'
    BY DEF TypeInv, TypeOK, LocalsOK, Await, argVars
  <1>2. Elsewhere(r)
    BY DEF TypeInv, TypeOK, LocalsOK, Await, argVars, Elsewhere
  <1>3. CallOK(r)'
    <2>1. pc'[r] = next /\ call'[r] = call[r] /\ user'[r] = u /\ admitted'[r] = admitted[r]
      BY DEF TypeInv, TypeOK, LocalsOK, Await, argVars
    <2>2. CallOK(r) /\ admitted[r].since \in Nat
      BY DEF TypeInv, TypeOK, LocalsOK, CallsOK
    <2>3. now \in Nat /\ now' \in Nat /\ Len(users') \in Nat
      BY DEF TypeInv, TypeOK, StoresOK, UsersTypeOK
    <2>4. QED
      BY <2>1, <2>2, <2>3 DEF CallOK
  <1>4. QED
    BY <1>1, <1>2, <1>3, CallsOKStep

(* The call goes on to another await and nothing else happens. *)
LEMMA WaitTyped ==
    ASSUME TypeInv, NEW r \in Requests, NEW next \in Awaits,
           pc[r] \in Awaits, Await(r, next), SameLocals, StoresOK',
           now' = now, Len(users') = Len(users),
           next \in HoldsUser => user[r] # 0,
           next \notin {"loginVerify", "refreshLookup"}
    PROVE  TypeInv'
  <1>1. user[r] \in Nat /\ user' = [user EXCEPT ![r] = user[r]]
    BY DEF TypeInv, TypeOK, LocalsOK, SameLocals
  <1>2. user[r] <= Len(users')
    BY DEF TypeInv, CallsOK, CallOK
  <1>3. now' >= now /\ Len(users') >= Len(users)
    BY DEF TypeInv, TypeOK, StoresOK, UsersTypeOK
  <1>4. UNCHANGED <<session, admitted, verifying>>
    BY DEF SameLocals
  <1>5. QED
    BY <1>1, <1>2, <1>3, <1>4, AwaitTyped

(* A new call that starts with a lookup. *)
LEMMA ArrivalTyped ==
    ASSUME TypeInv, NEW r \in Requests, NEW c \in Calls, NEW u \in 0 .. Len(users),
           NEW next \in Awaits \ HoldsUser, next # "refreshLookup",
           call' = [call EXCEPT ![r] = c], pc' = [pc EXCEPT ![r] = next], LookUp(r, u),
           jwt' \in [Requests -> Jwt \cup {NoJwt}], given' \in [Requests -> Nat],
           UNCHANGED <<now, users, storeVars, life>>
    PROVE  TypeInv'
  <1>1. StoresOK'
    BY SameStores DEF TypeInv, TypeOK
  <1>2. LocalsOK'
    <2>1. u \in Nat
      BY DEF TypeInv, TypeOK, StoresOK, UsersTypeOK
    <2>2. QED
      BY <2>1 DEF TypeInv, TypeOK, LocalsOK, LookUp
  <1>3. Elsewhere(r)
    BY DEF TypeInv, TypeOK, LocalsOK, LookUp, Elsewhere
  <1>4. now' >= now /\ Len(users') >= Len(users)
    BY DEF TypeInv, TypeOK, StoresOK, UsersTypeOK
  <1>5. CallOK(r)'
    <2>1. pc'[r] = next /\ call'[r] = c /\ user'[r] = u /\ admitted'[r] = admitted[r]
      BY DEF TypeInv, TypeOK, LocalsOK, LookUp
    <2>2. CallOK(r)
      BY DEF TypeInv, CallsOK
    <2>3. next # "loginVerify"
      BY DEF HoldsUser
    <2>4. QED
      BY <2>1, <2>2, <2>3 DEF CallOK
  <1>6. QED
    BY <1>1, <1>2, <1>3, <1>4, <1>5, CallsOKStep

(* What a call in flight can be read for. *)
LEMMA CallTyped ==
    ASSUME TypeInv, NEW r \in Requests, pc[r] \in Awaits
    PROVE  /\ call[r] \in Call
           /\ EmailOf(r) \in Emails
  BY ConstantsOK DEF TypeInv, CallsOK, CallOK, EmailOf, Call

(* Where a step that writes some stores leaves the others alone. *)
LEMMA StoresStep ==
    ASSUME StoresOK, now' = now, life' = life,
           UsersTypeOK' \/ UNCHANGED users,
           AttemptsTypeOK' \/ UNCHANGED attemptVars,
           SessionsTypeOK' \/ UNCHANGED sessionVars,
           ResetsTypeOK' \/ UNCHANGED passwordResetTokens
    PROVE  StoresOK'
  BY DEF StoresOK, UsersTypeOK, AttemptsTypeOK, SessionsTypeOK, ResetsTypeOK,
         attemptVars, sessionVars
------------------------------------------------------------------------------
(* The steps of each method keep the types. *)

(* The steps of login after its admission. *)
LEMMA LoginTyped ==
    ASSUME TypeInv, NEW r \in Requests,
           LoginLookup(r) \/ LoginUnknown(r) \/ LoginMismatch(r) \/ LoginSucceed(r)
    PROVE  TypeInv'
  <1>1. StoresOK
    BY DEF TypeInv, TypeOK
  <1>2. CASE LoginLookup(r)
    <2>1. StoresOK'
      BY <1>1, <1>2, SameStores DEF LoginLookup
    <2>2. FindByEmail(EmailOf(r)) \in 0 .. Len(users) /\ Len(users) \in Nat /\ now \in Nat
      BY <1>1, FindByEmailFinds DEF StoresOK, UsersTypeOK
    <2> DEFINE u == FindByEmail(EmailOf(r))
    <2>3. /\ u \in Nat /\ u <= Len(users') /\ Len(users') >= Len(users) /\ now' >= now
          /\ user' = [user EXCEPT ![r] = u]
          /\ UNCHANGED <<session, admitted, verifying>>
          /\ pc[r] \in Awaits /\ Await(r, "loginLookup")
      BY <1>2, <2>2 DEF LoginLookup, LookUp, Awaits
    <2>4. "loginLookup" \in Awaits /\ "loginLookup" \notin HoldsUser
      BY DEF Awaits, HoldsUser
    <2> HIDE DEF u
    <2>5. QED
      BY <2>1, <2>3, <2>4, AwaitTyped
  <1>3. CASE LoginUnknown(r) \/ LoginMismatch(r)
    <2>1. pc[r] \in Awaits
      BY <1>3 DEF LoginUnknown, LoginMismatch, Awaits
    <2>2. AttemptsTypeOK'
      BY <1>1, <1>3, <2>1, CallTyped, RegisterTyped DEF LoginUnknown, LoginMismatch, Call
    <2>3. StoresOK'
      BY <1>1, <1>3, <2>2, StoresStep DEF LoginUnknown, LoginMismatch
    <2>4. QED
      BY <1>3, <2>3, AnsweredTyped DEF LoginUnknown, LoginMismatch, Answers
  <1>4. CASE LoginSucceed(r)
    <2>1. pc[r] \in Awaits /\ pc[r] \in HoldsUser /\ pc[r] = "loginVerify"
      BY <1>4 DEF LoginSucceed, Awaits, HoldsUser
    <2>2. call[r] \in Call /\ EmailOf(r) \in Emails
      BY <2>1, CallTyped
    <2>3. AttemptsTypeOK'
      BY <1>1, <1>4, <2>2, ClearTyped DEF LoginSucceed, Call
    <2>4. UserIdOf(r) \in Nat
      BY <2>1, UserTyped DEF TypeInv, CallsOK, CallOK, UserIdOf, User
    <2>5. verifying[r].basis \in Password
      BY <2>1 DEF TypeInv, CallsOK, CallOK
    <2>6. SessionsTypeOK'
      BY <1>1, <1>4, <2>2, <2>4, <2>5, OpenSessionTyped
         DEF LoginSucceed, NewRefreshAndAccessToken, Call, StoresOK, SessionsTypeOK
    <2>7. StoresOK'
      BY <1>1, <1>4, <2>3, <2>6, StoresStep DEF LoginSucceed
    <2>8. QED
      BY <1>4, <2>7, AnsweredTyped DEF LoginSucceed, Answers
  <1>5. QED
    BY <1>2, <1>3, <1>4

(* The steps of signUp. *)
LEMMA SignUpTyped ==
    ASSUME TypeInv, NEW r \in Requests,
           SignUpConflict(r) \/ SignUpHash(r) \/ SignUpCreate(r) \/ SignUpSucceed(r)
    PROVE  TypeInv'
  <1>1. StoresOK
    BY DEF TypeInv, TypeOK
  <1>2. CASE SignUpConflict(r)
    BY <1>2, RefusedTyped DEF SignUpConflict, Answers
  <1>3. CASE SignUpHash(r)
    <2>1. StoresOK'
      BY <1>1, <1>3, SameStores DEF SignUpHash
    <2>2. QED
      BY <1>3, <2>1, WaitTyped DEF SignUpHash, Awaits, HoldsUser
  <1>4. CASE SignUpCreate(r)
    <2>1. call[r] \in Call /\ EmailOf(r) \in Emails
      BY <1>4, CallTyped DEF SignUpCreate, Awaits
    <2>2. Hashed(call[r].password) \in Password
      BY <2>1 DEF Call, Hashed, Password
    <2>3. UsersTypeOK' /\ Len(users') = Len(users) + 1
      BY <1>1, <1>4, <2>1, <2>2, CreateTyped DEF SignUpCreate
    <2>4. StoresOK'
      BY <1>1, <1>4, <2>3, StoresStep DEF SignUpCreate, storeVars
    <2>5. Len(users) \in Nat /\ now \in Nat
      BY <1>1 DEF StoresOK, UsersTypeOK
    <2> DEFINE u == Len(users) + 1
    <2>6. /\ u \in Nat /\ u # 0 /\ u <= Len(users') /\ Len(users') >= Len(users) /\ now' >= now
          /\ user' = [user EXCEPT ![r] = u]
          /\ UNCHANGED <<session, admitted, verifying>>
          /\ pc[r] \in Awaits /\ Await(r, "signUpCreate")
      BY <1>4, <2>3, <2>5 DEF SignUpCreate, LookUp, Awaits
    <2>7. "signUpCreate" \in Awaits
      BY DEF Awaits
    <2> HIDE DEF u
    <2>8. QED
      BY <2>4, <2>6, <2>7, AwaitTyped
  <1>5. CASE SignUpSucceed(r)
    <2>1. call[r] \in Call
      BY <1>5, CallTyped DEF SignUpSucceed, Awaits
    <2>2. Hashed(call[r].password) \in Password
      BY <2>1 DEF Call, Hashed, Password
    <2>3. UserIdOf(r) \in Nat
      BY <1>5, UserTyped DEF SignUpSucceed, TypeInv, CallsOK, CallOK, HoldsUser, UserIdOf, User
    <2>4. SessionsTypeOK'
      BY <1>1, <1>5, <2>1, <2>2, <2>3, OpenSessionTyped
         DEF SignUpSucceed, NewRefreshAndAccessToken, Call, StoresOK, SessionsTypeOK
    <2>5. StoresOK'
      BY <1>1, <1>5, <2>4, StoresStep DEF SignUpSucceed
    <2>6. QED
      BY <1>5, <2>5, AnsweredTyped DEF SignUpSucceed, Answers
  <1>6. QED
    BY <1>2, <1>3, <1>4, <1>5

(* The steps of forgotPassword. *)
LEMMA ForgotTyped ==
    ASSUME TypeInv, NEW r \in Requests,
           ForgotUnknown(r) \/ ForgotIssue(r) \/ ForgotSent(r)
    PROVE  TypeInv'
  <1>1. StoresOK
    BY DEF TypeInv, TypeOK
  <1>2. CASE ForgotUnknown(r) \/ ForgotSent(r)
    BY <1>2, RefusedTyped DEF ForgotUnknown, ForgotSent, Answers
  <1>3. CASE ForgotIssue(r)
    <2>1. users[user[r]] \in User
      BY <1>3, UserTyped DEF ForgotIssue
    <2>2. UserIdOf(r) \in Nat /\ users[user[r]].email \in Emails
      BY <2>1 DEF User, UserIdOf
    <2>3. ResetsTypeOK'
      BY <1>1, <1>3, <2>2, IssueTyped DEF ForgotIssue
    <2>4. StoresOK'
      BY <1>1, <1>3, <2>3, StoresStep DEF ForgotIssue
    <2>5. QED
      BY <1>3, <2>4, WaitTyped DEF ForgotIssue, Awaits, HoldsUser
  <1>4. QED
    BY <1>2, <1>3

(* The steps of resetPassword. *)
LEMMA ResetTyped ==
    ASSUME TypeInv, NEW r \in Requests,
           ResetRefuse(r) \/ ResetExpire(r) \/ ResetAccept(r) \/ ResetUpdate(r)
               \/ ResetSucceed(r)
    PROVE  TypeInv'
  <1>1. StoresOK
    BY DEF TypeInv, TypeOK
  <1>2. CASE ResetRefuse(r)
    BY <1>2, RefusedTyped DEF ResetRefuse, Answers
  <1>3. CASE ResetExpire(r)
    <2>1. given[r] \in DOMAIN passwordResetTokens
      BY <1>3 DEF ResetExpire, ResetTokenAccepted, ResetTokenMatches
    <2>2. ResetsTypeOK'
      BY <1>1, <1>3, <2>1, ExpireTyped DEF ResetExpire
    <2>3. StoresOK'
      BY <1>1, <1>3, <2>2, StoresStep DEF ResetExpire
    <2>4. QED
      BY <1>3, <2>3, AnsweredTyped DEF ResetExpire, Answers
  <1>4. CASE ResetAccept(r)
    <2>1. StoresOK'
      BY <1>1, <1>4, SameStores DEF ResetAccept
    <2>2. user[r] # 0
      BY <1>4 DEF ResetAccept, ResetTokenAccepted
    <2>3. QED
      BY <1>4, <2>1, <2>2, WaitTyped DEF ResetAccept, Awaits
  <1>5. CASE ResetUpdate(r)
    <2>1. pc[r] \in Awaits /\ user[r] # 0
      BY <1>5 DEF ResetUpdate, Awaits, TypeInv, CallsOK, CallOK, HoldsUser
    <2>2. UserIdOf(r) \in Nat
      BY <2>1, UserTyped DEF UserIdOf, User
    <2>3. Hashed(call[r].newPassword) \in Password
      BY <2>1, CallTyped DEF Call, Hashed, Password
    <2>4. UsersTypeOK' /\ Len(users') = Len(users)
      BY <1>1, <1>5, <2>2, <2>3, UpdatePasswordTyped DEF ResetUpdate
    <2>5. StoresOK'
      BY <1>1, <1>5, <2>4, StoresStep DEF ResetUpdate, storeVars
    <2>6. QED
      BY <1>5, <2>1, <2>4, <2>5, WaitTyped DEF ResetUpdate, Awaits
  <1>6. CASE ResetSucceed(r)
    <2>1. UserIdOf(r) \in Nat
      BY <1>6, UserTyped DEF ResetSucceed, TypeInv, CallsOK, CallOK, HoldsUser, UserIdOf, User
    <2>2. ResetsTypeOK' /\ SessionsTypeOK'
      BY <1>1, <1>6, <2>1, DeactivateTyped, RevokeTyped DEF ResetSucceed
    <2>3. StoresOK'
      BY <1>1, <1>6, <2>2, StoresStep DEF ResetSucceed
    <2>4. QED
      BY <1>6, <2>3, AnsweredTyped DEF ResetSucceed, Answers
  <1>7. QED
    BY <1>2, <1>3, <1>4, <1>5, <1>6

(* The steps of changePassword that do not verify. *)
LEMMA ChangeTyped ==
    ASSUME TypeInv, NEW r \in Requests,
           ChangeRefuse(r) \/ ChangeMismatch(r) \/ ChangeHash(r) \/ ChangeUpdate(r)
               \/ ChangeSucceed(r)
    PROVE  TypeInv'
  <1>1. StoresOK
    BY DEF TypeInv, TypeOK
  <1>2. CASE ChangeRefuse(r) \/ ChangeMismatch(r)
    BY <1>2, RefusedTyped DEF ChangeRefuse, ChangeMismatch, Answers
  <1>3. CASE ChangeHash(r)
    <2>1. StoresOK'
      BY <1>1, <1>3, SameStores DEF ChangeHash
    <2>2. user[r] # 0
      BY <1>3 DEF ChangeHash, TypeInv, CallsOK, CallOK, HoldsUser
    <2>3. QED
      BY <1>3, <2>1, <2>2, WaitTyped DEF ChangeHash, Awaits
  <1>4. CASE ChangeUpdate(r)
    <2>1. pc[r] \in Awaits /\ user[r] # 0
      BY <1>4 DEF ChangeUpdate, Awaits, TypeInv, CallsOK, CallOK, HoldsUser
    <2>2. UserIdOf(r) \in Nat
      BY <2>1, UserTyped DEF UserIdOf, User
    <2>3. Hashed(call[r].newPassword) \in Password
      BY <2>1, CallTyped DEF Call, Hashed, Password
    <2>4. UsersTypeOK' /\ Len(users') = Len(users)
      BY <1>1, <1>4, <2>2, <2>3, UpdatePasswordTyped DEF ChangeUpdate
    <2>5. StoresOK'
      BY <1>1, <1>4, <2>4, StoresStep DEF ChangeUpdate, storeVars
    <2>6. QED
      BY <1>4, <2>1, <2>4, <2>5, WaitTyped DEF ChangeUpdate, Awaits
  <1>5. CASE ChangeSucceed(r)
    <2>1. UserIdOf(r) \in Nat
      BY <1>5, UserTyped DEF ChangeSucceed, TypeInv, CallsOK, CallOK, HoldsUser, UserIdOf, User
    <2>2. ResetsTypeOK' /\ SessionsTypeOK'
      BY <1>1, <1>5, <2>1, DeactivateTyped, RevokeTyped DEF ChangeSucceed
    <2>3. StoresOK'
      BY <1>1, <1>5, <2>2, StoresStep DEF ChangeSucceed
    <2>4. QED
      BY <1>5, <2>3, AnsweredTyped DEF ChangeSucceed, Answers
  <1>6. QED
    BY <1>2, <1>3, <1>4, <1>5

(* login and changePassword remember the stored password argon2 works on. *)
LEMMA VerifyTyped ==
    ASSUME TypeInv, NEW r \in Requests, LoginVerify(r) \/ ChangeVerify(r)
    PROVE  TypeInv'
  <1> DEFINE stored == users[user[r]].password
  <1>1. StoresOK' /\ now' >= now /\ Len(users') >= Len(users)
    <2>1. StoresOK'
      BY SameStores DEF LoginVerify, ChangeVerify, TypeInv, TypeOK
    <2>2. QED
      BY <2>1 DEF LoginVerify, ChangeVerify, TypeInv, TypeOK, StoresOK, UsersTypeOK
  <1>2. /\ user[r] # 0 /\ pc[r] \in Awaits /\ stored \in Password
        /\ Verify(r, stored)
        /\ Await(r, "loginVerify") \/ Await(r, "changeVerify")
    <2>1. user[r] # 0 /\ pc[r] \in Awaits
      BY DEF LoginVerify, ChangeVerify, Awaits
    <2>2. stored \in Password
      BY <2>1, UserTyped DEF User
    <2>3. QED
      BY <2>1, <2>2 DEF LoginVerify, ChangeVerify
  <1> HIDE DEF stored
  <1>3. PICK o \in Outcomes :
            verifying' = [verifying EXCEPT ![r] = [outcome |-> o, basis |-> stored]]
    BY <1>2 DEF Verify, VerifyOutcomes, Outcomes
  <1>4. LocalsOK'
    BY <1>2, <1>3 DEF TypeInv, TypeOK, LocalsOK, Await, Verify, argVars, Awaits
  <1>5. Elsewhere(r)
    BY <1>2, <1>3 DEF TypeInv, TypeOK, LocalsOK, Await, Verify, argVars, Elsewhere
  <1>6. CallOK(r)'
    <2>1. /\ pc'[r] \in {"loginVerify", "changeVerify"} /\ call'[r] = call[r]
          /\ user'[r] = user[r] /\ admitted'[r] = admitted[r]
          /\ verifying'[r].basis = stored
      BY <1>2, <1>3 DEF TypeInv, TypeOK, LocalsOK, Await, Verify, argVars
    <2>2. users' = users /\ now' = now
      BY DEF LoginVerify, ChangeVerify
    <2>3. CallOK(r)
      BY DEF TypeInv, CallsOK
    <2>4. {"loginVerify", "changeVerify"} \subseteq Awaits
      BY DEF Awaits
    <2>5. QED
      BY <1>2, <2>1, <2>2, <2>3, <2>4 DEF CallOK
  <1>7. QED
    BY <1>1, <1>4, <1>5, <1>6, CallsOKStep

(* The calls that start with a lookup, and are suspended on it. *)
LEMMA LookupStartTyped ==
    ASSUME TypeInv, NEW r \in Requests, NEW c \in Calls,
           \/ SignUpStart(r, c) \/ ForgotStart(r, c) \/ ChangeStart(r, c)
           \/ \E t \in 0 .. Len(passwordResetTokens) : ResetStart(r, c, t)
    PROVE  TypeInv'
  <1>1. /\ FindByEmail(Canonical[c.email]) \in 0 .. Len(users)
        /\ FindOne(c.userId) \in 0 .. Len(users)
    BY FindByEmailFinds, FindOneFinds DEF TypeInv, TypeOK, StoresOK
  <1>2. /\ jwt \in [Requests -> Jwt \cup {NoJwt}] /\ given \in [Requests -> Nat]
        /\ Len(passwordResetTokens) \in Nat
    BY DEF TypeInv, TypeOK, StoresOK, LocalsOK, ResetsTypeOK
  <1>3. {"signUpLookup", "forgotLookup", "changeLookup", "resetLookup"}
            \subseteq Awaits \ HoldsUser
    BY DEF Awaits, HoldsUser
  <1>4. CASE SignUpStart(r, c)
    BY <1>1, <1>2, <1>3, <1>4, ArrivalTyped DEF SignUpStart, Called
  <1>5. CASE ForgotStart(r, c)
    BY <1>1, <1>2, <1>3, <1>5, ArrivalTyped DEF ForgotStart, Called
  <1>6. CASE ChangeStart(r, c)
    BY <1>1, <1>2, <1>3, <1>6, ArrivalTyped DEF ChangeStart, Called
  <1>7. ASSUME NEW t \in 0 .. Len(passwordResetTokens), ResetStart(r, c, t)
        PROVE  TypeInv'
    <2>1. given' \in [Requests -> Nat]
      BY <1>2, <1>7 DEF ResetStart
    <2>2. QED
      BY <1>1, <1>2, <1>3, <1>7, <2>1, ArrivalTyped DEF ResetStart, Called
  <1>8. QED
    BY <1>4, <1>5, <1>6, <1>7

(* refresh and logout take a JWT that a client holds, or no valid one. *)
LEMMA JwtCallsTyped ==
    ASSUME TypeInv, NEW r \in Requests, NEW c \in Calls, NEW j \in signed \cup {NoJwt},
           RefreshInvalid(r, c, j) \/ RefreshStart(r, c, j) \/ Logout(r, c, j)
    PROVE  TypeInv'
  <1>1. StoresOK /\ j \in Jwt \cup {NoJwt}
    BY DEF TypeInv, TypeOK, StoresOK, SessionsTypeOK
  <1>2. jwt' \in [Requests -> Jwt \cup {NoJwt}] /\ given' \in [Requests -> Nat]
    BY <1>1 DEF RefreshInvalid, RefreshStart, Logout, TypeInv, TypeOK, LocalsOK
  <1>3. SessionsTypeOK' /\ StoresOK'
    <2>1. SessionsTypeOK'
      BY <1>1 DEF RefreshInvalid, RefreshStart, Logout, StoresOK, SessionsTypeOK,
                  storeVars, sessionVars
    <2>2. QED
      BY <1>1, <2>1, StoresStep DEF RefreshInvalid, RefreshStart, Logout, storeVars
  <1>4. now' >= now /\ Len(users') >= Len(users)
    BY <1>1 DEF RefreshInvalid, RefreshStart, Logout, StoresOK, UsersTypeOK
  <1>5. CASE RefreshInvalid(r, c, j)
    BY <1>2, <1>3, <1>4, <1>5, AnswerTyped DEF RefreshInvalid, Called, Answers
  <1>6. CASE Logout(r, c, j)
    BY <1>2, <1>3, <1>4, <1>6, AnswerTyped DEF Logout, Called, Answers
  <1>7. CASE RefreshStart(r, c, j)
    <2> DEFINE s == Retrieve(j)
               u == FindOne(s.userId)
    <2>1. s \in Session
      BY <1>1, <1>7 DEF RefreshStart, Retrieve, StoresOK, SessionsTypeOK
    <2>2. u \in 0 .. Len(users) /\ Len(users) \in Nat
      BY <1>1, FindOneFinds DEF StoresOK, UsersTypeOK
    <2>3. /\ call' = [call EXCEPT ![r] = c] /\ pc' = [pc EXCEPT ![r] = "refreshLookup"]
          /\ session' = [session EXCEPT ![r] = s] /\ user' = [user EXCEPT ![r] = u]
          /\ UNCHANGED <<admitted, verifying, users, now>>
      BY <1>7 DEF RefreshStart, Called
    <2> HIDE DEF s, u
    <2>4. LocalsOK'
      BY <1>2, <2>1, <2>2, <2>3 DEF TypeInv, TypeOK, LocalsOK, Awaits
    <2>5. Elsewhere(r)
      BY <2>3 DEF TypeInv, TypeOK, LocalsOK, Elsewhere
    <2>6. CallOK(r)'
      BY <1>1, <2>1, <2>2, <2>3
         DEF TypeInv, TypeOK, LocalsOK, CallOK, CallsOK, HoldsUser, Awaits
    <2>7. QED
      BY <1>3, <1>4, <2>4, <2>5, <2>6, CallsOKStep
  <1>8. QED
    BY <1>5, <1>6, <1>7

(* The last step of refresh. *)
LEMMA RotateTyped ==
    ASSUME TypeInv, NEW r \in Requests, RefreshRotate(r)
    PROVE  TypeInv'
  <1>1. StoresOK
    BY DEF TypeInv, TypeOK
  <1>2. session[r] \in Session
    BY DEF RefreshRotate, TypeInv, CallsOK, CallOK
  <1>3. SessionsTypeOK'
    <2>1. CASE user[r] = 0
      BY <1>1, <2>1 DEF RefreshRotate, StoresOK, SessionsTypeOK, sessionVars
    <2>2. CASE user[r] # 0
      <3>1. {s \in refreshTokens : ~SameDevice(s, session[r])} \in SUBSET Session
        BY <1>1 DEF StoresOK, SessionsTypeOK
      <3>2. QED
        BY <1>1, <1>2, <2>2, <3>1, OpenSessionTyped DEF RefreshRotate, RotateForDevice, Session
    <2>3. QED
      BY <2>1, <2>2
  <1>4. StoresOK'
    BY <1>1, <1>3, StoresStep DEF RefreshRotate
  <1>5. QED
    BY <1>4, AnsweredTyped DEF RefreshRotate, Answers

(* A restart goes back to the seed and forgets every local. *)
LEMMA RestartTyped ==
    ASSUME TypeInv, Restart
    PROVE  TypeInv'
  <1>1. StoresOK'
    <2>1. UsersTypeOK'
      BY SeedTyped DEF Restart, UsersTypeOK
    <2>2. AttemptsTypeOK'
      BY DEF Restart, AttemptsTypeOK, AttemptState, NoAttempts
    <2>3. SessionsTypeOK' /\ ResetsTypeOK'
      BY DEF Restart, SessionsTypeOK, ResetsTypeOK, TypeInv, TypeOK, StoresOK
    <2>4. QED
      BY <2>1, <2>2, <2>3 DEF Restart, TypeInv, TypeOK, StoresOK
  <1>2. LocalsOK'
    <2>1. NoAdmission \in [since : Nat, fails : Nat]
          /\ NoVerify \in [outcome : Outcomes, basis : Password \cup {NoPassword}]
      BY DEF NoAdmission, NoVerify, Outcomes
    <2>2. pc' \in [Requests -> Awaits \cup Answers \cup {"idle"}]
      BY DEF Restart, TypeInv, TypeOK, LocalsOK, Answers
    <2>3. QED
      BY <2>1, <2>2 DEF Restart, TypeInv, TypeOK, LocalsOK, argVars
  <1>3. ASSUME NEW q \in Requests
        PROVE  CallOK(q)'
    <2>1. pc'[q] \notin Awaits /\ user'[q] = 0 /\ admitted'[q].since = 0
      BY DEF Restart, Awaits, NoAdmission
    <2>2. pc'[q] \notin HoldsUser /\ pc'[q] # "loginVerify" /\ pc'[q] # "refreshLookup"
      BY <2>1 DEF Awaits, HoldsUser
    <2>3. now' \in Nat /\ Len(users') \in Nat
      BY <1>1 DEF StoresOK, UsersTypeOK
    <2>4. QED
      BY <2>1, <2>2, <2>3 DEF CallOK
  <1>4. QED
    BY <1>1, <1>2, <1>3 DEF TypeInv, TypeOK, CallsOK

(* The clock is monotone, so admissions stay in the past. *)
LEMMA TimeTyped ==
    ASSUME TypeInv, TimePasses
    PROVE  TypeInv'
  <1>1. StoresOK'
    BY DEF TimePasses, Tick, TypeInv, TypeOK, StoresOK, UsersTypeOK, AttemptsTypeOK,
           SessionsTypeOK, ResetsTypeOK, storeVars, attemptVars, sessionVars
  <1>2. LocalsOK'
    BY DEF TimePasses, TypeInv, TypeOK, LocalsOK, argVars, SameLocals
  <1>3. now' = now + 1 /\ now \in Nat
    BY DEF TimePasses, Tick, TypeInv, TypeOK, StoresOK
  <1>4. ASSUME NEW q \in Requests
        PROVE  CallOK(q)'
    <2>1. CallOK(q) /\ admitted[q].since \in Nat
      BY DEF TypeInv, TypeOK, LocalsOK, CallsOK
    <2>2. QED
      BY <1>3, <2>1 DEF TimePasses, argVars, SameLocals, CallOK
  <1>5. QED
    BY <1>1, <1>2, <1>4 DEF TypeInv, TypeOK, CallsOK

(* Nothing happens. *)
LEMMA StutterTyped ==
    ASSUME TypeInv, UNCHANGED vars
    PROVE  TypeInv'
  <1>1. StoresOK'
    BY SameStores DEF TypeInv, TypeOK, vars
  <1>2. LocalsOK' /\ CallsOK'
    BY DEF TypeInv, TypeOK, LocalsOK, CallsOK, CallOK, vars, argVars
  <1>3. QED
    BY <1>1, <1>2 DEF TypeInv, TypeOK

(* Every step of the service keeps TypeInv. *)
LEMMA NextTyped ==
    ASSUME TypeInv, [Next]_vars
    PROVE  TypeInv'
  <1>1. ASSUME NEW r \in Requests, Arrive(r)
        PROVE  TypeInv'
    BY <1>1, LoginStartTyped, LookupStartTyped, JwtCallsTyped DEF Arrive
  <1>2. ASSUME NEW r \in Requests, Proceed(r)
        PROVE  TypeInv'
    <2>1. CASE CryptoFails(r)
      BY <2>1, RefusedTyped DEF CryptoFails, Answers
    <2>2. QED
      BY <1>2, <2>1, LoginTyped, VerifyTyped, SignUpTyped, ForgotTyped, ResetTyped,
         ChangeTyped, RotateTyped DEF Proceed
  <1>3. QED
    BY <1>1, <1>2, RestartTyped, TimeTyped, StutterTyped DEF Next

(* The invariant holds in every reachable state. *)
LEMMA TypeInvHolds == Spec => []TypeInv
  <1>1. Init => TypeInv
    BY InitTypeInv
  <1>2. TypeInv /\ [Next]_vars => TypeInv'
    BY NextTyped
  <1>3. QED
    BY <1>1, <1>2, PTL DEF Spec

(* Every reachable state of AuthService is well typed. *)
THEOREM TypeCorrect == Spec => []TypeOK
  <1>1. TypeInv => TypeOK
    BY DEF TypeInv
  <1>2. QED
    BY <1>1, TypeInvHolds, PTL
------------------------------------------------------------------------------
(* The login lock: AdmittedBeforeLock and LockBounded *)

(* The inductive form of AdmittedBeforeLock: a counter that a login in     *)
(* flight will touch either carries no lock beyond the moment the login    *)
(* was admitted, or one that was set after it.                             *)
Since(a, t) == a.lockedUntil <= t \/ t <= a.lockedUntil - Lockout

LockHistory ==
    \A r \in Requests : Delayed(r) =>
        /\ Since(emailLoginAttempts[EmailOf(r)], admitted[r].since)
        /\ Since(ipLoginAttempts[call[r].ip], admitted[r].since)

Bounded(a) == a.failCount < MaxLoginAttempts /\ a.lockedUntil <= now + Lockout

AllBounded == /\ \A e \in Emails : Bounded(emailLoginAttempts[e])
              /\ \A i \in IPs : Bounded(ipLoginAttempts[i])

LockInv == LockHistory /\ AllBounded

(* A step that leaves the counters and the clock alone, and in which no    *)
(* call becomes a delayed login.                                           *)
Quiet == /\ UNCHANGED <<attemptVars, now>>
         /\ \A q \in Requests : pc'[q] \in {"loginDelay", "loginLookup", "loginVerify"} =>
               Delayed(q) /\ call'[q] = call[q] /\ admitted'[q] = admitted[q]

(* Such a step keeps the invariant. *)
LEMMA QuietKeepsLockInv ==
    ASSUME LockInv, Quiet
    PROVE  LockInv'
  <1>1. LockHistory'
    BY DEF LockInv, LockHistory, Quiet, Delayed, EmailOf, Since, attemptVars
  <1>2. AllBounded'
    BY DEF LockInv, AllBounded, Quiet, Bounded, attemptVars
  <1>3. QED
    BY <1>1, <1>2 DEF LockInv

(* A step that answers r touches no other delayed login. *)
LEMMA AnswerQuiet ==
    ASSUME LocalsOK, NEW r \in Requests, NEW a \in Answers, Answer(r, a),
           \A q \in Requests \ {r} : call'[q] = call[q]
    PROVE  \A q \in Requests : pc'[q] \in {"loginDelay", "loginLookup", "loginVerify"} =>
              /\ q # r /\ Delayed(q)
              /\ call'[q] = call[q] /\ admitted'[q] = admitted[q]
  <1>1. a \notin {"loginDelay", "loginLookup", "loginVerify"}
    BY DEF Answers
  <1>2. QED
    BY <1>1 DEF LocalsOK, Answer, Forget, Delayed

(* No arrival but a login's touches the locks. *)
LEMMA ArriveQuiet ==
    ASSUME TypeInv, NEW r \in Requests, NEW c \in Calls,
           \/ SignUpStart(r, c) \/ ForgotStart(r, c) \/ ChangeStart(r, c)
           \/ \E t \in 0 .. Len(passwordResetTokens) : ResetStart(r, c, t)
           \/ \E j \in signed \cup {NoJwt} :
                RefreshInvalid(r, c, j) \/ RefreshStart(r, c, j) \/ Logout(r, c, j)
    PROVE  Quiet
  <1>1. LocalsOK
    BY DEF TypeInv, TypeOK
  <1>2. UNCHANGED <<attemptVars, now>> /\ call' = [call EXCEPT ![r] = c]
    BY DEF SignUpStart, ForgotStart, ChangeStart, ResetStart, RefreshInvalid,
           RefreshStart, Logout, storeVars, Called
  <1>3. \/ \E a \in Answers : Answer(r, a)
        \/ /\ \E n \in {"signUpLookup", "forgotLookup", "changeLookup", "resetLookup",
                        "refreshLookup"} : pc' = [pc EXCEPT ![r] = n]
           /\ admitted' = admitted
    BY DEF SignUpStart, ForgotStart, ChangeStart, ResetStart, RefreshInvalid,
           RefreshStart, Logout, LookUp, Answers
  <1>4. QED
    BY <1>1, <1>2, <1>3, AnswerQuiet DEF LocalsOK, Quiet, Delayed

(* No step but a login's end touches the locks. *)
LEMMA ProceedQuiet ==
    ASSUME TypeInv, NEW r \in Requests, Proceed(r),
           ~LoginUnknown(r), ~LoginMismatch(r), ~LoginSucceed(r)
    PROVE  Quiet
  <1>1. LocalsOK
    BY DEF TypeInv, TypeOK
  <1>2. UNCHANGED <<attemptVars, now, call>>
    BY DEF Proceed, LoginLookup, LoginVerify, SignUpConflict, SignUpHash, SignUpCreate,
           SignUpSucceed, ForgotUnknown, ForgotIssue, ForgotSent, ResetRefuse, ResetExpire,
           ResetAccept, ResetUpdate, ResetSucceed, ChangeRefuse, ChangeVerify,
           ChangeMismatch, ChangeHash, ChangeUpdate, ChangeSucceed, RefreshRotate,
           CryptoFails, storeVars, argVars, Await
  <1>3. \/ \E a \in Answers : Answer(r, a)
        \/ /\ \E n \in {"signUpHash", "signUpCreate", "forgotSend", "resetHash", "resetUpdate",
                        "changeVerify", "changeHash", "changeUpdate"} : Await(r, n)
           /\ admitted' = admitted
        \/ /\ Await(r, "loginLookup") \/ Await(r, "loginVerify")
           /\ admitted' = admitted /\ Delayed(r)
    BY DEF Proceed, LoginLookup, LoginVerify, SignUpConflict, SignUpHash, SignUpCreate,
           SignUpSucceed, ForgotUnknown, ForgotIssue, ForgotSent, ResetRefuse, ResetExpire,
           ResetAccept, ResetUpdate, ResetSucceed, ChangeRefuse, ChangeVerify,
           ChangeMismatch, ChangeHash, ChangeUpdate, ChangeSucceed, RefreshRotate,
           CryptoFails, Answers, LookUp, SameLocals, Verify, Delayed
  <1>4. QED
    BY <1>1, <1>2, <1>3, AnswerQuiet DEF LocalsOK, Quiet, Delayed, Await

(* A failure leaves a counter bounded, and its lock, if it sets one, is    *)
(* younger than every admission.                                           *)
LEMMA BumpKeeps ==
    ASSUME now \in Nat, NEW a \in AttemptState, Bounded(a)
    PROVE  /\ Bounded(Bump(a))
           /\ \A t \in Nat : t <= now /\ Since(a, t) => Since(Bump(a), t)
  <1>1. MaxLoginAttempts \in Nat \ {0} /\ Lockout \in Nat
    BY ConstantsOK
  <1>2. a.failCount \in Nat /\ a.lockedUntil \in Nat
    BY DEF AttemptState
  <1>3. CASE a.failCount + 1 >= MaxLoginAttempts
    BY <1>1, <1>2, <1>3 DEF Bump, Bounded, Since
  <1>4. CASE ~(a.failCount + 1 >= MaxLoginAttempts)
    <2>1. Bump(a).failCount = a.failCount + 1 /\ Bump(a).lockedUntil = a.lockedUntil
      BY <1>4 DEF Bump, AttemptState
    <2>2. QED
      BY <1>1, <1>2, <1>4, <2>1 DEF Bounded, Since
  <1>5. QED
    BY <1>3, <1>4

(* Every step keeps LockInv: only a login's start and ends need an argument. *)
LEMMA LockStep ==
    ASSUME TypeInv, LockInv, [Next]_vars
    PROVE  LockInv'
  <1>1. /\ LocalsOK /\ AttemptsTypeOK /\ now \in Nat
        /\ MaxLoginAttempts \in Nat \ {0} /\ Lockout \in Nat
    BY ConstantsOK DEF TypeInv, TypeOK, StoresOK
  <1>2. ASSUME NEW q \in Requests
        PROVE  /\ admitted[q].since \in Nat /\ admitted[q].since <= now
               /\ Delayed(q) => EmailOf(q) \in Emails /\ call[q].ip \in IPs
    <2>1. Delayed(q) => pc[q] \in Awaits
      BY DEF Delayed, Awaits
    <2>2. QED
      BY <1>1, <2>1, CallTyped DEF TypeInv, CallsOK, CallOK, LocalsOK, Call
  <1>3. ASSUME NEW r \in Requests, NEW c \in Calls, LoginStart(r, c)
        PROVE  LockInv'
    <2> DEFINE e == Canonical[c.email]
    <2>1. e \in Emails /\ c.ip \in IPs
      BY ConstantsOK DEF Call
    <2>2. UNCHANGED <<attemptVars, now>> /\ call' = [call EXCEPT ![r] = c]
      BY <1>3 DEF LoginStart, Called, storeVars
    <2>3. CASE LoginLocked(e, c.ip)
      <3>1. Quiet
        BY <1>1, <1>3, <2>2, <2>3, AnswerQuiet DEF LoginStart, Answers, Quiet, LocalsOK
      <3>2. QED
        BY <3>1, QuietKeepsLockInv
    <2>4. CASE ~LoginLocked(e, c.ip)
      <3>1. /\ emailLoginAttempts[e].lockedUntil \in Nat
            /\ ipLoginAttempts[c.ip].lockedUntil \in Nat
        BY <1>1, <2>1 DEF AttemptsTypeOK, AttemptState
      <3>2. /\ emailLoginAttempts[e].lockedUntil <= now
            /\ ipLoginAttempts[c.ip].lockedUntil <= now
        BY <1>1, <2>4, <3>1 DEF LoginLocked, LargerOf
      <3>3. /\ pc' = [pc EXCEPT ![r] = "loginDelay"]
            /\ \E f : admitted' = [admitted EXCEPT ![r] = [since |-> now, fails |-> f]]
        BY <1>3, <2>4 DEF LoginStart
      <3>4. call'[r] = c /\ admitted'[r].since = now
        BY <1>1, <2>2, <3>3 DEF LocalsOK
      <3>5. ASSUME NEW q \in Requests, Delayed(q)'
            PROVE  /\ Since(emailLoginAttempts'[Canonical[call'[q].email]], admitted'[q].since)
                   /\ Since(ipLoginAttempts'[call'[q].ip], admitted'[q].since)
        <4>1. CASE q = r
          BY <2>2, <3>2, <3>4, <4>1 DEF Since, attemptVars
        <4>2. CASE q # r
          <5>1. Delayed(q) /\ call'[q] = call[q] /\ admitted'[q] = admitted[q]
            BY <1>1, <2>2, <3>3, <3>5, <4>2 DEF Delayed, LocalsOK
          <5>2. QED
            BY <2>2, <5>1 DEF LockInv, LockHistory, EmailOf, attemptVars
        <4>3. QED
          BY <4>1, <4>2
      <3>6. AllBounded'
        BY <2>2 DEF LockInv, AllBounded, Bounded, attemptVars
      <3>7. QED
        BY <3>5, <3>6 DEF LockInv, LockHistory, EmailOf
    <2>5. QED
      BY <2>3, <2>4
  <1>4. ASSUME NEW r \in Requests, LoginUnknown(r) \/ LoginMismatch(r)
        PROVE  LockInv'
    <2>1. /\ RegisterFailedLogin(EmailOf(r), call[r].ip)
          /\ now' = now /\ call' = call /\ Answer(r, "undefined") /\ Delayed(r)
      BY <1>4 DEF LoginUnknown, LoginMismatch, argVars, Delayed
    <2>2. \A q \in Requests : Delayed(q)' =>
              Delayed(q) /\ call'[q] = call[q] /\ admitted'[q] = admitted[q]
      BY <1>1, <2>1, AnswerQuiet DEF Answers, Delayed
    <2>3. ASSUME NEW e \in Emails
          PROVE  /\ Bounded(emailLoginAttempts'[e])
                 /\ \A t \in Nat : t <= now /\ Since(emailLoginAttempts[e], t)
                        => Since(emailLoginAttempts'[e], t)
      <3>1. emailLoginAttempts[e] \in AttemptState /\ Bounded(emailLoginAttempts[e])
        BY <1>1 DEF AttemptsTypeOK, LockInv, AllBounded
      <3>2. emailLoginAttempts'[e] \in {emailLoginAttempts[e], Bump(emailLoginAttempts[e])}
        BY <1>1, <2>1 DEF RegisterFailedLogin, AttemptsTypeOK
      <3>3. QED
        BY <1>1, <3>1, <3>2, BumpKeeps
    <2>4. ASSUME NEW i \in IPs
          PROVE  /\ Bounded(ipLoginAttempts'[i])
                 /\ \A t \in Nat : t <= now /\ Since(ipLoginAttempts[i], t)
                        => Since(ipLoginAttempts'[i], t)
      <3>1. ipLoginAttempts[i] \in AttemptState /\ Bounded(ipLoginAttempts[i])
        BY <1>1 DEF AttemptsTypeOK, LockInv, AllBounded
      <3>2. ipLoginAttempts'[i] \in {ipLoginAttempts[i], Bump(ipLoginAttempts[i])}
        BY <1>1, <2>1 DEF RegisterFailedLogin, AttemptsTypeOK
      <3>3. QED
        BY <1>1, <3>1, <3>2, BumpKeeps
    <2>5. LockHistory'
      BY <1>2, <2>2, <2>3, <2>4 DEF LockInv, LockHistory, EmailOf
    <2>6. AllBounded'
      BY <2>1, <2>3, <2>4 DEF AllBounded, Bounded
    <2>7. QED
      BY <2>5, <2>6 DEF LockInv
  <1>5. ASSUME NEW r \in Requests, LoginSucceed(r)
        PROVE  LockInv'
    <2>1. /\ ClearLoginAttempts(EmailOf(r), call[r].ip)
          /\ now' = now /\ call' = call /\ Answer(r, "tokens")
      BY <1>5 DEF LoginSucceed, argVars
    <2>2. \A q \in Requests : Delayed(q)' =>
              Delayed(q) /\ call'[q] = call[q] /\ admitted'[q] = admitted[q]
      BY <1>1, <2>1, AnswerQuiet DEF Answers, Delayed
    <2>3. /\ \A e \in Emails : emailLoginAttempts'[e] \in {emailLoginAttempts[e], NoAttempts}
          /\ \A i \in IPs : ipLoginAttempts'[i] \in {ipLoginAttempts[i], NoAttempts}
      BY <1>1, <2>1 DEF ClearLoginAttempts, AttemptsTypeOK
    <2>4. Bounded(NoAttempts) /\ \A t \in Nat : Since(NoAttempts, t)
      BY <1>1 DEF Bounded, NoAttempts, Since
    <2>5. LockHistory'
      BY <1>2, <2>2, <2>3, <2>4 DEF LockInv, LockHistory, EmailOf
    <2>6. AllBounded'
      BY <2>1, <2>3, <2>4 DEF LockInv, AllBounded, Bounded
    <2>7. QED
      BY <2>5, <2>6 DEF LockInv
  <1>6. CASE TimePasses
    <2>1. /\ UNCHANGED <<attemptVars, pc, call, admitted>> /\ now' = now + 1
      BY <1>6 DEF TimePasses, Tick, storeVars, argVars, SameLocals
    <2>2. LockHistory'
      BY <2>1 DEF LockInv, LockHistory, Delayed, EmailOf, attemptVars, Since
    <2>3. ASSUME NEW a \in AttemptState, a.lockedUntil <= now + Lockout
          PROVE  a.lockedUntil <= now' + Lockout
      BY <1>1, <2>1, <2>3 DEF AttemptState
    <2>4. AllBounded'
      BY <1>1, <2>1, <2>3 DEF LockInv, AllBounded, Bounded, attemptVars, AttemptsTypeOK
    <2>5. QED
      BY <2>2, <2>4 DEF LockInv
  <1>7. CASE Restart
    <2>1. \A q \in Requests : ~Delayed(q)'
      BY <1>7 DEF Restart, Delayed, Awaits
    <2>2. AllBounded'
      BY <1>1, <1>7 DEF Restart, AllBounded, Bounded, NoAttempts
    <2>3. QED
      BY <2>1, <2>2 DEF LockInv, LockHistory
  <1>8. CASE UNCHANGED vars
    BY <1>8, QuietKeepsLockInv DEF vars, storeVars, argVars, Quiet, Delayed
  <1>9. ASSUME NEW r \in Requests, Arrive(r)
        PROVE  LockInv'
    BY <1>3, <1>9, ArriveQuiet, QuietKeepsLockInv DEF Arrive
  <1>10. ASSUME NEW r \in Requests, Proceed(r)
         PROVE  LockInv'
    BY <1>4, <1>5, <1>10, ProceedQuiet, QuietKeepsLockInv
  <1>11. QED
    BY <1>6, <1>7, <1>8, <1>9, <1>10 DEF Next

(* LockInv is stronger than the two properties. *)
LEMMA LockInvImplies ==
    ASSUME TypeInv, LockInv
    PROVE  AdmittedBeforeLock /\ LockBounded
  <1>1. ASSUME NEW r \in Requests, Delayed(r), NEW a \in KeyStates(r), a.lockedUntil > now
        PROVE  admitted[r].since <= a.lockedUntil - Lockout
    <2>1. pc[r] \in Awaits
      BY <1>1 DEF Delayed, Awaits
    <2>2. a \in AttemptState
      BY <1>1, <2>1, CallTyped
         DEF TypeInv, TypeOK, StoresOK, AttemptsTypeOK, KeyStates, EmailOf, Call
    <2>3. Since(a, admitted[r].since)
      BY <1>1 DEF LockInv, LockHistory, KeyStates, EmailOf
    <2>4. admitted[r].since \in Nat /\ admitted[r].since <= now /\ now \in Nat
      BY DEF TypeInv, TypeOK, StoresOK, LocalsOK, CallsOK, CallOK
    <2>5. QED
      BY <1>1, <2>2, <2>3, <2>4 DEF Since, AttemptState
  <1>2. LockBounded
    BY DEF LockInv, AllBounded, Bounded, LockBounded
  <1>3. QED
    BY <1>1, <1>2 DEF AdmittedBeforeLock

(* LockInv holds in every reachable state. *)
LEMMA LockInvHolds == Spec => []LockInv
  <1>1. Init => LockInv
    BY ConstantsOK DEF Init, ClockInit, AttemptsInit, NoAttempts, LockInv, LockHistory,
                       Delayed, AllBounded, Bounded
  <1>2. TypeInv /\ LockInv /\ [Next]_vars => LockInv'
    BY LockStep
  <1>3. QED
    BY <1>1, <1>2, TypeInvHolds, PTL DEF Spec

(* No login slips in under an existing lock, for any number of             *)
(* overlapping logins.                                                     *)
THEOREM LocksHold == Spec => []AdmittedBeforeLock
  <1>1. TypeInv /\ LockInv => AdmittedBeforeLock
    BY LockInvImplies
  <1>2. QED
    BY <1>1, TypeInvHolds, LockInvHolds, PTL

(* No lock and no counter grows beyond its configured limit. *)
THEOREM LocksBounded == Spec => []LockBounded
  <1>1. TypeInv /\ LockInv => LockBounded
    BY LockInvImplies
  <1>2. QED
    BY <1>1, TypeInvHolds, LockInvHolds, PTL
------------------------------------------------------------------------------
(* LockLiftedOnlyByEarlierLogin *)

(* A failed login lifts no lock: the one it may set lasts longer than any. *)
LEMMA BumpLiftsNothing ==
    ASSUME now \in Nat, NEW a \in AttemptState, Bounded(a)
    PROVE  ~Lifted(a, a) /\ ~Lifted(a, Bump(a))
  <1>1. MaxLoginAttempts \in Nat \ {0} /\ Lockout \in Nat
    BY ConstantsOK
  <1>2. a.failCount \in Nat /\ a.lockedUntil \in Nat /\ a.lockedUntil <= now + Lockout
    BY DEF AttemptState, Bounded
  <1>3. CASE a.failCount + 1 >= MaxLoginAttempts
    BY <1>1, <1>2, <1>3 DEF Bump, Lifted
  <1>4. CASE ~(a.failCount + 1 >= MaxLoginAttempts)
    <2>1. Bump(a).lockedUntil = a.lockedUntil
      BY <1>4 DEF Bump, AttemptState
    <2>2. QED
      BY <1>2, <2>1 DEF Lifted
  <1>5. QED
    BY <1>3, <1>4

(* A login in flight whose counter carries a lock in force was admitted    *)
(* before that lock was set.                                               *)
LEMMA SinceEarlier ==
    ASSUME now \in Nat, NEW a \in AttemptState, NEW t \in Nat, t <= now, Since(a, t),
           a.lockedUntil > now
    PROVE  t <= a.lockedUntil - Lockout
  <1>1. a.lockedUntil \in Nat
    BY DEF AttemptState
  <1>2. QED
    BY <1>1 DEF Since

(* A lock that is lifted belongs to a key of a login that is about to      *)
(* succeed and was admitted before the lock was set.                       *)
LEMMA LiftStep ==
    ASSUME TypeInv, LockInv, [Next]_vars, life' = life
    PROVE  /\ \A e \in Emails : Lifted(emailLoginAttempts[e], emailLoginAttempts'[e]) =>
                 \E r \in Requests : EarlierLogin(r, emailLoginAttempts[e]) /\ EmailOf(r) = e
           /\ \A i \in IPs : Lifted(ipLoginAttempts[i], ipLoginAttempts'[i]) =>
                 \E r \in Requests : EarlierLogin(r, ipLoginAttempts[i]) /\ call[r].ip = i
  <1>1. /\ AttemptsTypeOK /\ now \in Nat /\ life \in Nat
        /\ \A e \in Emails : emailLoginAttempts[e] \in AttemptState
        /\ \A i \in IPs : ipLoginAttempts[i] \in AttemptState
    BY DEF TypeInv, TypeOK, StoresOK, AttemptsTypeOK
  <1>2. CASE UNCHANGED attemptVars
    BY <1>1, <1>2, BumpLiftsNothing DEF attemptVars, LockInv, AllBounded
  <1>3. ASSUME NEW r \in Requests, LoginUnknown(r) \/ LoginMismatch(r)
        PROVE  /\ \A e \in Emails : ~Lifted(emailLoginAttempts[e], emailLoginAttempts'[e])
               /\ \A i \in IPs : ~Lifted(ipLoginAttempts[i], ipLoginAttempts'[i])
    <2>1. RegisterFailedLogin(EmailOf(r), call[r].ip)
      BY <1>3 DEF LoginUnknown, LoginMismatch
    <2>2. /\ \A e \in Emails : emailLoginAttempts'[e]
                \in {emailLoginAttempts[e], Bump(emailLoginAttempts[e])}
          /\ \A i \in IPs : ipLoginAttempts'[i] \in {ipLoginAttempts[i], Bump(ipLoginAttempts[i])}
      BY <1>1, <2>1 DEF RegisterFailedLogin, AttemptsTypeOK
    <2>3. QED
      BY <1>1, <2>2, BumpLiftsNothing DEF LockInv, AllBounded
  <1>4. ASSUME NEW r \in Requests, LoginSucceed(r)
        PROVE  /\ \A e \in Emails : Lifted(emailLoginAttempts[e], emailLoginAttempts'[e]) =>
                     EarlierLogin(r, emailLoginAttempts[e]) /\ EmailOf(r) = e
               /\ \A i \in IPs : Lifted(ipLoginAttempts[i], ipLoginAttempts'[i]) =>
                     EarlierLogin(r, ipLoginAttempts[i]) /\ call[r].ip = i
    <2>1. /\ ClearLoginAttempts(EmailOf(r), call[r].ip)
          /\ pc[r] = "loginVerify" /\ verifying[r].outcome = "match" /\ Delayed(r)
      BY <1>4 DEF LoginSucceed, Delayed
    <2>2. admitted[r].since \in Nat /\ admitted[r].since <= now
      BY DEF TypeInv, TypeOK, LocalsOK, CallsOK, CallOK
    <2>3. /\ Since(emailLoginAttempts[EmailOf(r)], admitted[r].since)
          /\ Since(ipLoginAttempts[call[r].ip], admitted[r].since)
      BY <2>1 DEF LockInv, LockHistory
    <2>4. ASSUME NEW e \in Emails, Lifted(emailLoginAttempts[e], emailLoginAttempts'[e])
          PROVE  EarlierLogin(r, emailLoginAttempts[e]) /\ EmailOf(r) = e
      <3>1. EmailOf(r) = e
        <4>1. EmailOf(r) # e => emailLoginAttempts'[e] = emailLoginAttempts[e]
          BY <1>1, <2>1 DEF ClearLoginAttempts, AttemptsTypeOK
        <4>2. ~Lifted(emailLoginAttempts[e], emailLoginAttempts[e])
          BY <1>1, BumpLiftsNothing DEF LockInv, AllBounded
        <4>3. QED
          BY <2>4, <4>1, <4>2
      <3>2. emailLoginAttempts[e].lockedUntil > now
        BY <2>4 DEF Lifted
      <3>3. QED
        BY <1>1, <2>1, <2>2, <2>3, <3>1, <3>2, SinceEarlier DEF EarlierLogin
    <2>5. ASSUME NEW i \in IPs, Lifted(ipLoginAttempts[i], ipLoginAttempts'[i])
          PROVE  EarlierLogin(r, ipLoginAttempts[i]) /\ call[r].ip = i
      <3>1. call[r].ip = i
        <4>1. call[r].ip # i => ipLoginAttempts'[i] = ipLoginAttempts[i]
          BY <1>1, <2>1 DEF ClearLoginAttempts, AttemptsTypeOK
        <4>2. ~Lifted(ipLoginAttempts[i], ipLoginAttempts[i])
          BY <1>1, BumpLiftsNothing DEF LockInv, AllBounded
        <4>3. QED
          BY <2>5, <4>1, <4>2
      <3>2. ipLoginAttempts[i].lockedUntil > now
        BY <2>5 DEF Lifted
      <3>3. QED
        BY <1>1, <2>1, <2>2, <2>3, <3>1, <3>2, SinceEarlier DEF EarlierLogin
    <2>6. QED
      BY <2>4, <2>5
  <1>5. \/ UNCHANGED attemptVars
        \/ \E r \in Requests : LoginUnknown(r) \/ LoginMismatch(r) \/ LoginSucceed(r)
    <2>1. ASSUME NEW r \in Requests, Arrive(r)
          PROVE  UNCHANGED attemptVars
      BY <2>1, ArriveQuiet DEF Arrive, LoginStart, storeVars, Quiet
    <2>2. ASSUME NEW r \in Requests, Proceed(r), ~LoginUnknown(r), ~LoginMismatch(r),
                 ~LoginSucceed(r)
          PROVE  UNCHANGED attemptVars
      BY <2>2, ProceedQuiet DEF Quiet
    <2>3. ~Restart
      BY <1>1 DEF Restart
    <2>4. CASE TimePasses \/ UNCHANGED vars
      BY <2>4 DEF TimePasses, vars, storeVars
    <2>5. QED
      BY <2>1, <2>2, <2>3, <2>4 DEF Next
  <1>6. QED
    BY <1>2, <1>3, <1>4, <1>5

(* A lock that ends before its time, outside a restart, was deleted by a   *)
(* login that was admitted before it was set, whatever overlaps.           *)
THEOREM LocksLifted == Spec => LockLiftedOnlyByEarlierLogin
  <1>1. TypeInv /\ LockInv /\ [Next]_vars =>
            [life' = life =>
                /\ \A e \in Emails : Lifted(emailLoginAttempts[e], emailLoginAttempts'[e]) =>
                      \E r \in Requests : EarlierLogin(r, emailLoginAttempts[e]) /\ EmailOf(r) = e
                /\ \A i \in IPs : Lifted(ipLoginAttempts[i], ipLoginAttempts'[i]) =>
                      \E r \in Requests : EarlierLogin(r, ipLoginAttempts[i]) /\ call[r].ip = i]_vars
    BY LiftStep
  <1>2. QED
    BY <1>1, TypeInvHolds, LockInvHolds, PTL DEF Spec, LockLiftedOnlyByEarlierLogin
==============================================================================

--------------------------- MODULE ShieldAuth_proofs ---------------------------
(***************************************************************************)
(* The two services on one user table.  What is proved of AuthService      *)
(* alone outlives the company of InviteUserService, whose only write to a  *)
(* store of AuthService is a user at the end of the table; what is proved  *)
(* of InviteUserService outlives AuthService, which takes no email from    *)
(* the table; and the audit trail accounts for that table, whoever writes  *)
(* it.                                                                     *)
(***************************************************************************)
EXTENDS ShieldAuth, Credentials_proofs, FiniteSetTheorems

(* What a call of InviteUserService is: one the environment may make, with *)
(* a method that fits the await it is suspended at.                        *)
Completing == {"completeLookup", "completeHash", "completeCreate"}

InviteCallOK(r) ==
    invitePc[r] \in Inv!Awaits =>
        /\ inviteCall[r] \in InviteCalls
        /\ inviteCall[r].op = "complete" <=> invitePc[r] \in Completing

InviteTyped ==
    /\ invitePc \in [Requests -> Inv!Awaits \cup Inv!Answers \cup {"idle"}]
    /\ inviteCall \in [Requests -> InviteCalls \cup {NoCall}]
    /\ \A r \in Requests : InviteCallOK(r)

(* All that InviteUserService does to the state of AuthService. *)
Joins == \E e \in Emails, p \in Password : Create(e, p)

InviteStep == /\ UNCHANGED <<authVars, now, life>>
              /\ users' = users \/ Joins

(* The calls of InviteUserService are what their methods make them. *)
LEMMA InviteArrives ==
    ASSUME InviteTyped, NEW r \in Requests, Inv!Arrive(r)
    PROVE  /\ InviteTyped'
           /\ UNCHANGED <<now, users, life>>
           /\ invitePc[r] = "idle" /\ inviteCall'[r] \in InviteCalls
           /\ invitePc'[r] \notin {"idle", "completeCreate", "ok"}
           /\ \A q \in Requests \ {r} : invitePc'[q] = invitePc[q]
  <1> USE DEF InviteTyped, InviteCallOK, Completing, Inv!Awaits, Inv!Answers
  <1>1. PICK c \in InviteCalls : \/ Inv!InviteStart(r, c)
                                 \/ \E t \in 0 .. Len(invites) : \/ Inv!Validate(r, c, t)
                                                                 \/ Inv!Cancel(r, c, t)
                                                                 \/ Inv!CompleteStart(r, c, t)
    BY DEF Inv!Arrive
  <1>2. CASE Inv!InviteStart(r, c)
    BY <1>2 DEF Inv!InviteStart, Inv!Called
  <1>3. ASSUME NEW t \in 0 .. Len(invites), Inv!CompleteStart(r, c, t)
        PROVE  /\ InviteTyped'
               /\ UNCHANGED <<now, users, life>>
               /\ invitePc[r] = "idle" /\ inviteCall'[r] \in InviteCalls
               /\ invitePc'[r] \notin {"idle", "completeCreate", "ok"}
               /\ \A q \in Requests \ {r} : invitePc'[q] = invitePc[q]
    BY <1>3 DEF Inv!CompleteStart, Inv!Called
  <1>4. ASSUME NEW t \in 0 .. Len(invites), Inv!Validate(r, c, t) \/ Inv!Cancel(r, c, t)
        PROVE  /\ InviteTyped'
               /\ UNCHANGED <<now, users, life>>
               /\ invitePc[r] = "idle" /\ inviteCall'[r] \in InviteCalls
               /\ invitePc'[r] \notin {"idle", "completeCreate", "ok"}
               /\ \A q \in Requests \ {r} : invitePc'[q] = invitePc[q]
    BY <1>4 DEF Inv!Validate, Inv!Cancel, Inv!Called, Inv!Answer
  <1>5. QED
    BY <1>1, <1>2, <1>3, <1>4

(* Of the steps of an accepted call only completeSignUp's writes the table. *)
LEMMA InviteProceeds ==
    ASSUME InviteTyped, NEW r \in Requests, Inv!Proceed(r)
    PROVE  /\ InviteTyped'
           /\ UNCHANGED <<now, life, inviteCall>>
           /\ invitePc[r] \in Inv!Awaits /\ invitePc'[r] # "idle"
           /\ \A q \in Requests \ {r} : invitePc'[q] = invitePc[q]
           /\ Inv!CompleteCreate(r) \/ users' = users
  <1> USE DEF InviteTyped, InviteCallOK, Completing, Inv!Awaits, Inv!Answers
  <1>1. ASSUME NEW a \in Inv!Answers, Inv!Answer(r, a), inviteCall' = inviteCall
        PROVE  /\ InviteTyped' /\ invitePc'[r] # "idle"
               /\ \A q \in Requests \ {r} : invitePc'[q] = invitePc[q]
    BY <1>1 DEF Inv!Answer
  <1>2. CASE \/ Inv!InviteConflict(r) \/ Inv!ResendUnknown(r) \/ Inv!InviteSent(r)
             \/ Inv!CompleteConflict(r) \/ Inv!CompleteRefuse(r) \/ Inv!CompleteExpire(r)
             \/ Inv!CompleteSucceed(r) \/ Inv!HashFails(r)
    BY <1>1, <1>2 DEF Inv!InviteConflict, Inv!ResendUnknown, Inv!InviteSent,
       Inv!CompleteConflict, Inv!CompleteRefuse, Inv!CompleteExpire, Inv!CompleteSucceed,
       Inv!HashFails, Inv!argVars
  <1>3. CASE Inv!InviteIssue(r) \/ Inv!CompleteAccept(r) \/ Inv!CompleteCreate(r)
    BY <1>3 DEF Inv!InviteIssue, Inv!CompleteAccept, Inv!CompleteCreate, Inv!Await,
       Inv!argVars
  <1>4. QED
    BY <1>2, <1>3 DEF Inv!Proceed

(* The user it adds has the email and the password of the call. *)
LEMMA CompleteJoins ==
    ASSUME InviteTyped, NEW r \in Requests, Inv!CompleteCreate(r)
    PROVE  Joins
  <1>1. inviteCall[r] \in Inv!Call
    BY InviteCallsAssumption DEF InviteTyped, InviteCallOK, Inv!CompleteCreate, Inv!Awaits
  <1>2. Inv!EmailOf(r) \in Emails /\ Hashed(inviteCall[r].password) \in Password
    BY <1>1, CanonicalAssumption DEF Inv!EmailOf, Inv!Call, Hashed, Password
  <1>3. Create(Inv!EmailOf(r), Hashed(inviteCall[r].password))
    BY DEF Inv!CompleteCreate, Inv!Create, Create, Inv!Hashed, Hashed
  <1>4. QED
    BY <1>2, <1>3 DEF Joins

(* A step of the whole is one of AuthService, or one of InviteUserService  *)
(* that at most adds a user.                                               *)
LEMMA SystemSteps ==
    ASSUME InviteTyped, [SystemNext]_systemVars
    PROVE  InviteTyped' /\ ([Next]_vars \/ InviteStep)
  <1> USE DEF systemVars
  <1>1. ASSUME UNCHANGED inviteVars
        PROVE  InviteTyped'
    BY <1>1 DEF inviteVars, InviteTyped, InviteCallOK
  <1>2. ASSUME NEW r \in Requests, Arrive(r) \/ Proceed(r), UNCHANGED inviteVars
        PROVE  InviteTyped' /\ Next
    BY <1>1, <1>2 DEF Next
  <1>3. ASSUME NEW r \in Requests, Inv!Arrive(r) \/ Inv!Proceed(r), UNCHANGED authVars
        PROVE  InviteTyped' /\ InviteStep
    BY <1>3, InviteArrives, InviteProceeds, CompleteJoins DEF InviteStep
  <1>4. CASE ProcessRestarts
    <2>1. InviteTyped'
      BY <1>4 DEF ProcessRestarts, Inv!Restart, InviteTyped, InviteCallOK, Inv!Awaits,
                  Inv!Answers
    <2>2. QED
      BY <1>4, <2>1 DEF ProcessRestarts, Next
  <1>5. CASE ClockTicks
    BY <1>1, <1>5 DEF ClockTicks, Next
  <1>6. CASE UNCHANGED systemVars
    BY <1>1, <1>6
  <1>7. CASE \E r \in Requests : CallArrives(r) \/ CallProceeds(r)
    BY <1>2, <1>3, <1>7 DEF CallArrives, CallProceeds, ToAuth, ToInvites
  <1>8. QED
    BY <1>4, <1>5, <1>6, <1>7 DEF SystemNext
------------------------------------------------------------------------------
(* AuthService in the company of InviteUserService *)

(* A user that joins takes the next id and leaves the others as they are.  *)
LEMMA JoinsLast ==
    ASSUME StoresOK, Joins, \A i \in DOMAIN users : users[i].id = i - 1
    PROVE  /\ UsersTypeOK' /\ Len(users) \in Nat /\ Len(users') = Len(users) + 1
           /\ DOMAIN users = 1 .. Len(users) /\ DOMAIN users' = 1 .. Len(users) + 1
           /\ \A i \in DOMAIN users : users'[i] = users[i]
           /\ \A i \in DOMAIN users' : users'[i].id = i - 1
  <1>1. PICK e \in Emails, p \in Password : Create(e, p)
    BY DEF Joins
  <1>2. users \in Seq(User) /\ Len(users) \in Nat /\ DOMAIN users = 1 .. Len(users)
    BY LenProperties DEF StoresOK, UsersTypeOK
  <1>3. UsersTypeOK' /\ Len(users') = Len(users) + 1
    BY <1>1, CreateTyped
  <1> DEFINE u == [id |-> IF users = <<>> THEN 0 ELSE users[Len(users)].id + 1,
                   email |-> e, password |-> p]
  <1>4. u.id = Len(users)
    BY <1>2
  <1>5. users' = Append(users, u)
    BY <1>1 DEF Create
  <1> HIDE DEF u
  <1>6. /\ DOMAIN users' = 1 .. Len(users) + 1
        /\ \A i \in 1 .. Len(users) : users'[i] = users[i]
        /\ users'[Len(users) + 1] = u
    BY <1>2, <1>5
  <1>7. QED
    BY <1>2, <1>3, <1>4, <1>6

(* The types and the owners survive it. *)
LEMMA InviteKeepsTypes ==
    ASSUME TypeInv, OwnersExist, InviteStep
    PROVE  TypeInv' /\ OwnersExist'
  <1>1. /\ StoresOK /\ LocalsOK /\ CallsOK /\ Len(users) \in Nat
        /\ DOMAIN users = 1 .. Len(users)
    BY IdsArePositions DEF TypeInv, TypeOK
  <1>2. /\ UsersTypeOK' /\ Len(users') \in Nat /\ Len(users') >= Len(users)
        /\ \A i \in DOMAIN users : i \in DOMAIN users' /\ users'[i] = users[i]
        /\ \A i \in DOMAIN users' : users'[i].id = i - 1
    <2>1. CASE users' = users
      BY <1>1, <2>1 DEF StoresOK, UsersTypeOK, OwnersExist
    <2>2. CASE Joins
      BY <1>1, <2>2, JoinsLast DEF OwnersExist
    <2>3. QED
      BY <2>1, <2>2 DEF InviteStep
  <1>3. StoresOK'
    BY <1>1, <1>2, StoresStep DEF InviteStep, authVars, storeVars
  <1>4. LocalsOK'
    BY <1>1 DEF InviteStep, authVars, argVars, LocalsOK
  <1>5. ASSUME NEW r \in Requests
        PROVE  CallOK(r)'
    <2>1. CallOK(r) /\ user[r] \in Nat
      BY <1>1 DEF CallsOK, LocalsOK
    <2>2. QED
      BY <1>1, <1>2, <2>1 DEF CallOK, InviteStep, authVars, argVars
  <1>6. OwnersExist'
    <2>1. UNCHANGED <<refreshTokens, passwordResetTokens, pc, user, session>>
      BY DEF InviteStep, authVars, storeVars, sessionVars
    <2>2. ASSUME NEW n \in Nat, n < Len(users)
          PROVE  n < Len(users') /\ users'[n + 1].email = users[n + 1].email
      BY <1>1, <1>2, <2>2
    <2>3. \A s \in refreshTokens : s.userId \in Nat
      BY <1>1 DEF StoresOK, SessionsTypeOK, Session
    <2>4. ASSUME NEW t \in DOMAIN passwordResetTokens
          PROVE  passwordResetTokens[t].userId \in Nat
      <3>1. passwordResetTokens[t] \in ResetToken
        BY <1>1, ElementOfSeq, LenProperties DEF StoresOK, ResetsTypeOK
      <3>2. QED
        BY <3>1 DEF ResetToken
    <2>5. \A r \in Requests : pc[r] = "refreshLookup" => session[r].userId \in Nat
      BY <1>1 DEF CallsOK, CallOK, Session
    <2>6. QED
      BY <1>2, <2>1, <2>2, <2>3, <2>4, <2>5 DEF OwnersExist
  <1>7. QED
    BY <1>3, <1>4, <1>5, <1>6 DEF TypeInv, TypeOK, CallsOK

(* So do the locks, the reset tokens and the sessions, which it leaves     *)
(* alone.                                                                  *)
LEMMA InviteKeepsStores ==
    ASSUME LockInv, OnlyLatestResetActive, SessionInv, InviteStep
    PROVE  /\ LockInv' /\ OnlyLatestResetActive' /\ SessionInv'
           /\ UNCHANGED ResetTokens!tokenVars
  <1> USE DEF InviteStep, authVars, storeVars, argVars, attemptVars, sessionVars
  <1>1. LockInv'
    BY DEF LockInv, LockHistory, Delayed, EmailOf, Since, AllBounded, Bounded
  <1>2. OnlyLatestResetActive' /\ UNCHANGED ResetTokens!tokenVars
    BY DEF OnlyLatestResetActive, ResetTokens!tokenVars
  <1>3. SessionInv'
    BY DEF SessionInv, SignedOnce, Held, Spent, Dead
  <1>4. QED
    BY <1>1, <1>2, <1>3

(* The inductive invariant of the composition, as far as AuthService goes. *)
AuthInv == /\ TypeInv /\ OwnersExist /\ LockInv
           /\ OnlyLatestResetActive /\ SessionInv

SystemInv == AuthInv /\ InviteTyped

(* It holds at the start. *)
LEMMA SystemInitInv == SystemInit => SystemInv
  <1> SUFFICES ASSUME SystemInit PROVE SystemInv
    OBVIOUS
  <1>1. TypeInv
    BY InitTypeInv DEF SystemInit
  <1>2. OwnersExist
    <2>1. users = SeedUsers /\ DOMAIN SeedUsers = {1, 2}
          /\ SeedUsers[1].id = 0 /\ SeedUsers[2].id = 1
      BY DEF SystemInit, Init, UsersInit, SeedUsers
    <2>2. QED
      BY <2>1 DEF SystemInit, Init, SessionsInit, ResetsInit, OwnersExist
  <1>3. LockInv
    BY ConstantsOK DEF SystemInit, Init, ClockInit, AttemptsInit, NoAttempts, LockInv,
                       LockHistory, Delayed, AllBounded, Bounded
  <1>4. OnlyLatestResetActive /\ SessionInv
    BY DEF SystemInit, Init, ResetsInit, SessionsInit, OnlyLatestResetActive, SessionInv,
           SignedOnce, Held, Spent, Answers, Awaits
  <1>5. InviteTyped
    BY DEF SystemInit, Inv!Init, InviteTyped, InviteCallOK, Inv!Awaits, NoCall, Inv!NoCall
  <1>6. QED
    BY <1>1, <1>2, <1>3, <1>4, <1>5 DEF SystemInv, AuthInv

(* Every step keeps it. *)
LEMMA SystemInvStep ==
    ASSUME SystemInv, [SystemNext]_systemVars
    PROVE  SystemInv'
  <1>1. InviteTyped' /\ ([Next]_vars \/ InviteStep)
    BY SystemSteps DEF SystemInv
  <1>2. CASE [Next]_vars
    BY <1>1, <1>2, NextTyped, OwnersStep, LockStep, LatestStep, SessionInvStep
       DEF SystemInv, AuthInv
  <1>3. CASE InviteStep
    BY <1>1, <1>3, InviteKeepsTypes, InviteKeepsStores DEF SystemInv, AuthInv
  <1>4. QED
    BY <1>1, <1>2, <1>3

(* It holds in every reachable state. *)
LEMMA SystemInvHolds == SystemSpec => []SystemInv
  <1>1. SystemInit => SystemInv
    BY SystemInitInv
  <1>2. SystemInv /\ [SystemNext]_systemVars => SystemInv'
    BY SystemInvStep
  <1>3. QED
    BY <1>1, <1>2, PTL DEF SystemSpec

(* With both services writing one table, what sessions and reset tokens    *)
(* say of their owner stays true.                                          *)
THEOREM OwnersShared == SystemSpec => []OwnersExist
  <1>1. SystemInv => OwnersExist
    BY DEF SystemInv, AuthInv
  <1>2. QED
    BY <1>1, SystemInvHolds, PTL

(* AuthService keeps its types, its locks, its reset tokens and its        *)
(* sessions whatever InviteUserService does meanwhile.                     *)
THEOREM AuthUndisturbed ==
    SystemSpec => [](/\ TypeOK /\ AdmittedBeforeLock /\ LockBounded
                     /\ OnlyLatestResetActive /\ JwtResolvesToItsSession
                     /\ SpentJwtStaysDead)
  <1>1. SystemInv => /\ TypeOK /\ AdmittedBeforeLock /\ LockBounded
                     /\ OnlyLatestResetActive /\ JwtResolvesToItsSession
                     /\ SpentJwtStaysDead
    BY LockInvImplies, SessionInvImplies DEF SystemInv, AuthInv, TypeInv
  <1>2. QED
    BY <1>1, SystemInvHolds, PTL

(* What resetPassword's calls know of their tokens holds beside the other  *)
(* service too.                                                            *)
LEMMA ResetCallsShared == SystemSpec => []ResetCalls
  <1>1. SystemInit => ResetCalls
    BY DEF SystemInit, Init, ResetsInit, ResetCalls, ResetCallOK, ResetAwaits, Awaits
  <1>2. ASSUME SystemInv, ResetCalls, InviteStep
        PROVE  ResetCalls'
    <2>1. /\ TypeInv /\ OwnersExist /\ StoresOK /\ CallsOK
          /\ Len(users) \in Nat /\ DOMAIN users = 1 .. Len(users)
      BY <1>2, IdsArePositions DEF SystemInv, AuthInv, TypeInv, TypeOK
    <2>2. \A i \in DOMAIN users : users'[i] = users[i]
      BY <1>2, <2>1, JoinsLast DEF InviteStep, OwnersExist
    <2>3. ASSUME NEW r \in Requests
          PROVE  ResetCallOK(r)'
      <3>1. pc[r] \in {"resetHash", "resetUpdate"} => user[r] \in DOMAIN users
        BY <2>1 DEF CallsOK, CallOK, HoldsUser
      <3>2. QED
        BY <1>2, <2>2, <3>1 DEF ResetCalls, ResetCallOK, UserIdOf, InviteStep, authVars,
                                storeVars, argVars
    <2>4. QED
      BY <2>3 DEF ResetCalls
  <1>3. SystemInv /\ ResetCalls /\ [SystemNext]_systemVars => ResetCalls'
    BY <1>2, SystemSteps, ResetCallsStep DEF SystemInv, AuthInv
  <1>4. QED
    BY <1>1, <1>3, SystemInvHolds, PTL DEF SystemSpec

(* A redeemed reset token is not accepted again, whoever joins the table.  *)
THEOREM SpentResetsShared == SystemSpec => SpentResetStaysSpent
  <1>1. SystemInv /\ ResetCalls /\ [SystemNext]_systemVars =>
            [\A r, s \in Requests :
                /\ pc[r] = "resetLookup" /\ pc'[r] = "resetHash"
                /\ call[s].op = "reset" /\ pc[s] = "ok"
                => given[r] # given[s]]_vars
    BY SystemSteps, SpentStep DEF SystemInv, AuthInv, InviteStep, authVars
  <1>2. QED
    BY <1>1, SystemInvHolds, ResetCallsShared, PTL DEF SystemSpec, SpentResetStaysSpent

(* Nor does the other service lift a lock: what does is a login that was   *)
(* admitted before it was set.                                             *)
THEOREM LocksLiftedShared == SystemSpec => LockLiftedOnlyByEarlierLogin
  <1> DEFINE LiftedEarly ==
               life' = life =>
                /\ \A e \in Emails : Lifted(emailLoginAttempts[e], emailLoginAttempts'[e]) =>
                      \E r \in Requests : EarlierLogin(r, emailLoginAttempts[e]) /\ EmailOf(r) = e
                /\ \A i \in IPs : Lifted(ipLoginAttempts[i], ipLoginAttempts'[i]) =>
                      \E r \in Requests : EarlierLogin(r, ipLoginAttempts[i]) /\ call[r].ip = i
  <1>1. ASSUME SystemInv, InviteStep
        PROVE  LiftedEarly
    <2>1. UNCHANGED attemptVars /\ UNCHANGED now
      BY <1>1 DEF InviteStep, authVars, storeVars
    <2>2. /\ \A e \in Emails : emailLoginAttempts[e].lockedUntil \in Nat
          /\ \A i \in IPs : ipLoginAttempts[i].lockedUntil \in Nat
      BY <1>1 DEF SystemInv, AuthInv, TypeInv, TypeOK, StoresOK, AttemptsTypeOK, AttemptState
    <2>3. QED
      BY <2>1, <2>2 DEF attemptVars, Lifted
  <1>2. SystemInv /\ [SystemNext]_systemVars => [LiftedEarly]_vars
    BY <1>1, SystemSteps, LiftStep DEF SystemInv, AuthInv
  <1>3. QED
    BY <1>2, SystemInvHolds, PTL DEF SystemSpec, LockLiftedOnlyByEarlierLogin

(* In the composition too the reset tokens implement OneTimeTokens. *)
THEOREM ResetTokensRefineShared == SystemSpec => ResetTokensKept
  <1>1. SystemInit => ResetTokens!TokensInit
    BY DEF SystemInit, Init, ResetsInit, ResetTokens!TokensInit
  <1>2. SystemInv /\ [SystemNext]_systemVars
            => [ResetTokens!TokensNext]_(ResetTokens!tokenVars)
    BY SystemSteps, StepMaps, InviteKeepsStores DEF SystemInv, AuthInv
  <1>3. QED
    BY <1>1, <1>2, SystemInvHolds, PTL DEF SystemSpec, ResetTokensKept,
                                          ResetTokens!TokensSpec
------------------------------------------------------------------------------
(* InviteUserService in the company of AuthService *)

(* The proofs about InviteUserService, for the composition's instance. *)
Own == INSTANCE InviteUserService_proofs WITH
    Calls <- InviteCalls, pc <- invitePc, call <- inviteCall, given <- inviteGiven

(* What they assume of the constants. *)
OwnConstants == InviteCalls \subseteq Own!Call /\ InviteTtl \in Nat \ {0}

LEMMA OwnConstantsHold == OwnConstants
  BY InviteCallsAssumption DEF OwnConstants, Own!Call, Inv!Call

(* They speak of the same service. *)
LEMMA OwnSteps ==
    ASSUME NEW r \in Requests
    PROVE  /\ Inv!Arrive(r) => Own!Arrive(r)
           /\ Inv!Proceed(r) => Own!Proceed(r)
  <1> USE DEF Inv!Answer, Own!Answer, Inv!argVars, Own!argVars, Inv!EmailOf, Own!EmailOf,
              Inv!Matches, Own!Matches, Inv!Expired, Own!Expired,
              Inv!Deactivate, Own!Deactivate
  <1>1. ASSUME Inv!Arrive(r)
        PROVE  Own!Arrive(r)
    <2>1. ASSUME NEW e
          PROVE  Inv!LookUp(r, e) <=> Own!LookUp(r, e)
      <3>1. Inv!FindByEmail(e) = Own!FindByEmail(e)
        BY DEF Inv!FindByEmail, Own!FindByEmail, Inv!SelectInSeq, Own!SelectInSeq,
               Inv!Min, Own!Min
      <3>2. QED
        BY <3>1 DEF Inv!LookUp, Own!LookUp
    <2>2. ASSUME NEW c, NEW ops
          PROVE  Inv!Called(r, c, ops) <=> Own!Called(r, c, ops)
      <3>1. ASSUME NEW S
            PROVE  Inv!Cardinality(S) = Own!Cardinality(S)
        BY DEF Inv!Cardinality, Own!Cardinality
      <3>2. QED
        BY <3>1 DEF Inv!Called, Own!Called, Inv!InFlight, Own!InFlight,
                    Inv!Awaits, Own!Awaits
    <2>3. ASSUME NEW c, Inv!InviteStart(r, c)
          PROVE  Own!InviteStart(r, c)
      BY <2>1, <2>2, <2>3 DEF Inv!InviteStart, Own!InviteStart
    <2>4. ASSUME NEW c, NEW t, Inv!CompleteStart(r, c, t)
          PROVE  Own!CompleteStart(r, c, t)
      BY <2>1, <2>2, <2>4 DEF Inv!CompleteStart, Own!CompleteStart
    <2>5. ASSUME NEW c, NEW t, Inv!Validate(r, c, t)
          PROVE  Own!Validate(r, c, t)
      BY <2>2, <2>5 DEF Inv!Validate, Own!Validate
    <2>6. ASSUME NEW c, NEW t, Inv!Cancel(r, c, t)
          PROVE  Own!Cancel(r, c, t)
      BY <2>2, <2>6 DEF Inv!Cancel, Own!Cancel
    <2>7. QED
      BY <1>1, <2>3, <2>4, <2>5, <2>6 DEF Inv!Arrive, Own!Arrive
  <1>2. ASSUME Inv!Proceed(r)
        PROVE  Own!Proceed(r)
    BY <1>2 DEF Inv!Proceed, Own!Proceed,
       Inv!InviteConflict, Own!InviteConflict, Inv!ResendUnknown, Own!ResendUnknown,
       Inv!InviteIssue, Own!InviteIssue, Inv!InviteSent, Own!InviteSent,
       Inv!CompleteConflict, Own!CompleteConflict, Inv!CompleteRefuse, Own!CompleteRefuse,
       Inv!CompleteExpire, Own!CompleteExpire, Inv!CompleteAccept, Own!CompleteAccept,
       Inv!CompleteCreate, Own!CompleteCreate, Inv!CompleteSucceed, Own!CompleteSucceed,
       Inv!HashFails, Own!HashFails, Inv!Await, Own!Await, Inv!Usable, Own!Usable,
       Inv!Superseded, Own!Superseded, Inv!EverInvited, Own!EverInvited,
       Inv!Create, Own!Create, Inv!Hashed, Own!Hashed
  <1>3. QED
    BY <1>1, <1>2

(* What the rest of the process does to this service. *)
Beside == /\ Own!UsersGrow /\ UsersTypeOK'
          /\ now' \in Nat \ {0} /\ life' \in Nat \ {0}
          /\ UNCHANGED inviteVars

(* A call of AuthService is no restart. *)
LEMMA CallsKeepLife ==
    ASSUME NEW r \in Requests, Arrive(r) \/ Proceed(r)
    PROVE  life' = life
  <1>1. CASE Arrive(r)
    BY <1>1 DEF Arrive, LoginStart, SignUpStart, ForgotStart, ResetStart, ChangeStart,
                RefreshInvalid, RefreshStart, Logout
  <1>2. CASE Proceed(r)
    BY <1>2 DEF Proceed, LoginLookup, LoginUnknown, LoginVerify, LoginMismatch,
       LoginSucceed, SignUpConflict, SignUpHash, SignUpCreate, SignUpSucceed,
       ForgotUnknown, ForgotIssue, ForgotSent, ResetRefuse, ResetExpire, ResetAccept,
       ResetUpdate, ResetSucceed, ChangeRefuse, ChangeVerify, ChangeMismatch, ChangeHash,
       ChangeUpdate, ChangeSucceed, RefreshRotate, CryptoFails
  <1>3. QED
    BY <1>1, <1>2

(* A step of the whole is one of InviteUserService, or one beside it that  *)
(* takes no email from the table.                                          *)
LEMMA InviteSystemSteps ==
    ASSUME SystemInv, [SystemNext]_systemVars
    PROVE  [Own!Next]_(Own!vars) \/ Beside
  <1> USE DEF systemVars
  <1>1. SystemInv' /\ TypeInv' /\ TypeInv /\ OwnersExist
    BY SystemInvStep DEF SystemInv, AuthInv
  <1>2. /\ UsersTypeOK' /\ now' \in Nat \ {0} /\ life' \in Nat \ {0} /\ life \in Nat
    BY <1>1 DEF TypeInv, TypeOK, StoresOK
  <1>3. ASSUME [Next]_vars, ~Restart, UNCHANGED inviteVars
        PROVE  Beside
    <2>1. TableKept
      BY <1>1, <1>3, TableSteps
    <2>2. DOMAIN users = 1 .. Len(users) /\ DOMAIN users' = 1 .. Len(users')
          /\ Len(users) \in Nat
      BY <1>1, <1>2, LenProperties DEF TypeInv, TypeOK, StoresOK, UsersTypeOK
    <2>3. Own!UsersGrow
      BY <2>1, <2>2 DEF Own!UsersGrow, TableKept
    <2>4. QED
      BY <1>2, <1>3, <2>3 DEF Beside
  <1>4. ASSUME NEW r \in Requests, Arrive(r) \/ Proceed(r), UNCHANGED inviteVars
        PROVE  Beside
    <2>1. Next /\ life' = life
      BY <1>4, CallsKeepLife DEF Next
    <2>2. ~Restart
      BY <1>2, <2>1 DEF Restart
    <2>3. QED
      BY <1>3, <1>4, <2>1, <2>2
  <1>5. ASSUME NEW r \in Requests, Inv!Arrive(r) \/ Inv!Proceed(r)
        PROVE  Own!Next
    BY <1>5, OwnSteps DEF Own!Next
  <1>6. CASE ProcessRestarts
    BY <1>6 DEF ProcessRestarts, Inv!Restart, Own!Restart, Own!Next, Inv!Awaits, Own!Awaits,
       Inv!SeedUsers, Own!SeedUsers, Inv!Legacy, Own!Legacy
  <1>7. CASE ClockTicks \/ UNCHANGED systemVars
    <2>1. [Next]_vars /\ UNCHANGED inviteVars
      <3>1. TimePasses => Next
        BY DEF Next
      <3>2. QED
        BY <1>7, <3>1 DEF ClockTicks
    <2>2. life' = life
      BY <1>7 DEF ClockTicks, TimePasses, vars
    <2>3. ~Restart
      BY <1>2, <2>2 DEF Restart
    <2>4. QED
      BY <1>3, <2>1, <2>3
  <1>8. CASE \E r \in Requests : CallArrives(r) \/ CallProceeds(r)
    BY <1>4, <1>5, <1>8 DEF CallArrives, CallProceeds, ToAuth, ToInvites
  <1>9. QED
    BY <1>6, <1>7, <1>8 DEF SystemNext

(* So its invariant holds in the composition. *)
LEMMA OwnInvHolds == SystemSpec => []Own!InviteInv
  <1> USE OwnConstantsHold, CanonicalAssumption, SeedAssumption, MaxTimeAssumption
          DEF OwnConstants
  <1>1. SystemInit => Own!InviteInv
    <2>1. SystemInit => Own!Init
      BY DEF SystemInit, Inv!Init, Own!Init, ClockInit, Own!ClockInit, UsersInit,
             Own!UsersInit, Inv!ClockInit, Inv!UsersInit, Inv!NoCall, Own!NoCall,
             Inv!SeedUsers, Own!SeedUsers, Inv!Legacy, Own!Legacy
    <2>2. Own!Init => Own!InviteInv
      BY Own!InviteInit
    <2>3. QED
      BY <2>1, <2>2
  <1>2. ASSUME SystemInv, Own!InviteInv, [SystemNext]_systemVars
        PROVE  Own!InviteInv'
    <2>1. CASE [Own!Next]_(Own!vars)
      BY <1>2, <2>1, Own!InviteStep
    <2>2. CASE Beside
      <3>1. UsersTypeOK' => Own!UsersTypeOK'
        BY DEF UsersTypeOK, Own!UsersTypeOK, User, Own!User, Password, Own!Password,
               Hashed, Own!Hashed, Legacy, Own!Legacy
      <3>2. UNCHANGED <<invites, invitePc, Own!argVars, taken, calledAt>>
        BY <2>2 DEF Beside, inviteVars, Own!argVars
      <3>3. QED
        BY <1>2, <2>2, <3>1, <3>2, Own!NeighbourKeeps DEF Beside
    <2>3. QED
      BY <1>2, <2>1, <2>2, InviteSystemSteps
  <1>3. SystemInv /\ Own!InviteInv /\ [SystemNext]_systemVars => Own!InviteInv'
    BY <1>2
  <1>4. QED
    BY <1>1, <1>3, SystemInvHolds, PTL DEF SystemSpec

(* Beside AuthService the invites, locals and answers keep their types;    *)
(* and where anybody may sign up, completeSignUp still registers nobody    *)
(* but with an invite for the very email.                                  *)
THEOREM InvitesUndisturbed ==
    SystemSpec => [](/\ Inv!TypeOK
                     /\ \A r \in Requests :
                          invitePc[r] = "completeCreate" =>
                              Inv!Matches(inviteGiven[r], Inv!EmailOf(r)))
  <1>1. Own!InviteInv => /\ Inv!TypeOK
                         /\ \A r \in Requests :
                              invitePc[r] = "completeCreate" =>
                                  Inv!Matches(inviteGiven[r], Inv!EmailOf(r))
    <2>1. Own!TypeOK => Inv!TypeOK
      BY DEF Own!TypeOK, Inv!TypeOK, Own!UsersTypeOK, Inv!UsersTypeOK, Own!User, Inv!User,
             Own!Password, Inv!Password, Own!Hashed, Inv!Hashed, Own!Legacy, Inv!Legacy,
             Own!Invite, Inv!Invite, Own!Awaits, Inv!Awaits, Own!Answers, Inv!Answers,
             Own!NoCall, Inv!NoCall
    <2>2. QED
      BY <2>1 DEF Own!InviteInv, Own!CallOK, Own!Matches, Inv!Matches,
                  Own!EmailOf, Inv!EmailOf
  <1>2. QED
    BY <1>1, OwnInvHolds, PTL

(* Beside AuthService too the invites implement OneTimeTokens: no overlap  *)
(* of the two services makes an invite usable again.                       *)
THEOREM InvitesRefineShared == SystemSpec => Inv!InvitesKept
  <1> USE DEF Inv!InviteTokens!TokensNext, Inv!InviteTokens!tokenVars
  <1>1. SystemInit => Inv!InviteTokens!TokensInit
    BY DEF SystemInit, Inv!Init, Inv!InviteTokens!TokensInit
  <1>2. ASSUME SystemInv, Own!InviteInv, [SystemNext]_systemVars
        PROVE  [Inv!InviteTokens!TokensNext]_(Inv!InviteTokens!tokenVars)
    <2>1. CASE [Own!Next]_(Own!vars)
      <3>1. [Own!InviteTokens!TokensNext]_(Own!InviteTokens!tokenVars)
        BY <1>2, <2>1, Own!InvitesStepMaps, OwnConstantsHold, CanonicalAssumption,
           SeedAssumption, MaxTimeAssumption DEF OwnConstants
      <3>2. QED
        BY <3>1 DEF Own!InviteTokens!TokensNext, Own!InviteTokens!tokenVars,
           Own!InviteTokens!Issue, Inv!InviteTokens!Issue, Own!InviteTokens!Withdraw,
           Inv!InviteTokens!Withdraw, Own!InviteTokens!LoseAll, Inv!InviteTokens!LoseAll
    <2>2. CASE Beside
      BY <2>2 DEF Beside, inviteVars
    <2>3. QED
      BY <1>2, <2>1, <2>2, InviteSystemSteps
  <1>3. SystemInv /\ Own!InviteInv /\ [SystemNext]_systemVars
            => [Inv!InviteTokens!TokensNext]_(Inv!InviteTokens!tokenVars)
    BY <1>2
  <1>4. QED
    BY <1>1, <1>3, SystemInvHolds, OwnInvHolds, PTL DEF SystemSpec, Inv!InvitesKept,
       Inv!InviteTokens!TokensSpec

(* An answered completion has spent its invite and registered its user,    *)
(* whoever signs up or changes a password meanwhile.                       *)
THEOREM CompletionsSpendShared == SystemSpec => Inv!CompletionSpendsInvite
  <1>1. ASSUME SystemInv, Own!InviteInv, [SystemNext]_systemVars, NEW r \in Requests,
               invitePc[r] # "ok", invitePc'[r] = "ok", inviteCall[r].op = "complete"
        PROVE  /\ ~invites'[inviteGiven[r]].active
               /\ \E u \in DOMAIN users' : users'[u].email = Inv!EmailOf(r)
    <2>1. [Own!Next]_(Own!vars)
      BY <1>1, InviteSystemSteps DEF Beside, inviteVars
    <2>2. QED
      BY <1>1, <2>1, Own!CompletionStep, OwnConstantsHold, CanonicalAssumption,
         SeedAssumption, MaxTimeAssumption DEF OwnConstants, Own!EmailOf, Inv!EmailOf
  <1>2. SystemInv /\ Own!InviteInv /\ [SystemNext]_systemVars =>
            [\A r \in Requests :
                invitePc[r] # "ok" /\ invitePc'[r] = "ok" /\ inviteCall[r].op = "complete" =>
                    /\ ~invites'[inviteGiven[r]].active
                    /\ \E u \in DOMAIN users' : users'[u].email = Inv!EmailOf(r)]_(Inv!vars)
    BY <1>1
  <1>3. QED
    BY <1>2, SystemInvHolds, OwnInvHolds, PTL DEF SystemSpec, Inv!CompletionSpendsInvite

(* An invite whose completion or cancellation was answered lets nobody in, *)
(* whatever AuthService does meanwhile.                                    *)
THEOREM SettledForGoodShared == SystemSpec => Inv!SettledInvitesStaySettled
  <1>1. ASSUME SystemInv, Own!InviteInv, [SystemNext]_systemVars,
               NEW r \in Requests, NEW s \in Requests,
               invitePc[r] = "completeLookup", invitePc'[r] = "completeHash",
               Inv!Completed(s) \/ invitePc[s] = "canceled"
        PROVE  inviteGiven[r] # inviteGiven[s]
    <2>1. [Own!Next]_(Own!vars)
      BY <1>1, InviteSystemSteps DEF Beside, inviteVars
    <2>2. Own!Completed(s) \/ invitePc[s] = "canceled"
      BY <1>1 DEF Inv!Completed, Own!Completed
    <2>3. QED
      BY <1>1, <2>1, <2>2, Own!SettledStep, OwnConstantsHold, CanonicalAssumption,
         SeedAssumption, MaxTimeAssumption DEF OwnConstants
  <1>2. SystemInv /\ Own!InviteInv /\ [SystemNext]_systemVars =>
            [\A r, s \in Requests :
                /\ invitePc[r] = "completeLookup" /\ invitePc'[r] = "completeHash"
                /\ Inv!Completed(s) \/ invitePc[s] = "canceled"
                => inviteGiven[r] # inviteGiven[s]]_(Inv!vars)
    BY <1>1
  <1>3. QED
    BY <1>2, SystemInvHolds, OwnInvHolds, PTL DEF SystemSpec, Inv!SettledInvitesStaySettled
------------------------------------------------------------------------------
(* RegistrationsAccounted *)

(* A call of AuthService is on the way of signUp if and only if it was     *)
(* made to signUp, and a request has gone to one service at most.          *)
SigningUp == {"signUpLookup", "signUpHash", "signUpCreate"}

MethodOK(r) == pc[r] \in Awaits => (call[r].op = "signUp" <=> pc[r] \in SigningUp)

OneService(r) == pc[r] = "idle" \/ invitePc[r] = "idle"

(* What a step of AuthService's call r does to the table: signUp's adds a  *)
(* user, and every other leaves as many as there were.                     *)
LEMMA AuthMoves ==
    ASSUME AuthInv, NEW r \in Requests, MethodOK(r), Arrive(r) \/ Proceed(r)
    PROVE  /\ pc[r] \notin Answers /\ pc'[r] \in Awaits \cup Answers
           /\ call'[r] \in Call /\ MethodOK(r)'
           /\ \/ pc[r] = "signUpHash" /\ pc'[r] = "signUpCreate" /\ Len(users') = Len(users) + 1
              \/ /\ pc[r] = "signUpCreate" /\ pc'[r] = "tokens" /\ call'[r].op = "signUp"
                 /\ users' = users
              \/ /\ pc[r] # "signUpCreate" /\ pc'[r] # "signUpCreate"
                 /\ Len(users') = Len(users)
                 /\ call'[r].op = "signUp" => pc'[r] \notin Returned
  <1>1. /\ TypeInv /\ StoresOK /\ LocalsOK /\ CallsOK /\ Calls \subseteq Call
    BY CallsAssumption DEF AuthInv, TypeInv, TypeOK
  <1>2. CASE Arrive(r)
    <2>1. PICK c \in Calls :
              \/ LoginStart(r, c) \/ SignUpStart(r, c) \/ ForgotStart(r, c)
              \/ \E t \in 0 .. Len(passwordResetTokens) : ResetStart(r, c, t)
              \/ ChangeStart(r, c)
              \/ \E j \in signed \cup {NoJwt} :
                    RefreshInvalid(r, c, j) \/ RefreshStart(r, c, j) \/ Logout(r, c, j)
      BY <1>2 DEF Arrive
    <2> USE DEF Called, LocalsOK, Awaits, Answers, Returned, MethodOK, SigningUp
    <2>2. CASE SignUpStart(r, c) \/ ForgotStart(r, c) \/ ChangeStart(r, c)
      BY <1>1, <2>2 DEF SignUpStart, ForgotStart, ChangeStart
    <2>3. CASE LoginStart(r, c)
      BY <1>1, <2>3 DEF LoginStart, Answer
    <2>4. ASSUME NEW t \in 0 .. Len(passwordResetTokens), ResetStart(r, c, t)
          PROVE  /\ pc[r] \notin Answers /\ pc'[r] \in Awaits /\ pc[r] # "signUpCreate"
                 /\ pc'[r] # "signUpCreate" /\ call'[r] = c /\ c.op # "signUp"
                 /\ users' = users /\ MethodOK(r)'
      BY <1>1, <2>4 DEF ResetStart
    <2>5. ASSUME NEW j \in signed \cup {NoJwt},
                 RefreshInvalid(r, c, j) \/ RefreshStart(r, c, j) \/ Logout(r, c, j)
          PROVE  /\ pc[r] \notin Answers /\ pc'[r] \in Awaits \cup Answers
                 /\ pc[r] # "signUpCreate"
                 /\ pc'[r] # "signUpCreate" /\ call'[r] = c /\ c.op # "signUp"
                 /\ users' = users /\ MethodOK(r)'
      BY <1>1, <2>5 DEF RefreshInvalid, RefreshStart, Logout, Answer
    <2>6. QED
      BY <1>1, <2>1, <2>2, <2>3, <2>4, <2>5
  <1>3. CASE Proceed(r)
    <2>1. pc[r] \in Awaits /\ call' = call
      BY <1>3 DEF Proceed, LoginLookup, LoginUnknown, LoginVerify, LoginMismatch,
         LoginSucceed, SignUpConflict, SignUpHash, SignUpCreate, SignUpSucceed,
         ForgotUnknown, ForgotIssue, ForgotSent, ResetRefuse, ResetExpire, ResetAccept,
         ResetUpdate, ResetSucceed, ChangeRefuse, ChangeVerify, ChangeMismatch, ChangeHash,
         ChangeUpdate, ChangeSucceed, RefreshRotate, CryptoFails, Awaits, Await, argVars
    <2>2. call[r] \in Call /\ pc[r] \notin Answers
      BY <1>1, <2>1, CallTyped DEF Awaits, Answers
    <2> USE DEF LocalsOK, Awaits, Answers, Returned, MethodOK, SigningUp, Answer, Await
    <2>3. CASE SignUpCreate(r)
      <3>1. EmailOf(r) \in Emails /\ Hashed(call[r].password) \in Password
        BY <1>1, <2>1, <2>2, CallTyped DEF Call, Hashed, Password
      <3>2. Len(users') = Len(users) + 1
        BY <1>1, <2>3, <3>1, CreateTyped DEF SignUpCreate
      <3>3. QED
        BY <1>1, <2>1, <2>2, <2>3, <3>2 DEF SignUpCreate
    <2>4. CASE SignUpSucceed(r)
      BY <1>1, <2>1, <2>2, <2>4 DEF SignUpSucceed
    <2>5. CASE SignUpConflict(r) \/ SignUpHash(r) \/ CryptoFails(r)
      BY <1>1, <2>1, <2>2, <2>5 DEF SignUpConflict, SignUpHash, CryptoFails
    <2>6. CASE ResetUpdate(r) \/ ChangeUpdate(r)
      <3>1. user[r] # 0
        BY <1>1, <2>6 DEF ResetUpdate, ChangeUpdate, CallsOK, CallOK, HoldsUser
      <3>2. UserIdOf(r) \in Nat /\ Hashed(call[r].newPassword) \in Password
        BY <1>1, <2>2, <3>1, UserTyped DEF UserIdOf, User, Call, Hashed, Password
      <3>3. Len(users') = Len(users)
        BY <1>1, <2>6, <3>2, UpdatePasswordTyped DEF ResetUpdate, ChangeUpdate
      <3>4. QED
        BY <1>1, <2>1, <2>2, <2>6, <3>3 DEF ResetUpdate, ChangeUpdate
    <2>7. CASE \/ LoginLookup(r) \/ LoginUnknown(r) \/ LoginVerify(r)
               \/ LoginMismatch(r) \/ LoginSucceed(r)
               \/ ForgotUnknown(r) \/ ForgotIssue(r) \/ ForgotSent(r)
      BY <1>1, <2>1, <2>2, <2>7 DEF LoginLookup, LoginUnknown, LoginVerify,
         LoginMismatch, LoginSucceed, ForgotUnknown, ForgotIssue, ForgotSent
    <2>8. CASE \/ ResetRefuse(r) \/ ResetExpire(r) \/ ResetAccept(r) \/ ResetSucceed(r)
               \/ ChangeRefuse(r) \/ ChangeVerify(r) \/ ChangeMismatch(r)
               \/ ChangeHash(r) \/ ChangeSucceed(r) \/ RefreshRotate(r)
      BY <1>1, <2>1, <2>2, <2>8 DEF ResetRefuse, ResetExpire, ResetAccept, ResetSucceed,
         ChangeRefuse, ChangeVerify, ChangeMismatch, ChangeHash, ChangeSucceed,
         RefreshRotate
    <2>9. QED
      BY <1>3, <2>3, <2>4, <2>5, <2>6, <2>7, <2>8 DEF Proceed
  <1>4. QED
    BY <1>2, <1>3

(* What a step of InviteUserService's call r does to it: completeSignUp's  *)
(* adds a user, and every other leaves the table alone.                    *)
LEMMA InviteMoves ==
    ASSUME StoresOK, InviteTyped, NEW r \in Requests, Inv!Arrive(r) \/ Inv!Proceed(r)
    PROVE  /\ invitePc[r] \notin Inv!Answers /\ invitePc'[r] \in Inv!Awaits \cup Inv!Answers
           /\ inviteCall'[r] \in Inv!Call
           /\ \A q \in Requests \ {r} : invitePc'[q] = invitePc[q]
           /\ \/ /\ invitePc[r] = "completeHash" /\ invitePc'[r] = "completeCreate"
                 /\ Len(users') = Len(users) + 1
              \/ /\ invitePc[r] = "completeCreate" /\ invitePc'[r] = "ok"
                 /\ inviteCall'[r].op = "complete" /\ users' = users
              \/ /\ invitePc[r] # "completeCreate" /\ invitePc'[r] # "completeCreate"
                 /\ users' = users
                 /\ inviteCall'[r].op = "complete" => invitePc'[r] \notin Returned
  <1> USE DEF InviteTyped, InviteCallOK, Completing, Inv!Awaits, Inv!Answers, Returned
  <1>1. CASE Inv!Arrive(r)
    <2>1. PICK c \in InviteCalls : \/ Inv!InviteStart(r, c)
                                   \/ \E t \in 0 .. Len(invites) : \/ Inv!Validate(r, c, t)
                                                                   \/ Inv!Cancel(r, c, t)
                                                                   \/ Inv!CompleteStart(r, c, t)
      BY <1>1 DEF Inv!Arrive
    <2>2. inviteCall'[r].op = "complete" => invitePc'[r] \notin Returned
      BY <2>1 DEF Inv!InviteStart, Inv!Validate, Inv!Cancel, Inv!CompleteStart, Inv!Called
    <2>3. QED
      BY <1>1, <2>2, InviteArrives, InviteCallsAssumption
  <1>2. CASE Inv!Proceed(r)
    <2>1. /\ InviteTyped' /\ inviteCall' = inviteCall /\ invitePc[r] \in Inv!Awaits
          /\ invitePc'[r] # "idle"
          /\ \A q \in Requests \ {r} : invitePc'[q] = invitePc[q]
          /\ Inv!CompleteCreate(r) \/ users' = users
      BY <1>2, InviteProceeds
    <2>2. inviteCall[r] \in Inv!Call
      BY <2>1, InviteCallsAssumption
    <2>3. CASE Inv!CompleteCreate(r)
      <3>1. Joins
        BY <2>3, CompleteJoins
      <3>2. PICK e \in Emails, p \in Password : Create(e, p)
        BY <3>1 DEF Joins
      <3>3. Len(users') = Len(users) + 1
        BY <3>2, CreateTyped
      <3>4. QED
        BY <2>1, <2>2, <2>3, <3>3 DEF Inv!CompleteCreate, Inv!Await
    <2>4. CASE Inv!CompleteSucceed(r)
      BY <2>1, <2>2, <2>4 DEF Inv!CompleteSucceed, Inv!Answer
    <2>5. CASE \/ Inv!InviteConflict(r) \/ Inv!ResendUnknown(r) \/ Inv!InviteSent(r)
               \/ Inv!CompleteConflict(r) \/ Inv!CompleteRefuse(r)
               \/ Inv!CompleteExpire(r) \/ Inv!HashFails(r)
      BY <2>1, <2>2, <2>5 DEF Inv!InviteConflict, Inv!ResendUnknown, Inv!InviteSent,
         Inv!CompleteConflict, Inv!CompleteRefuse, Inv!CompleteExpire, Inv!HashFails,
         Inv!Answer
    <2>6. CASE Inv!InviteIssue(r) \/ Inv!CompleteAccept(r)
      BY <2>1, <2>2, <2>6 DEF Inv!InviteIssue, Inv!CompleteAccept, Inv!Await
    <2>7. QED
      BY <1>2, <2>3, <2>4, <2>5, <2>6 DEF Inv!Proceed
  <1>3. QED
    BY <1>1, <1>2

(* An event of the trail, and what it says. *)
Routes == {"login", "signUp", "forgot", "reset", "change", "refresh", "logout",
           "invite", "resend", "validate", "cancel", "complete"}

Event == [request : Requests, route : Routes, status : Settled \cup {"200", "201"},
          success : BOOLEAN]

Entry == [id : Nat, input : Event]

Registration(e) == e.success /\ e.route \in {"signUp", "complete"}

Registers(r) == pc[r] = "signUpCreate" \/ invitePc[r] = "completeCreate"

AnsweredCall(r) == pc[r] \in Answers \/ invitePc[r] \in Inv!Answers

Records(r, e) == e \in Event /\ e.request = r /\ Save(e)

(* What a step of the request r can do to the account: it adds a user and  *)
(* owes the event of it; it records that event; or it does neither.        *)
Begins(r) == /\ ~Registers(r) /\ Registers(r)'
             /\ Len(users') = Len(users) + 1 /\ UNCHANGED trailVars

Ends(r) == /\ Registers(r) /\ ~Registers(r)' /\ users' = users /\ AnsweredCall(r)'
           /\ \E e : Records(r, e) /\ Registration(e)

Passes(r) == /\ ~Registers(r) /\ ~Registers(r)' /\ Len(users') = Len(users)
             /\ \/ UNCHANGED trailVars
                \/ AnsweredCall(r)' /\ \E e : Records(r, e) /\ ~Registration(e)

AccountStep(r) ==
    /\ ~AnsweredCall(r)
    /\ \A q \in Requests \ {r} : pc'[q] = pc[q] /\ invitePc'[q] = invitePc[q]
    /\ Begins(r) \/ Ends(r) \/ Passes(r)

(* The interceptor records an answer, and nothing else. *)
LEMMA Intercepts ==
    ASSUME NEW r \in Requests, NEW route \in Routes, NEW answer, Intercept(r, route, answer)
    PROVE  /\ answer \notin Settled => UNCHANGED trailVars
           /\ answer \in Settled =>
                 \E e : /\ Records(r, e)
                        /\ Registration(e) <=> /\ answer \in Returned
                                               /\ route \in {"signUp", "complete"}
  <1> DEFINE e == [request |-> r, route |-> route, status |-> HttpStatus(route, answer),
                   success |-> answer \in Returned]
  <1>1. CASE answer \in Settled
    <2>1. HttpStatus(route, answer) \in Settled \cup {"200", "201"}
      BY <1>1 DEF HttpStatus
    <2>2. (answer \in Returned) \in BOOLEAN
      OBVIOUS
    <2>3. e \in Event
      BY <2>1, <2>2 DEF Event
    <2>4. Save(e)
      BY <1>1 DEF Intercept
    <2>5. e.request = r /\ (e.success <=> answer \in Returned) /\ e.route = route
      OBVIOUS
    <2> HIDE DEF e
    <2>6. Records(r, e) /\ (Registration(e) <=> /\ answer \in Returned
                                             /\ route \in {"signUp", "complete"})
      BY <2>3, <2>4, <2>5 DEF Records, Registration
    <2>7. QED
      BY <1>1, <2>6
  <1>2. CASE answer \notin Settled
    BY <1>2 DEF Intercept
  <1>3. QED
    BY <1>1, <1>2

(* The calls of both services, each at one of them. *)
CallsKnown == \A r \in Requests : MethodOK(r) /\ OneService(r)

(* A step of AuthService is a step of the account. *)
LEMMA AuthAccounts ==
    ASSUME SystemInv, CallsKnown, NEW r \in Requests, ToAuth(r),
           (Arrive(r) /\ invitePc[r] = "idle") \/ Proceed(r)
    PROVE  AccountStep(r) /\ CallsKnown'
  <1>1. /\ AuthInv /\ TypeInv /\ LocalsOK /\ InviteTyped
        /\ \A q \in Requests : MethodOK(q) /\ OneService(q)
    BY DEF SystemInv, AuthInv, TypeInv, TypeOK, CallsKnown
  <1>2. /\ pc[r] \notin Answers /\ pc'[r] \in Awaits \cup Answers
        /\ call'[r] \in Call /\ MethodOK(r)'
        /\ \/ pc[r] = "signUpHash" /\ pc'[r] = "signUpCreate" /\ Len(users') = Len(users) + 1
           \/ /\ pc[r] = "signUpCreate" /\ pc'[r] = "tokens" /\ call'[r].op = "signUp"
              /\ users' = users
           \/ /\ pc[r] # "signUpCreate" /\ pc'[r] # "signUpCreate"
              /\ Len(users') = Len(users)
              /\ call'[r].op = "signUp" => pc'[r] \notin Returned
    BY <1>1, AuthMoves
  <1>3. invitePc[r] = "idle" /\ invitePc' = invitePc
    <2>1. Proceed(r) => pc[r] # "idle"
      BY DEF Proceed, LoginLookup, LoginUnknown, LoginVerify, LoginMismatch,
         LoginSucceed, SignUpConflict, SignUpHash, SignUpCreate, SignUpSucceed,
         ForgotUnknown, ForgotIssue, ForgotSent, ResetRefuse, ResetExpire, ResetAccept,
         ResetUpdate, ResetSucceed, ChangeRefuse, ChangeVerify, ChangeMismatch, ChangeHash,
         ChangeUpdate, ChangeSucceed, RefreshRotate, CryptoFails
    <2>2. QED
      BY <1>1, <2>1 DEF OneService, ToAuth, inviteVars
  <1>4. \A q \in Requests \ {r} : pc'[q] = pc[q] /\ call'[q] = call[q]
    BY <1>1, OtherResetStep
  <1>5. CallsKnown'
    BY <1>1, <1>2, <1>3, <1>4 DEF CallsKnown, MethodOK, OneService
  <1>6. call'[r].op \in Routes \ {"complete"}
    BY <1>2 DEF Call, Routes
  <1>7. Intercept(r, call'[r].op, pc'[r])
    BY DEF ToAuth
  <1>8. /\ pc'[r] \notin Settled => UNCHANGED trailVars
        /\ pc'[r] \in Settled =>
              \E e : /\ Records(r, e)
                     /\ Registration(e) <=> /\ pc'[r] \in Returned
                                            /\ call'[r].op \in {"signUp", "complete"}
    BY <1>6, <1>7, Intercepts
  <1>9. ~AnsweredCall(r)
    BY <1>2, <1>3 DEF AnsweredCall, Inv!Answers
  <1>10. CASE pc[r] = "signUpHash" /\ pc'[r] = "signUpCreate" /\ Len(users') = Len(users) + 1
    <2>1. pc'[r] \notin Settled
      BY <1>10 DEF Settled, Answers, Inv!Answers
    <2>2. QED
      BY <1>3, <1>4, <1>5, <1>8, <1>9, <1>10, <2>1 DEF AccountStep, Begins, Registers
  <1>11. CASE pc[r] = "signUpCreate" /\ pc'[r] = "tokens" /\ call'[r].op = "signUp" /\ users' = users
    <2>1. pc'[r] \in Answers /\ pc'[r] \in Settled /\ pc'[r] \in Returned
      BY <1>11 DEF Settled, Answers, Returned
    <2>2. QED
      BY <1>3, <1>4, <1>5, <1>8, <1>9, <1>11, <2>1
         DEF AccountStep, Ends, Registers, AnsweredCall
  <1>12. CASE /\ pc[r] # "signUpCreate" /\ pc'[r] # "signUpCreate" /\ Len(users') = Len(users)
              /\ call'[r].op = "signUp" => pc'[r] \notin Returned
    <2>1. pc'[r] \in Settled => pc'[r] \in Answers
      BY <1>2 DEF Settled, Answers, Awaits, Inv!Answers
    <2>2. ~Registers(r) /\ ~Registers(r)'
      BY <1>3, <1>12 DEF Registers
    <2>3. UNCHANGED trailVars \/ (AnsweredCall(r)' /\ \E e : Records(r, e) /\ ~Registration(e))
      <3>1. ~(pc'[r] \in Returned /\ call'[r].op \in {"signUp", "complete"})
        BY <1>6, <1>12
      <3>2. QED
        BY <1>8, <2>1, <3>1 DEF AnsweredCall
    <2>4. QED
      BY <1>3, <1>4, <1>5, <1>9, <1>12, <2>2, <2>3 DEF AccountStep, Passes
  <1>13. QED
    BY <1>2, <1>5, <1>10, <1>11, <1>12

(* So is a step of InviteUserService. *)
LEMMA InviteAccounts ==
    ASSUME SystemInv, CallsKnown, NEW r \in Requests, ToInvites(r),
           (Inv!Arrive(r) /\ pc[r] = "idle") \/ Inv!Proceed(r)
    PROVE  AccountStep(r) /\ CallsKnown'
  <1>1. /\ StoresOK /\ InviteTyped
        /\ \A q \in Requests : MethodOK(q) /\ OneService(q)
    BY DEF SystemInv, AuthInv, TypeInv, TypeOK, CallsKnown
  <1>2. /\ invitePc[r] \notin Inv!Answers /\ invitePc'[r] \in Inv!Awaits \cup Inv!Answers
        /\ inviteCall'[r] \in Inv!Call
        /\ \A q \in Requests \ {r} : invitePc'[q] = invitePc[q]
        /\ \/ /\ invitePc[r] = "completeHash" /\ invitePc'[r] = "completeCreate"
              /\ Len(users') = Len(users) + 1
           \/ /\ invitePc[r] = "completeCreate" /\ invitePc'[r] = "ok"
              /\ inviteCall'[r].op = "complete" /\ users' = users
           \/ /\ invitePc[r] # "completeCreate" /\ invitePc'[r] # "completeCreate"
              /\ users' = users
              /\ inviteCall'[r].op = "complete" => invitePc'[r] \notin Returned
    BY <1>1, InviteMoves
  <1>3. pc[r] = "idle" /\ pc' = pc /\ call' = call
    <2>1. Inv!Proceed(r) => invitePc[r] # "idle"
      BY InviteProceeds, <1>1 DEF Inv!Awaits
    <2>2. QED
      BY <1>1, <2>1 DEF OneService, ToInvites, authVars, argVars
  <1>4. CallsKnown'
    BY <1>1, <1>2, <1>3 DEF CallsKnown, MethodOK, OneService
  <1>5. inviteCall'[r].op \in Routes \ {"signUp"}
    BY <1>2 DEF Inv!Call, Routes
  <1>6. Intercept(r, inviteCall'[r].op, invitePc'[r])
    BY DEF ToInvites
  <1>7. /\ invitePc'[r] \notin Settled => UNCHANGED trailVars
        /\ invitePc'[r] \in Settled =>
              \E e : /\ Records(r, e)
                     /\ Registration(e) <=> /\ invitePc'[r] \in Returned
                                            /\ inviteCall'[r].op \in {"signUp", "complete"}
    BY <1>5, <1>6, Intercepts
  <1>8. ~AnsweredCall(r)
    BY <1>2, <1>3 DEF AnsweredCall, Answers
  <1>9. CASE /\ invitePc[r] = "completeHash" /\ invitePc'[r] = "completeCreate"
             /\ Len(users') = Len(users) + 1
    <2>1. invitePc'[r] \notin Settled
      BY <1>9 DEF Settled, Answers, Inv!Answers
    <2>2. QED
      BY <1>2, <1>3, <1>4, <1>7, <1>8, <1>9, <2>1 DEF AccountStep, Begins, Registers
  <1>10. CASE /\ invitePc[r] = "completeCreate" /\ invitePc'[r] = "ok"
              /\ inviteCall'[r].op = "complete" /\ users' = users
    <2>1. /\ invitePc'[r] \in Inv!Answers /\ invitePc'[r] \in Settled
          /\ invitePc'[r] \in Returned
      BY <1>10 DEF Settled, Inv!Answers, Returned
    <2>2. QED
      BY <1>2, <1>3, <1>4, <1>7, <1>8, <1>10, <2>1
         DEF AccountStep, Ends, Registers, AnsweredCall
  <1>11. CASE /\ invitePc[r] # "completeCreate" /\ invitePc'[r] # "completeCreate"
              /\ users' = users
              /\ inviteCall'[r].op = "complete" => invitePc'[r] \notin Returned
    <2>1. invitePc'[r] \in Settled => invitePc'[r] \in Inv!Answers
      BY <1>2 DEF Settled, Answers, Inv!Awaits, Inv!Answers
    <2>2. ~Registers(r) /\ ~Registers(r)'
      BY <1>3, <1>11 DEF Registers
    <2>3. UNCHANGED trailVars \/ (AnsweredCall(r)' /\ \E e : Records(r, e) /\ ~Registration(e))
      <3>1. ~(invitePc'[r] \in Returned /\ inviteCall'[r].op \in {"signUp", "complete"})
        BY <1>5, <1>11
      <3>2. QED
        BY <1>7, <2>1, <3>1 DEF AnsweredCall
    <2>4. QED
      BY <1>2, <1>3, <1>4, <1>8, <1>11, <2>2, <2>3 DEF AccountStep, Passes
  <1>12. QED
    BY <1>2, <1>4, <1>9, <1>10, <1>11
------------------------------------------------------------------------------
(* The account itself: as long as the trail dropped nothing, it holds one  *)
(* event of each answered request at most.                                 *)
Registered == {e \in Events : e.success /\ e.route \in {"signUp", "complete"}}

Accounted ==
    sequence <= MaxEvents =>
        /\ events \in Seq(Entry) /\ Len(events) = sequence
        /\ \A e \in Events : e.request \in Requests /\ AnsweredCall(e.request)
        /\ IsFiniteSet(Registered)
        /\ Len(users) = Len(SeedUsers) + Cardinality(Registering) + Cardinality(Registered)

AccountInv == /\ SystemInv /\ CallsKnown
              /\ sequence \in Nat /\ IsFiniteSet(Registering)
              /\ Accounted

(* To record an event adds it to those of the trail. *)
LEMMA EventsGrow ==
    ASSUME NEW e \in Event, Save(e), sequence \in Nat, sequence' <= MaxEvents,
           events \in Seq(Entry), Len(events) = sequence
    PROVE  /\ events' \in Seq(Entry) /\ Len(events') = sequence'
           /\ Events' = Events \cup {e}
  <1> DEFINE x == [id |-> sequence, input |-> e]
  <1>1. x \in Entry /\ x.input = e
    BY DEF Entry
  <1>2. /\ sequence' = sequence + 1
        /\ events' = CutToMaximum(Append(events, x))
    BY DEF Save
  <1> HIDE DEF x
  <1>3. /\ Append(events, x) \in Seq(Entry)
        /\ Len(Append(events, x)) = sequence + 1
        /\ Append(events, x)[sequence + 1] = x
        /\ \A i \in 1 .. sequence : Append(events, x)[i] = events[i]
    BY <1>1, AppendProperties
  <1>4. events' = Append(events, x)
    BY <1>2, <1>3, AuditAssumption DEF CutToMaximum
  <1>5. DOMAIN events = 1 .. sequence /\ DOMAIN events' = 1 .. sequence + 1
    BY <1>3, <1>4, LenProperties
  <1>6. ASSUME NEW y \in Events'
        PROVE  y \in Events \cup {e}
    <2>1. PICK i \in 1 .. sequence + 1 : y = events'[i].input
      BY <1>5, <1>6 DEF Events
    <2>2. QED
      BY <1>1, <1>3, <1>4, <1>5, <2>1 DEF Events
  <1>7. ASSUME NEW y \in Events \cup {e}
        PROVE  y \in Events'
    <2>1. CASE y \in Events
      <3>1. PICK i \in 1 .. sequence : y = events[i].input
        BY <1>5, <2>1 DEF Events
      <3>2. i \in 1 .. sequence + 1 /\ events'[i] = events[i]
        BY <1>3, <1>4
      <3>3. QED
        BY <1>5, <3>1, <3>2 DEF Events
    <2>2. CASE y = e
      BY <1>1, <1>3, <1>4, <1>5, <2>2 DEF Events
    <2>3. QED
      BY <1>7, <2>1, <2>2
  <1>8. QED
    BY <1>2, <1>3, <1>4, <1>6, <1>7

(* The trail as it was, and the answered requests of its events too. *)
LEMMA SameTrail ==
    ASSUME UNCHANGED trailVars, Accounted, sequence <= MaxEvents,
           \A q \in Requests : AnsweredCall(q) => AnsweredCall(q)'
    PROVE  /\ events' \in Seq(Entry) /\ Len(events') = sequence'
           /\ Events' = Events /\ Registered' = Registered
           /\ \A e \in Events' : e.request \in Requests /\ AnsweredCall(e.request)'
  BY DEF trailVars, Accounted, Events, Registered, AnsweredCall

(* Each kind of step keeps the account. *)
LEMMA AccountKept ==
    ASSUME sequence \in Nat, IsFiniteSet(Registering), Accounted,
           NEW r \in Requests, AccountStep(r)
    PROVE  sequence' \in Nat /\ IsFiniteSet(Registering') /\ Accounted'
  <1>1. /\ ~AnsweredCall(r)
        /\ \A q \in Requests \ {r} : pc'[q] = pc[q] /\ invitePc'[q] = invitePc[q]
    BY DEF AccountStep
  <1>2. \A q \in Requests : AnsweredCall(q) => AnsweredCall(q)'
    BY <1>1 DEF AnsweredCall
  <1>3. Cardinality(Registering) \in Nat /\ Len(SeedUsers) \in Nat
    BY FS_CardinalityType, SeedTyped
  <1>4. sequence <= MaxEvents => Cardinality(Registered) \in Nat
    BY FS_CardinalityType DEF Accounted
  <1>5. ASSUME NEW e, Records(r, e), AnsweredCall(r)'
        PROVE  /\ sequence' = sequence + 1
               /\ sequence' <= MaxEvents =>
                    /\ sequence <= MaxEvents
                    /\ events' \in Seq(Entry) /\ Len(events') = sequence'
                    /\ Events' = Events \cup {e} /\ e \notin Events
                    /\ \A x \in Events' : x.request \in Requests /\ AnsweredCall(x.request)'
    <2>1. e \in Event /\ e.request = r /\ Save(e) /\ sequence' = sequence + 1
      BY <1>5 DEF Records, Save
    <2>2. ASSUME sequence' <= MaxEvents
          PROVE  /\ sequence <= MaxEvents
                 /\ events' \in Seq(Entry) /\ Len(events') = sequence'
                 /\ Events' = Events \cup {e} /\ e \notin Events
                 /\ \A x \in Events' : x.request \in Requests /\ AnsweredCall(x.request)'
      <3>1. sequence <= MaxEvents
        BY <2>1, <2>2, AuditAssumption
      <3>2. /\ events \in Seq(Entry) /\ Len(events) = sequence
            /\ \A x \in Events : x.request \in Requests /\ AnsweredCall(x.request)
        BY <3>1 DEF Accounted
      <3>3. /\ events' \in Seq(Entry) /\ Len(events') = sequence'
            /\ Events' = Events \cup {e}
        BY <2>1, <2>2, <3>2, EventsGrow
      <3>4. e \notin Events
        BY <1>1, <2>1, <3>2
      <3>5. ASSUME NEW x \in Events'
            PROVE  x.request \in Requests /\ AnsweredCall(x.request)'
        <4>1. CASE x \in Events
          <5>1. x.request \in Requests /\ AnsweredCall(x.request)
            BY <3>2, <4>1
          <5>2. QED
            BY <1>2, <5>1 DEF AnsweredCall
        <4>2. CASE x = e
          BY <1>5, <2>1, <4>2 DEF AnsweredCall
        <4>3. QED
          BY <3>3, <3>5, <4>1, <4>2
      <3>6. QED
        BY <3>1, <3>3, <3>4, <3>5
    <2>3. QED
      BY <2>1, <2>2
  <1>6. CASE Begins(r)
    <2>1. /\ Registering' = Registering \cup {r} /\ r \notin Registering
          /\ Len(users') = Len(users) + 1 /\ UNCHANGED trailVars /\ sequence' = sequence
      BY <1>1, <1>6 DEF Begins, Registers, Registering, trailVars
    <2>2. /\ IsFiniteSet(Registering')
          /\ Cardinality(Registering') = Cardinality(Registering) + 1
      BY <2>1, FS_AddElement
    <2>3. ASSUME sequence <= MaxEvents
          PROVE  /\ events' \in Seq(Entry) /\ Len(events') = sequence'
                 /\ \A e \in Events' : e.request \in Requests /\ AnsweredCall(e.request)'
                 /\ IsFiniteSet(Registered')
                 /\ Len(users') = Len(SeedUsers) + Cardinality(Registering')
                                    + Cardinality(Registered')
      <3>1. /\ IsFiniteSet(Registered)
            /\ Len(users) = Len(SeedUsers) + Cardinality(Registering) + Cardinality(Registered)
        BY <2>3 DEF Accounted
      <3>2. /\ events' \in Seq(Entry) /\ Len(events') = sequence'
            /\ Registered' = Registered
            /\ \A e \in Events' : e.request \in Requests /\ AnsweredCall(e.request)'
        BY <1>2, <2>1, <2>3, SameTrail
      <3>3. QED
        BY <1>3, <1>4, <2>1, <2>2, <2>3, <3>1, <3>2
    <2>4. QED
      BY <2>1, <2>2, <2>3 DEF Accounted
  <1>7. CASE Ends(r)
    <2>1. /\ Registering' = Registering \ {r} /\ r \in Registering
          /\ users' = users /\ AnsweredCall(r)'
      BY <1>1, <1>7 DEF Ends, Registers, Registering
    <2>2. PICK e : Records(r, e) /\ Registration(e)
      BY <1>7 DEF Ends
    <2>3. /\ IsFiniteSet(Registering')
          /\ Cardinality(Registering') = Cardinality(Registering) - 1
      BY <2>1, FS_RemoveElement
    <2>4. ASSUME sequence' <= MaxEvents
          PROVE  /\ events' \in Seq(Entry) /\ Len(events') = sequence'
                 /\ \A x \in Events' : x.request \in Requests /\ AnsweredCall(x.request)'
                 /\ IsFiniteSet(Registered')
                 /\ Len(users') = Len(SeedUsers) + Cardinality(Registering')
                                    + Cardinality(Registered')
      <3>1. /\ sequence <= MaxEvents
            /\ events' \in Seq(Entry) /\ Len(events') = sequence'
            /\ Events' = Events \cup {e} /\ e \notin Events
            /\ \A x \in Events' : x.request \in Requests /\ AnsweredCall(x.request)'
        BY <1>5, <2>1, <2>2, <2>4
      <3>2. /\ IsFiniteSet(Registered)
            /\ Len(users) = Len(SeedUsers) + Cardinality(Registering) + Cardinality(Registered)
        BY <3>1 DEF Accounted
      <3>3. Registered' = Registered \cup {e} /\ e \notin Registered
        BY <2>2, <3>1 DEF Registered, Registration
      <3>4. /\ IsFiniteSet(Registered')
            /\ Cardinality(Registered') = Cardinality(Registered) + 1
        BY <3>2, <3>3, FS_AddElement
      <3>5. QED
        BY <1>3, <1>4, <2>1, <2>3, <3>1, <3>2, <3>4
    <2>5. sequence' \in Nat
      BY <1>5, <2>1, <2>2
    <2>6. QED
      BY <2>3, <2>4, <2>5 DEF Accounted
  <1>8. CASE Passes(r)
    <2>1. Registering' = Registering /\ Len(users') = Len(users)
      BY <1>1, <1>8 DEF Passes, Registers, Registering
    <2>2. CASE UNCHANGED trailVars
      <3>1. ASSUME sequence <= MaxEvents
            PROVE  /\ events' \in Seq(Entry) /\ Len(events') = sequence'
                   /\ Registered' = Registered
                   /\ \A e \in Events' : e.request \in Requests /\ AnsweredCall(e.request)'
        BY <1>2, <2>2, <3>1, SameTrail
      <3>2. sequence' = sequence
        BY <2>2 DEF trailVars
      <3>3. QED
        BY <2>1, <3>1, <3>2 DEF Accounted
    <2>3. ASSUME AnsweredCall(r)', NEW e, Records(r, e), ~Registration(e)
          PROVE  sequence' \in Nat /\ Accounted'
      <3>1. /\ sequence' = sequence + 1
            /\ sequence' <= MaxEvents =>
                 /\ sequence <= MaxEvents
                 /\ events' \in Seq(Entry) /\ Len(events') = sequence'
                 /\ Events' = Events \cup {e}
                 /\ \A x \in Events' : x.request \in Requests /\ AnsweredCall(x.request)'
        BY <1>5, <2>3
      <3>2. sequence' <= MaxEvents => Registered' = Registered
        BY <2>3, <3>1 DEF Registered, Registration
      <3>3. QED
        BY <2>1, <3>1, <3>2 DEF Accounted
    <2>4. QED
      BY <1>8, <2>1, <2>2, <2>3 DEF Passes
  <1>9. QED
    BY <1>6, <1>7, <1>8 DEF AccountStep

(* At the start nobody registers and nothing is recorded. *)
LEMMA AccountInit == SystemInit => AccountInv
  <1> SUFFICES ASSUME SystemInit PROVE AccountInv
    OBVIOUS
  <1>1. SystemInv
    BY SystemInitInv
  <1>2. /\ pc = [r \in Requests |-> "idle"] /\ invitePc = [r \in Requests |-> "idle"]
        /\ users = SeedUsers /\ events = <<>> /\ sequence = 0
    BY DEF SystemInit, Init, Inv!Init, UsersInit, TrailInit
  <1>3. Registering = {} /\ CallsKnown
    BY <1>2 DEF Registering, CallsKnown, MethodOK, OneService, Awaits
  <1>4. Events = {} /\ Registered = {}
    BY <1>2 DEF Events, Registered
  <1>5. Accounted
    BY <1>2, <1>3, <1>4, FS_EmptySet, SeedTyped DEF Accounted
  <1>6. QED
    BY <1>1, <1>2, <1>3, <1>5, FS_EmptySet DEF AccountInv

(* A restart empties the trail and puts the table back to the seed. *)
LEMMA RestartAccounts ==
    ASSUME CallsKnown, ProcessRestarts
    PROVE  /\ CallsKnown' /\ sequence' \in Nat /\ IsFiniteSet(Registering') /\ Accounted'
  <1>1. /\ \A r \in Requests : pc'[r] = IF pc[r] \in Awaits THEN "lost" ELSE pc[r]
        /\ \A r \in Requests :
              invitePc'[r] = IF invitePc[r] \in Inv!Awaits THEN "lost" ELSE invitePc[r]
        /\ users' = SeedUsers /\ events' = <<>> /\ sequence' = 0
    BY DEF ProcessRestarts, Restart, Inv!Restart
  <1>2. Registering' = {} /\ CallsKnown'
    BY <1>1 DEF Registering, CallsKnown, MethodOK, OneService, Awaits, Inv!Awaits
  <1>3. Events' = {} /\ Registered' = {}
    BY <1>1 DEF Events, Registered
  <1>4. Accounted'
    BY <1>1, <1>2, <1>3, FS_EmptySet, SeedTyped DEF Accounted
  <1>5. QED
    BY <1>1, <1>2, <1>4, FS_EmptySet

(* Every step keeps the account. *)
LEMMA AccountInvStep ==
    ASSUME AccountInv, [SystemNext]_systemVars
    PROVE  AccountInv'
  <1>1. /\ SystemInv /\ CallsKnown /\ sequence \in Nat /\ IsFiniteSet(Registering)
        /\ Accounted
    BY DEF AccountInv
  <1>2. SystemInv'
    BY <1>1, SystemInvStep
  <1>3. ASSUME NEW r \in Requests, CallArrives(r) \/ CallProceeds(r)
        PROVE  AccountInv'
    <2>1. AccountStep(r) /\ CallsKnown'
      BY <1>1, <1>3, AuthAccounts, InviteAccounts DEF CallArrives, CallProceeds
    <2>2. sequence' \in Nat /\ IsFiniteSet(Registering') /\ Accounted'
      BY <1>1, <2>1, AccountKept
    <2>3. QED
      BY <1>2, <2>1, <2>2 DEF AccountInv
  <1>4. CASE ProcessRestarts
    BY <1>1, <1>2, <1>4, RestartAccounts DEF AccountInv
  <1>5. CASE ClockTicks \/ UNCHANGED systemVars
    <2>1. UNCHANGED <<pc, call, users, invitePc, events, sequence>>
      BY <1>5 DEF ClockTicks, TimePasses, systemVars, vars, argVars, inviteVars, trailVars
    <2>2. CallsKnown' /\ UNCHANGED <<Registering, Events, Registered>>
      BY <1>1, <2>1 DEF CallsKnown, MethodOK, OneService, Registering, Events, Registered
    <2>3. Accounted'
      BY <1>1, <2>1, <2>2 DEF Accounted, AnsweredCall
    <2>4. QED
      BY <1>1, <1>2, <2>1, <2>2, <2>3 DEF AccountInv
  <1>6. QED
    BY <1>3, <1>4, <1>5 DEF SystemNext

(* For any number of requests, users and events: while the trail has       *)
(* dropped nothing it accounts for every user beyond the seed, whichever   *)
(* service registered it and however the two overlapped.                   *)
THEOREM RegistrationsAreAccounted == SystemSpec => []RegistrationsAccounted
  <1>1. SystemInit => AccountInv
    BY AccountInit
  <1>2. AccountInv /\ [SystemNext]_systemVars => AccountInv'
    BY AccountInvStep
  <1>3. AccountInv => RegistrationsAccounted
    BY DEF AccountInv, Accounted, RegistrationsAccounted, Registered
  <1>4. QED
    BY <1>1, <1>2, <1>3, PTL DEF SystemSpec
==============================================================================

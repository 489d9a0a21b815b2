--------------------------- MODULE AuthAlone_proofs ---------------------------
(***************************************************************************)
(* What AuthService promises a client that has it to itself.  Four of its  *)
(* promises break when calls overlap, as the runs that expect a violation  *)
(* show; here they are proved for MaxInFlight = 1, where a call starts     *)
(* only when the one before it was answered: any number of calls, one      *)
(* after the other, with restarts and the clock between their steps.       *)
(***************************************************************************)
EXTENDS Credentials_proofs, FiniteSetTheorems

(* At most one call is in flight. *)
Alone == \A r, s \in Requests : pc[r] \in Awaits /\ pc[s] \in Awaits => r = s

(* A call arrives when no other is in flight. *)
LEMMA ArrivesAlone ==
    ASSUME MaxInFlight = 1, Alone, NEW r \in Requests, Arrive(r)
    PROVE  \A q \in Requests : pc[q] \notin Awaits
  <1>1. Cardinality(InFlight) < 1
    BY DEF Arrive, LoginStart, SignUpStart, ForgotStart, ResetStart, ChangeStart,
           RefreshInvalid, RefreshStart, Logout, Called
  <1>2. ASSUME NEW q \in Requests, pc[q] \in Awaits
        PROVE  FALSE
    <2>1. InFlight = {q}
      BY <1>2 DEF Alone, InFlight
    <2>2. Cardinality(InFlight) = 1
      BY <2>1, FS_Singleton
    <2>3. QED
      BY <1>1, <2>2
  <1>3. QED
    BY <1>2

(* A call that goes on was in flight. *)
LEMMA ProceedsInFlight ==
    ASSUME NEW r \in Requests, Proceed(r)
    PROVE  pc[r] \in Awaits
  BY DEF Proceed, LoginLookup, LoginUnknown, LoginVerify, LoginMismatch, LoginSucceed,
     SignUpConflict, SignUpHash, SignUpCreate, SignUpSucceed, ForgotUnknown, ForgotIssue,
     ForgotSent, ResetRefuse, ResetExpire, ResetAccept, ResetUpdate, ResetSucceed,
     ChangeRefuse, ChangeVerify, ChangeMismatch, ChangeHash, ChangeUpdate, ChangeSucceed,
     RefreshRotate, CryptoFails, Awaits

(* While a call takes a step every other one is idle or answered, before   *)
(* and after.                                                              *)
LEMMA NobodyElse ==
    ASSUME MaxInFlight = 1, TypeInv, Alone, NEW r \in Requests, Arrive(r) \/ Proceed(r),
           NEW q \in Requests, q # r
    PROVE  pc[q] \notin Awaits /\ pc'[q] \notin Awaits
  <1>1. pc[q] \notin Awaits
    BY ArrivesAlone, ProceedsInFlight DEF Alone
  <1>2. QED
    BY <1>1, OtherResetStep

(* So it stays. *)
LEMMA AloneStep ==
    ASSUME MaxInFlight = 1, TypeInv, Alone, [Next]_vars
    PROVE  Alone'
  <1>1. ASSUME NEW r \in Requests, Arrive(r) \/ Proceed(r)
        PROVE  Alone'
    BY <1>1, NobodyElse DEF Alone
  <1>2. CASE Restart
    BY <1>2 DEF Restart, Alone, Awaits
  <1>3. CASE TimePasses \/ UNCHANGED vars
    BY <1>3 DEF TimePasses, vars, Alone
  <1>4. QED
    BY <1>1, <1>2, <1>3 DEF Next

(* No two calls are ever in flight together. *)
LEMMA AloneHolds == ASSUME MaxInFlight = 1 PROVE Spec => []Alone
  <1>1. Init => Alone
    BY DEF Init, Alone, Awaits
  <1>2. TypeInv /\ Alone /\ [Next]_vars => Alone'
    BY AloneStep
  <1>3. QED
    BY <1>1, <1>2, TypeInvHolds, PTL DEF Spec
------------------------------------------------------------------------------
(* EmailsUnique *)

(* What signUp found out at its lookup is still so when it creates. *)
EmailFree(r) ==
    pc[r] = "signUpHash" \/ (pc[r] = "signUpLookup" /\ user[r] = 0) =>
        \A i \in DOMAIN users : users[i].email # EmailOf(r)

EmailInv == EmailsUnique /\ \A r \in Requests : EmailFree(r)

(* Only signUp changes which emails the table holds. *)
LEMMA SameEmails ==
    ASSUME TypeInv, OwnersExist, [Next]_vars, ~Restart,
           \A r \in Requests : ~SignUpCreate(r)
    PROVE  /\ DOMAIN users' = DOMAIN users
           /\ \A i \in DOMAIN users : users'[i].email = users[i].email
  <1>1. /\ StoresOK /\ users \in Seq(User) /\ users' \in Seq(User)
        /\ DOMAIN users = 1 .. Len(users) /\ DOMAIN users' = 1 .. Len(users')
    BY NextTyped, LenProperties DEF TypeInv, TypeOK, StoresOK, UsersTypeOK
  <1>2. ASSUME NEW r \in Requests, ResetUpdate(r) \/ ChangeUpdate(r)
        PROVE  Len(users') = Len(users)
    <2>1. pc[r] \in Awaits /\ user[r] # 0
      BY <1>2 DEF ResetUpdate, ChangeUpdate, Awaits, TypeInv, CallsOK, CallOK, HoldsUser
    <2>2. UserIdOf(r) \in Nat /\ Hashed(call[r].newPassword) \in Password
      BY <2>1, IdsArePositions, CallTyped DEF Call, Hashed, Password
    <2>3. QED
      BY <1>1, <1>2, <2>2, UpdatePasswordTyped DEF ResetUpdate, ChangeUpdate
  <1>3. Len(users') = Len(users)
    BY <1>2, TableUntouched
  <1>4. QED
    BY <1>1, <1>3, TableSteps DEF TableKept

(* The email of the new user was free when it was looked up, and nobody    *)
(* came in between.                                                        *)
LEMMA EmailInvStep ==
    ASSUME MaxInFlight = 1, TypeInv, OwnersExist, Alone, EmailInv, [Next]_vars
    PROVE  EmailInv'
  <1>1. /\ LocalsOK /\ UsersTypeOK /\ users \in Seq(User)
        /\ DOMAIN users = 1 .. Len(users) /\ Len(users) \in Nat
    BY LenProperties DEF TypeInv, TypeOK, StoresOK, UsersTypeOK
  <1>2. CASE Restart
    <2>1. users' = SeedUsers /\ DOMAIN SeedUsers = {1, 2}
          /\ SeedUsers[1].email = "aureo" /\ SeedUsers[2].email = "bueno"
      BY <1>2 DEF Restart, SeedUsers
    <2>2. \A r \in Requests : pc'[r] \notin {"signUpHash", "signUpLookup"}
      BY <1>2 DEF Restart, Awaits
    <2>3. QED
      BY <2>1, <2>2 DEF EmailInv, EmailsUnique, EmailFree
  <1>3. CASE TimePasses \/ UNCHANGED vars
    <2>1. UNCHANGED <<users, pc, call, user>>
      BY <1>3 DEF TimePasses, vars, argVars, SameLocals
    <2>2. QED
      BY <2>1 DEF EmailInv, EmailsUnique, EmailFree, EmailOf
  <1>4. ASSUME NEW r \in Requests, SignUpCreate(r)
        PROVE  EmailInv'
    <2>1. PICK u : users' = Append(users, u) /\ u.email = EmailOf(r)
      BY <1>4 DEF SignUpCreate, Create
    <2>2. /\ DOMAIN users' = 1 .. Len(users) + 1
          /\ \A i \in DOMAIN users : users'[i] = users[i]
          /\ users'[Len(users) + 1] = u
      BY <1>1, <2>1
    <2>3. \A i \in DOMAIN users : users[i].email # EmailOf(r)
      BY <1>4 DEF SignUpCreate, EmailInv, EmailFree
    <2>4. EmailsUnique'
      BY <1>1, <2>1, <2>2, <2>3 DEF EmailInv, EmailsUnique
    <2>5. pc'[r] = "signUpCreate"
      BY <1>1, <1>4 DEF SignUpCreate, Await, LocalsOK
    <2>6. Proceed(r)
      BY <1>4 DEF Proceed
    <2>7. \A q \in Requests : EmailFree(q)'
      BY <2>5, <2>6, NobodyElse DEF EmailFree, Awaits
    <2>8. QED
      BY <2>4, <2>7 DEF EmailInv
  <1>5. ASSUME ~Restart, \A q \in Requests : ~SignUpCreate(q),
               NEW r \in Requests, Arrive(r) \/ Proceed(r)
        PROVE  EmailInv'
    <2>1. /\ DOMAIN users' = DOMAIN users
          /\ \A i \in DOMAIN users : users'[i].email = users[i].email
      BY <1>5, SameEmails
    <2>2. EmailsUnique'
      BY <2>1 DEF EmailInv, EmailsUnique
    <2>3. ASSUME NEW q \in Requests, q # r
          PROVE  EmailFree(q)'
      BY <1>5, <2>3, NobodyElse DEF EmailFree, Awaits
    <2>4. ASSUME NEW c \in Calls, SignUpStart(r, c)
          PROVE  EmailFree(r)'
      <3>1. /\ user'[r] = FindByEmail(Canonical[c.email]) /\ call'[r] = c
            /\ pc'[r] = "signUpLookup"
        BY <1>1, <1>5, <2>4 DEF SignUpStart, Called, LookUp, LocalsOK
      <3>2. QED
        <4>1. FindByEmail(Canonical[c.email]) = 0 =>
                  \A i \in DOMAIN users : users[i].email # Canonical[c.email]
          BY <1>1, FindByEmailFinds
        <4>2. QED
          BY <2>1, <3>1, <4>1 DEF EmailFree, EmailOf
    <2>5. ASSUME SignUpHash(r)
          PROVE  EmailFree(r)'
      <3>1. /\ pc[r] = "signUpLookup" /\ user[r] = 0 /\ call' = call
        BY <2>5 DEF SignUpHash, Await, argVars
      <3>2. QED
        BY <1>5, <2>1, <3>1 DEF EmailInv, EmailFree, EmailOf
    <2>6. ASSUME ~SignUpHash(r), \A c \in Calls : ~SignUpStart(r, c)
          PROVE  EmailFree(r)'
      <3>1. pc'[r] \notin {"signUpHash", "signUpLookup"}
        BY <1>1, <1>5, <2>6 DEF LocalsOK, Arrive, LoginStart, ForgotStart, ResetStart, ChangeStart,
           RefreshInvalid, RefreshStart, Logout, Proceed, LoginLookup, LoginUnknown, LoginVerify,
           LoginMismatch, LoginSucceed, SignUpConflict, SignUpSucceed, ForgotUnknown,
           ForgotIssue, ForgotSent, ResetRefuse, ResetExpire, ResetAccept, ResetUpdate,
           ResetSucceed, ChangeRefuse, ChangeVerify, ChangeMismatch, ChangeHash, ChangeUpdate,
           ChangeSucceed, RefreshRotate, CryptoFails, Await, Answer
      <3>2. QED
        BY <3>1 DEF EmailFree
    <2>7. QED
      BY <2>2, <2>3, <2>4, <2>5, <2>6 DEF EmailInv
  <1>6. QED
    BY <1>2, <1>3, <1>4, <1>5 DEF Next

(* One call at a time, signUp's 409 keeps its promise: no two users of the *)
(* table have the same email.                                              *)
THEOREM EmailsStayUnique == ASSUME MaxInFlight = 1 PROVE Spec => []EmailsUnique
  <1>1. Init => EmailInv
    <2> SUFFICES ASSUME Init PROVE EmailInv
      OBVIOUS
    <2>1. users = SeedUsers /\ DOMAIN SeedUsers = {1, 2}
          /\ SeedUsers[1].email = "aureo" /\ SeedUsers[2].email = "bueno"
      BY DEF Init, UsersInit, SeedUsers
    <2>2. QED
      BY <2>1 DEF Init, EmailInv, EmailsUnique, EmailFree
  <1>2. TypeInv /\ OwnersExist /\ Alone /\ EmailInv /\ [Next]_vars => EmailInv'
    BY EmailInvStep
  <1>3. EmailInv => EmailsUnique
    BY DEF EmailInv
  <1>4. Spec => []Alone
    BY AloneHolds
  <1>5. QED
    BY <1>1, <1>2, <1>3, <1>4, TypeInvHolds, OwnersAreThere, PTL DEF Spec
------------------------------------------------------------------------------
(* ResetTokenUsedOnce *)

(* The token a resetPassword was let in with is usable until its last step *)
(* deactivates it.                                                         *)
StillActive(r) ==
    pc[r] \in {"resetHash", "resetUpdate"} => passwordResetTokens[given[r]].active

OnceInv == ResetTokenUsedOnce /\ \A r \in Requests : StillActive(r)

(* A call of resetPassword that was answered with success. *)
Redeemed(r) == call[r].op = "reset" /\ pc[r] = "ok" /\ given[r] # 0

(* Only the last step of resetPassword redeems a token. *)
LEMMA RedeemsLast ==
    ASSUME TypeInv, ResetCalls, NEW r \in Requests, Arrive(r) \/ Proceed(r),
           ~ResetSucceed(r)
    PROVE  ~Redeemed(r)'
  <1>1. LocalsOK /\ ResetCallOK(r)
    BY DEF TypeInv, TypeOK, ResetCalls
  <1>2. CASE Arrive(r)
    BY <1>1, <1>2 DEF Arrive, LoginStart, SignUpStart, ForgotStart, ResetStart, ChangeStart,
       RefreshInvalid, RefreshStart, Logout, Called, Answer, LocalsOK, Redeemed
  <1>3. CASE Proceed(r)
    <2>1. call' = call /\ pc'[r] = "ok" => pc[r] \in Awaits \ ResetAwaits
      BY <1>1, <1>3 DEF Proceed, LoginLookup, LoginUnknown, LoginVerify, LoginMismatch,
         LoginSucceed, SignUpConflict, SignUpHash, SignUpCreate, SignUpSucceed, ForgotUnknown,
         ForgotIssue, ForgotSent, ResetRefuse, ResetExpire, ResetAccept, ResetUpdate,
         ChangeRefuse, ChangeVerify, ChangeMismatch, ChangeHash, ChangeUpdate, ChangeSucceed,
         RefreshRotate, CryptoFails, Await, Answer, LocalsOK, Awaits, ResetAwaits
    <2>2. call' = call
      BY <1>3 DEF Proceed, LoginLookup, LoginUnknown, LoginVerify, LoginMismatch,
         LoginSucceed, SignUpConflict, SignUpHash, SignUpCreate, SignUpSucceed, ForgotUnknown,
         ForgotIssue, ForgotSent, ResetRefuse, ResetExpire, ResetAccept, ResetUpdate,
         ChangeRefuse, ChangeVerify, ChangeMismatch, ChangeHash, ChangeUpdate, ChangeSucceed,
         RefreshRotate, CryptoFails, Await, argVars
    <2>3. QED
      BY <1>1, <2>1, <2>2 DEF ResetCallOK, Redeemed
  <1>4. QED
    BY <1>2, <1>3

(* While a token is on its way to be redeemed nobody else redeems it. *)
LEMMA OnceInvStep ==
    ASSUME MaxInFlight = 1, TypeInv, ResetCalls, Alone, OnceInv, [Next]_vars
    PROVE  OnceInv'
  <1>1. LocalsOK
    BY DEF TypeInv, TypeOK
  <1>2. CASE Restart
    <2>1. \A r \in Requests : pc'[r] \notin {"resetHash", "resetUpdate"} /\ given'[r] = 0
      BY <1>2 DEF Restart, Awaits
    <2>2. QED
      BY <2>1 DEF OnceInv, ResetTokenUsedOnce, StillActive
  <1>3. CASE TimePasses \/ UNCHANGED vars
    <2>1. UNCHANGED <<passwordResetTokens, pc, call, given>>
      BY <1>3 DEF TimePasses, vars, storeVars, argVars
    <2>2. QED
      BY <2>1 DEF OnceInv, ResetTokenUsedOnce, StillActive
  <1>4. ASSUME NEW r \in Requests, Arrive(r) \/ Proceed(r)
        PROVE  OnceInv'
    <2>1. ASSUME NEW q \in Requests, q # r
          PROVE  /\ StillActive(q)'
                 /\ Redeemed(q)' => Redeemed(q)
                 /\ given'[q] = given[q]
      BY <1>4, <2>1, NobodyElse, OtherResetStep DEF StillActive, Redeemed, Awaits
    <2>2. StillActive(r)'
      <3>1. CASE ResetAccept(r)
        BY <1>1, <3>1 DEF ResetAccept, ResetTokenAccepted, Await, argVars, storeVars, StillActive
      <3>2. CASE ResetUpdate(r)
        <4>1. pc[r] = "resetHash" /\ UNCHANGED <<passwordResetTokens, given>>
          BY <3>2 DEF ResetUpdate, Await, argVars, storeVars
        <4>2. QED
          BY <1>4, <4>1 DEF OnceInv, StillActive
      <3>3. CASE ~ResetAccept(r) /\ ~ResetUpdate(r)
        <4>1. pc'[r] \notin {"resetHash", "resetUpdate"}
          BY <1>1, <1>4, <3>3 DEF LocalsOK, Arrive, LoginStart, SignUpStart, ForgotStart,
             ResetStart, ChangeStart, RefreshInvalid, RefreshStart, Logout, Proceed,
             LoginLookup, LoginUnknown, LoginVerify, LoginMismatch, LoginSucceed,
             SignUpConflict, SignUpHash, SignUpCreate, SignUpSucceed, ForgotUnknown,
             ForgotIssue, ForgotSent, ResetRefuse, ResetExpire, ResetSucceed, ChangeRefuse,
             ChangeVerify, ChangeMismatch, ChangeHash, ChangeUpdate, ChangeSucceed,
             RefreshRotate, CryptoFails, Await, Answer
        <4>2. QED
          BY <4>1 DEF StillActive
      <3>4. QED
        BY <3>1, <3>2, <3>3
    <2>3. ASSUME NEW q \in Requests, q # r, Redeemed(q)', Redeemed(r)'
          PROVE  given'[q] # given'[r]
      <3>1. Redeemed(q) /\ ~passwordResetTokens[given[q]].active
        BY <2>1, <2>3 DEF Redeemed, ResetCalls, ResetCallOK
      <3>2. ResetSucceed(r)
        BY <1>4, <2>3, RedeemsLast
      <3>3. passwordResetTokens[given[r]].active /\ given' = given
        BY <1>4, <3>2 DEF ResetSucceed, argVars, OnceInv, StillActive
      <3>4. QED
        BY <3>1, <3>3
    <2>4. ASSUME NEW q \in Requests, NEW s \in Requests, Redeemed(q)', Redeemed(s)',
                 given'[q] = given'[s]
          PROVE  q = s
      <3>1. CASE q # r /\ s # r
        BY <2>1, <2>4, <3>1 DEF OnceInv, ResetTokenUsedOnce, Redeemed
      <3>2. QED
        BY <2>3, <2>4, <3>1
    <2>5. ResetTokenUsedOnce'
      BY <2>4 DEF ResetTokenUsedOnce, Redeemed
    <2>6. QED
      BY <2>1, <2>2, <2>5 DEF OnceInv
  <1>5. QED
    BY <1>2, <1>3, <1>4 DEF Next

(* One call at a time, a reset token changes one password. *)
THEOREM ResetTokensUsedOnce == ASSUME MaxInFlight = 1 PROVE Spec => []ResetTokenUsedOnce
  <1>1. Init => OnceInv
    BY DEF Init, OnceInv, ResetTokenUsedOnce, StillActive
  <1>2. TypeInv /\ ResetCalls /\ Alone /\ OnceInv /\ [Next]_vars => OnceInv'
    BY OnceInvStep
  <1>3. OnceInv => ResetTokenUsedOnce
    BY DEF OnceInv
  <1>4. Spec => []Alone
    BY AloneHolds
  <1>5. QED
    BY <1>1, <1>2, <1>3, <1>4, TypeInvHolds, ResetCallsHold, PTL DEF Spec
------------------------------------------------------------------------------
(* LockStands *)

(* A login in flight was admitted without a lock, and none was set since.  *)
LockFree ==
    \A r \in Requests : Delayed(r) =>
        /\ emailLoginAttempts[EmailOf(r)].lockedUntil <= now
        /\ ipLoginAttempts[call[r].ip].lockedUntil <= now

(* Nobody else could have set one. *)
LEMMA LockFreeStep ==
    ASSUME MaxInFlight = 1, TypeInv, Alone, LockFree, [Next]_vars
    PROVE  LockFree'
  <1>1. /\ LocalsOK /\ AttemptsTypeOK /\ now \in Nat
    BY DEF TypeInv, TypeOK, StoresOK
  <1>2. CASE Restart
    BY <1>2 DEF Restart, LockFree, Delayed, Awaits
  <1>3. CASE TimePasses
    <2>1. /\ UNCHANGED <<emailLoginAttempts, ipLoginAttempts, pc, call>> /\ now' = now + 1
      BY <1>3 DEF TimePasses, Tick, storeVars, attemptVars, argVars
    <2>2. ASSUME NEW r \in Requests, Delayed(r)
          PROVE  /\ emailLoginAttempts[EmailOf(r)].lockedUntil \in Nat
                 /\ ipLoginAttempts[call[r].ip].lockedUntil \in Nat
      <3>1. EmailOf(r) \in Emails /\ call[r].ip \in IPs
        BY <2>2, CallTyped DEF Delayed, Awaits, Call
      <3>2. QED
        BY <1>1, <3>1 DEF AttemptsTypeOK, AttemptState
    <2>3. QED
      BY <1>1, <2>1, <2>2 DEF LockFree, Delayed, EmailOf
  <1>4. CASE UNCHANGED vars
    BY <1>4 DEF vars, storeVars, attemptVars, argVars, LockFree, Delayed, EmailOf
  <1>5. CASE Quiet
    BY <1>5 DEF Quiet, attemptVars, LockFree, Delayed, EmailOf
  <1>6. ASSUME NEW r \in Requests, Arrive(r)
        PROVE  LockFree'
    <2>1. ASSUME NEW c \in Calls, LoginStart(r, c)
          PROVE  LockFree'
      <3>1. UNCHANGED <<emailLoginAttempts, ipLoginAttempts, now>> /\ call'[r] = c
        BY <1>1, <2>1 DEF LoginStart, Called, storeVars, attemptVars, LocalsOK
      <3>2. \A q \in Requests : Delayed(q)' => q = r
        BY <1>6, NobodyElse DEF Delayed, Awaits
      <3>3. Delayed(r)' => ~LoginLocked(Canonical[c.email], c.ip)
        BY <1>1, <2>1 DEF LoginStart, Answer, Delayed, LocalsOK
      <3>4. Canonical[c.email] \in Emails /\ c.ip \in IPs
        BY ConstantsOK DEF Call
      <3>5. Delayed(r)' => /\ emailLoginAttempts[Canonical[c.email]].lockedUntil <= now
                           /\ ipLoginAttempts[c.ip].lockedUntil <= now
        BY <1>1, <3>3, <3>4 DEF LoginLocked, LargerOf, AttemptsTypeOK, AttemptState
      <3>6. QED
        BY <3>1, <3>2, <3>5 DEF LockFree, EmailOf
    <2>2. QED
      BY <1>5, <1>6, <2>1, ArriveQuiet DEF Arrive
  <1>7. ASSUME NEW r \in Requests, Proceed(r)
        PROVE  LockFree'
    <2>1. CASE LoginUnknown(r) \/ LoginMismatch(r) \/ LoginSucceed(r)
      <3>1. ~Delayed(r)'
        BY <1>1, <2>1 DEF LoginUnknown, LoginMismatch, LoginSucceed, Answer, LocalsOK, Delayed
      <3>2. \A q \in Requests : ~Delayed(q)'
        BY <1>7, <3>1, NobodyElse DEF Delayed, Awaits
      <3>3. QED
        BY <3>2 DEF LockFree
    <2>2. QED
      BY <1>5, <1>7, <2>1, ProceedQuiet
  <1>8. QED
    BY <1>2, <1>3, <1>4, <1>6, <1>7 DEF Next

(* One call at a time, only a restart takes a lock in force back. *)
THEOREM LocksStand == ASSUME MaxInFlight = 1 PROVE Spec => LockStands
  <1>1. Init => LockFree
    BY DEF Init, LockFree, Delayed
  <1>2. TypeInv /\ Alone /\ LockFree /\ [Next]_vars => LockFree'
    BY LockFreeStep
  <1>3. ASSUME TypeInv, TypeInv', LockInv, LockFree, [Next]_vars, life' = life
        PROVE  /\ \A e \in Emails : emailLoginAttempts[e].lockedUntil > now =>
                     emailLoginAttempts'[e].lockedUntil >= emailLoginAttempts[e].lockedUntil
               /\ \A i \in IPs : ipLoginAttempts[i].lockedUntil > now =>
                     ipLoginAttempts'[i].lockedUntil >= ipLoginAttempts[i].lockedUntil
    <2>1. /\ \A e \in Emails : /\ emailLoginAttempts[e].lockedUntil \in Nat
                               /\ emailLoginAttempts'[e].lockedUntil \in Nat
          /\ \A i \in IPs : /\ ipLoginAttempts[i].lockedUntil \in Nat
                            /\ ipLoginAttempts'[i].lockedUntil \in Nat
          /\ now \in Nat
      BY <1>3 DEF TypeInv, TypeOK, StoresOK, AttemptsTypeOK, AttemptState
    <2>2. ASSUME NEW r \in Requests, NEW a, EarlierLogin(r, a)
          PROVE  Delayed(r)
      BY <2>2 DEF EarlierLogin, Delayed
    <2>3. \A e \in Emails : ~Lifted(emailLoginAttempts[e], emailLoginAttempts'[e])
      BY <1>3, <2>1, <2>2, LiftStep DEF LockFree, Lifted
    <2>4. \A i \in IPs : ~Lifted(ipLoginAttempts[i], ipLoginAttempts'[i])
      BY <1>3, <2>1, <2>2, LiftStep DEF LockFree, Lifted
    <2>5. QED
      BY <2>1, <2>3, <2>4 DEF Lifted
  <1>4. TypeInv /\ TypeInv' /\ LockInv /\ LockFree /\ [Next]_vars =>
            [life' = life =>
                /\ \A e \in Emails : emailLoginAttempts[e].lockedUntil > now =>
                      emailLoginAttempts'[e].lockedUntil >= emailLoginAttempts[e].lockedUntil
                /\ \A i \in IPs : ipLoginAttempts[i].lockedUntil > now =>
                      ipLoginAttempts'[i].lockedUntil >= ipLoginAttempts[i].lockedUntil]_vars
    BY <1>3
  <1>5. Spec => []Alone
    BY AloneHolds
  <1>6. QED
    BY <1>1, <1>2, <1>4, <1>5, TypeInvHolds, LockInvHolds, PTL DEF Spec, LockStands
------------------------------------------------------------------------------
(* SessionsProveCurrentPassword *)

(* What a call in flight holds of a password or a session is what the      *)
(* tables hold still.                                                      *)
HoldsCurrent(r) ==
    /\ pc[r] = "signUpCreate" => users[user[r]].password = Hashed(call[r].password)
    /\ pc[r] = "loginVerify" => verifying[r].basis = users[user[r]].password
    /\ pc[r] = "refreshLookup" => session[r] \in refreshTokens

PasswordInv == SessionsProveCurrentPassword /\ \A r \in Requests : HoldsCurrent(r)

(* Nobody's password is being replaced, or the one's whose call this is. *)
LEMMA UpdatingAlone ==
    ASSUME Alone, NEW r \in Requests, pc[r] \in Awaits
    PROVE  Updating = IF pc[r] \in {"resetUpdate", "changeUpdate"} THEN {UserIdOf(r)} ELSE {}
  <1>1. {"resetUpdate", "changeUpdate"} \subseteq Awaits
    BY DEF Awaits
  <1>2. \A q \in Requests : pc[q] \in {"resetUpdate", "changeUpdate"} => q = r
    BY <1>1 DEF Alone
  <1>3. QED
    BY <1>2 DEF Updating, UserIdOf

(* Nor is it when no call is in flight. *)
LEMMA UpdatingIdle ==
    ASSUME \A q \in Requests : pc[q] \notin Awaits
    PROVE  Updating = {}
  BY DEF Updating, Awaits

(* The password a session of the store should carry. *)
LEMMA CurrentPassword ==
    ASSUME TypeInv, OwnersExist, SessionsProveCurrentPassword,
           NEW s \in refreshTokens, s.userId \notin Updating
    PROVE  s.basis = users[s.userId + 1].password
  <1>1. s.userId \in Nat /\ s.userId < Len(users)
    BY DEF OwnersExist, TypeInv, TypeOK, StoresOK, SessionsTypeOK, Session
  <1>2. s.userId + 1 \in DOMAIN users /\ users[s.userId + 1].id = s.userId
    BY <1>1, IdsArePositions DEF OwnersExist
  <1>3. QED
    BY <1>2 DEF SessionsProveCurrentPassword

(* Every step of a call keeps the sessions' part. *)
LEMMA SessionsStayCurrent ==
    ASSUME MaxInFlight = 1, TypeInv, OwnersExist, Alone, PasswordInv, [Next]_vars, ~Restart,
           NEW r \in Requests, Arrive(r) \/ Proceed(r)
    PROVE  SessionsProveCurrentPassword'
  <1>1. /\ LocalsOK /\ TypeInv' /\ OwnersExist' /\ Alone'
        /\ users \in Seq(User) /\ DOMAIN users = 1 .. Len(users) /\ Len(users) \in Nat
        /\ \A s \in refreshTokens : s.userId \in Nat /\ s.userId < Len(users)
        /\ \A s \in refreshTokens' : s.userId \in Nat /\ s.userId < Len(users)
    BY NextTyped, OwnersStep, AloneStep, IdsArePositions, SessionOwners
       DEF TypeInv, TypeOK, StoresOK, UsersTypeOK, SessionsTypeOK, Session, OwnersExist
  <1>2. \A s \in refreshTokens : s.userId \notin Updating =>
            s.basis = users[s.userId + 1].password
    BY CurrentPassword DEF PasswordInv
  <1>3. SUFFICES ASSUME NEW s \in refreshTokens', s.userId \notin Updating'
                 PROVE  s.basis = users'[s.userId + 1].password
    <2>1. \A i \in DOMAIN users' : users'[i].id = i - 1
      BY TableSteps DEF TableKept
    <2>2. DOMAIN users' \subseteq Int
      BY <1>1, IdsArePositions, LenProperties DEF TypeInv, TypeOK, StoresOK, UsersTypeOK
    <2>3. ASSUME NEW s \in refreshTokens', NEW i \in DOMAIN users', users'[i].id = s.userId
          PROVE  i = s.userId + 1
      BY <2>1, <2>2, <2>3
    <2>4. QED
      BY <2>3 DEF SessionsProveCurrentPassword
  <1>4. user[r] # 0 =>
            /\ UserIdOf(r) = user[r] - 1 /\ UserIdOf(r) \in Nat
            /\ UserIdOf(r) + 1 = user[r] /\ user[r] \in DOMAIN users
    BY <1>1, IdsArePositions, UserTyped
  <1>5. CASE Arrive(r)
    <2>1. users' = users /\ refreshTokens' \subseteq refreshTokens
      BY <1>5 DEF Arrive, LoginStart, SignUpStart, ForgotStart, ResetStart, ChangeStart,
         RefreshInvalid, RefreshStart, Logout, storeVars, sessionVars
    <2>2. Updating = {}
      BY <1>5, ArrivesAlone, UpdatingIdle
    <2>3. QED
      BY <1>2, <1>3, <2>1, <2>2
  <1>6. CASE LoginSucceed(r) \/ SignUpSucceed(r)
    <2>1. /\ users' = users /\ pc[r] \in {"loginVerify", "signUpCreate"} /\ user[r] # 0
          /\ Updating = {}
      BY <1>6, UpdatingAlone DEF LoginSucceed, SignUpSucceed, Awaits, TypeInv, CallsOK, CallOK,
                                 HoldsUser
    <2>2. s \in refreshTokens \/ (/\ s.userId = UserIdOf(r)
                                  /\ s.basis = users[user[r]].password)
      BY <1>6 DEF LoginSucceed, SignUpSucceed, NewRefreshAndAccessToken, OpenSession,
                  PasswordInv, HoldsCurrent
    <2>3. QED
      BY <1>2, <1>4, <2>1, <2>2
  <1>7. CASE RefreshRotate(r)
    <2>1. users' = users /\ pc[r] = "refreshLookup" /\ Updating = {}
      BY <1>7, UpdatingAlone DEF RefreshRotate, Awaits
    <2>2. session[r] \in refreshTokens
      BY <2>1 DEF PasswordInv, HoldsCurrent
    <2>3. s \in refreshTokens \/ (/\ s.userId = session[r].userId
                                  /\ s.basis = session[r].basis)
      BY <1>7 DEF RefreshRotate, RotateForDevice, OpenSession, sessionVars
    <2>4. QED
      BY <1>2, <2>1, <2>2, <2>3
  <1>8. CASE SignUpCreate(r)
    <2>1. /\ refreshTokens' = refreshTokens /\ pc[r] = "signUpHash" /\ Updating = {}
          /\ \E u : users' = Append(users, u)
      BY <1>8, UpdatingAlone DEF SignUpCreate, Create, Awaits, storeVars, sessionVars
    <2>2. \A i \in DOMAIN users : users'[i] = users[i]
      BY <1>1, <2>1
    <2>3. s.userId + 1 \in DOMAIN users
      BY <1>1
    <2>4. QED
      BY <1>2, <2>1, <2>2, <2>3
  <1>9. CASE ResetUpdate(r) \/ ChangeUpdate(r)
    <2>1. /\ refreshTokens' = refreshTokens /\ pc[r] \in {"resetHash", "changeHash"}
          /\ user[r] # 0 /\ user' = user /\ pc'[r] \in {"resetUpdate", "changeUpdate"}
      BY <1>1, <1>9 DEF ResetUpdate, ChangeUpdate, storeVars, sessionVars, SameLocals, Await,
         LocalsOK, TypeInv, CallsOK, CallOK, HoldsUser
    <2>2. Updating = {}
      BY <2>1, UpdatingAlone DEF Awaits
    <2>3. UserIdOf(r) \in Updating'
      <3>1. users'[user[r]].id = user[r] - 1
        <4>1. user[r] \in DOMAIN users'
          BY <1>1, <1>4, <2>1, IdsArePositions, TableSteps DEF TableKept
        <4>2. QED
          BY <4>1, TableSteps DEF TableKept
      <3>2. QED
        BY <1>4, <2>1, <3>1 DEF Updating
    <2>4. s.userId # UserIdOf(r)
      BY <1>3, <2>3
    <2>5. FindOne(UserIdOf(r)) = user[r]
      <3>1. /\ FindOne(UserIdOf(r)) \in DOMAIN users
            /\ users[FindOne(UserIdOf(r))].id = UserIdOf(r)
        BY <1>1, <1>4, <2>1, IdsArePositions, FindOneFinds DEF TypeInv, TypeOK, StoresOK
      <3>2. QED
        BY <1>1, <1>4, <2>1, <3>1 DEF OwnersExist
    <2>6. \E p : users' = [users EXCEPT ![user[r]].password = p]
      BY <1>9, <2>1, <2>5 DEF ResetUpdate, ChangeUpdate, UpdatePassword
    <2>7. s.userId + 1 \in DOMAIN users /\ s.userId + 1 # user[r]
      BY <1>1, <1>4, <2>1, <2>4
    <2>8. QED
      BY <1>2, <2>1, <2>2, <2>6, <2>7
  <1>10. CASE ResetSucceed(r) \/ ChangeSucceed(r)
    <2>1. /\ users' = users /\ pc[r] \in {"resetUpdate", "changeUpdate"}
          /\ s \in refreshTokens /\ s.userId # UserIdOf(r)
      BY <1>10 DEF ResetSucceed, ChangeSucceed, RevokeAllUserRefreshTokens
    <2>2. Updating = {UserIdOf(r)}
      BY <2>1, UpdatingAlone DEF Awaits
    <2>3. QED
      BY <1>2, <2>1, <2>2
  <1>11. CASE /\ Proceed(r) /\ ~LoginSucceed(r) /\ ~SignUpSucceed(r) /\ ~RefreshRotate(r)
              /\ ~SignUpCreate(r) /\ ~ResetUpdate(r) /\ ~ChangeUpdate(r)
              /\ ~ResetSucceed(r) /\ ~ChangeSucceed(r)
    <2>1. /\ users' = users /\ refreshTokens' = refreshTokens
          /\ pc[r] \in Awaits \ {"resetUpdate", "changeUpdate"}
      BY <1>11 DEF Proceed, LoginLookup, LoginUnknown, LoginVerify, LoginMismatch,
         SignUpConflict, SignUpHash, ForgotUnknown, ForgotIssue, ForgotSent, ResetRefuse,
         ResetExpire, ResetAccept, ChangeRefuse, ChangeVerify, ChangeMismatch, ChangeHash,
         CryptoFails, storeVars, sessionVars, Awaits
    <2>2. Updating = {}
      BY <2>1, UpdatingAlone
    <2>3. QED
      BY <1>2, <1>3, <2>1, <2>2
  <1>12. QED
    BY <1>5, <1>6, <1>7, <1>8, <1>9, <1>10, <1>11

(* Every step of a call keeps its own part. *)
LEMMA CallStaysCurrent ==
    ASSUME MaxInFlight = 1, TypeInv, OwnersExist, Alone, PasswordInv, [Next]_vars, ~Restart,
           NEW r \in Requests, Arrive(r) \/ Proceed(r)
    PROVE  HoldsCurrent(r)'
  <1>1. LocalsOK
    BY DEF TypeInv, TypeOK
  <1>2. ASSUME NEW c \in Calls, NEW j, RefreshStart(r, c, j)
        PROVE  HoldsCurrent(r)'
    <2>1. /\ pc'[r] = "refreshLookup" /\ session'[r] = Retrieve(j)
          /\ refreshTokens' = refreshTokens /\ Retrieve(j) # NoSession
      BY <1>1, <1>2 DEF RefreshStart, storeVars, sessionVars, LocalsOK
    <2>2. QED
      BY <2>1 DEF HoldsCurrent, Retrieve
  <1>3. ASSUME SignUpCreate(r)
        PROVE  HoldsCurrent(r)'
    <2>1. /\ pc'[r] = "signUpCreate" /\ user'[r] = Len(users) + 1 /\ call' = call
      BY <1>1, <1>3 DEF SignUpCreate, Await, LookUp, argVars, LocalsOK
    <2>2. users \in Seq(User) /\ Len(users) \in Nat
      BY DEF TypeInv, TypeOK, StoresOK, UsersTypeOK
    <2>3. PICK u : users' = Append(users, u) /\ u.password = Hashed(call[r].password)
      BY <1>3 DEF SignUpCreate, Create
    <2>4. users'[Len(users) + 1] = u
      BY <2>2, <2>3
    <2>5. QED
      BY <2>1, <2>3, <2>4 DEF HoldsCurrent
  <1>4. ASSUME LoginVerify(r)
        PROVE  HoldsCurrent(r)'
    <2>1. /\ pc'[r] = "loginVerify" /\ user' = user /\ users' = users
          /\ verifying'[r].basis = users[user[r]].password
      BY <1>1, <1>4 DEF LoginVerify, Await, Verify, LocalsOK
    <2>2. QED
      BY <2>1 DEF HoldsCurrent
  <1>5. ASSUME ~SignUpCreate(r), ~LoginVerify(r),
               \A c \in Calls, j \in signed \cup {NoJwt} : ~RefreshStart(r, c, j)
        PROVE  HoldsCurrent(r)'
    <2>1. pc'[r] \notin {"signUpCreate", "loginVerify", "refreshLookup"}
      BY <1>1, <1>5 DEF LocalsOK, Arrive, LoginStart, SignUpStart, ForgotStart,
         ResetStart, ChangeStart, RefreshInvalid, Logout, Proceed,
         LoginLookup, LoginUnknown, LoginMismatch, LoginSucceed,
         SignUpConflict, SignUpHash, SignUpSucceed, ForgotUnknown,
         ForgotIssue, ForgotSent, ResetRefuse, ResetExpire, ResetAccept, ResetUpdate,
         ResetSucceed, ChangeRefuse, ChangeVerify, ChangeMismatch, ChangeHash, ChangeUpdate,
         ChangeSucceed, RefreshRotate, CryptoFails, Await, Answer
    <2>2. QED
      BY <2>1 DEF HoldsCurrent
  <1>6. QED
    BY <1>2, <1>3, <1>4, <1>5

(* A password is replaced, and the sessions it opened revoked, before the  *)
(* next call arrives.                                                      *)
LEMMA PasswordInvStep ==
    ASSUME MaxInFlight = 1, TypeInv, OwnersExist, Alone, PasswordInv, [Next]_vars
    PROVE  PasswordInv'
  <1>1. CASE Restart
    <2>1. /\ refreshTokens' = {}
          /\ \A q \in Requests : pc'[q] \notin {"signUpCreate", "loginVerify", "refreshLookup"}
      BY <1>1 DEF Restart, Awaits
    <2>2. QED
      BY <2>1 DEF PasswordInv, SessionsProveCurrentPassword, HoldsCurrent
  <1>2. CASE TimePasses \/ UNCHANGED vars
    <2>1. UNCHANGED <<users, refreshTokens, pc, call, user, session, verifying>>
      BY <1>2 DEF TimePasses, vars, storeVars, sessionVars, argVars, SameLocals
    <2>2. QED
      BY <2>1 DEF PasswordInv, SessionsProveCurrentPassword, HoldsCurrent, Updating
  <1>3. ASSUME ~Restart, NEW r \in Requests, Arrive(r) \/ Proceed(r)
        PROVE  PasswordInv'
    <2>1. \A q \in Requests \ {r} : HoldsCurrent(q)'
      BY <1>3, NobodyElse DEF HoldsCurrent, Awaits
    <2>2. QED
      BY <1>3, <2>1, SessionsStayCurrent, CallStaysCurrent DEF PasswordInv
  <1>4. QED
    BY <1>1, <1>2, <1>3 DEF Next

(* One call at a time, a password that was replaced opens nothing any      *)
(* more: every session of the store was opened with its user's present     *)
(* password, but for the step between a replacement and its revocation.    *)
THEOREM SessionsAreCurrent ==
    ASSUME MaxInFlight = 1 PROVE Spec => []SessionsProveCurrentPassword
  <1>1. Init => PasswordInv
    BY DEF Init, SessionsInit, PasswordInv, SessionsProveCurrentPassword, HoldsCurrent
  <1>2. TypeInv /\ OwnersExist /\ Alone /\ PasswordInv /\ [Next]_vars => PasswordInv'
    BY PasswordInvStep
  <1>3. PasswordInv => SessionsProveCurrentPassword
    BY DEF PasswordInv
  <1>4. Spec => []Alone
    BY AloneHolds
  <1>5. QED
    BY <1>1, <1>2, <1>3, <1>4, TypeInvHolds, OwnersAreThere, PTL DEF Spec
==============================================================================

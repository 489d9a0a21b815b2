--------------------------- MODULE Credentials_proofs ---------------------------
(***************************************************************************)
(* What AuthService hands out.  Reset tokens: OnlyLatestResetActive, which *)
(* is inductive over the types; the refinement of OneTimeTokens, which     *)
(* rests on it; OwnersExist, whose tokens and sessions they are; and       *)
(* SpentResetStaysSpent, which rests on that.  Sessions: within a process  *)
(* lifetime a JWT stands for one session (JwtResolvesToItsSession) and,    *)
(* once logged out or exchanged, for none (SpentJwtStaysDead).             *)
(***************************************************************************)
EXTENDS AuthService_proofs

(* The steps that write the reset tokens; all others leave them alone.     *)
WritesResets(r) ==
    ForgotIssue(r) \/ ResetExpire(r) \/ ResetSucceed(r) \/ ChangeSucceed(r)

(* Any other step leaves the array as it is. *)
LEMMA ResetsUntouched ==
    ASSUME [Next]_vars, ~Restart, \A r \in Requests : ~WritesResets(r)
    PROVE  UNCHANGED passwordResetTokens
  <1>1. ASSUME NEW r \in Requests, Arrive(r)
        PROVE  UNCHANGED passwordResetTokens
    BY <1>1 DEF Arrive, LoginStart, SignUpStart, ForgotStart, ResetStart, ChangeStart,
                RefreshInvalid, RefreshStart, Logout, storeVars
  <1>2. ASSUME NEW r \in Requests, Proceed(r)
        PROVE  UNCHANGED passwordResetTokens
    BY <1>2 DEF Proceed, WritesResets, LoginLookup, LoginUnknown, LoginVerify,
                LoginMismatch, LoginSucceed, SignUpConflict, SignUpHash, SignUpCreate,
                SignUpSucceed, ForgotUnknown, ForgotSent, ResetRefuse, ResetAccept,
                ResetUpdate, ChangeRefuse, ChangeVerify, ChangeMismatch, ChangeHash,
                ChangeUpdate, RefreshRotate, CryptoFails, storeVars
  <1>3. QED
    BY <1>1, <1>2 DEF Next, TimePasses, vars, storeVars

(* What a write does to the tokens it finds: none becomes active, and none *)
(* changes owner.                                                          *)
LEMMA DeactivatedTokens ==
    ASSUME ResetsTypeOK, NEW u \in Nat
    PROVE  /\ DOMAIN Deactivated(passwordResetTokens, u) = DOMAIN passwordResetTokens
           /\ \A t \in DOMAIN passwordResetTokens :
                /\ Deactivated(passwordResetTokens, u)[t].userId = passwordResetTokens[t].userId
                /\ Deactivated(passwordResetTokens, u)[t].active
                       => passwordResetTokens[t].active /\ passwordResetTokens[t].userId # u
  <1>1. \A t \in DOMAIN passwordResetTokens : passwordResetTokens[t] \in ResetToken
    BY ElementOfSeq, LenProperties DEF ResetsTypeOK
  <1>2. ASSUME NEW t \in ResetToken
        PROVE  /\ [t EXCEPT !.active = FALSE].userId = t.userId
               /\ ~[t EXCEPT !.active = FALSE].active
    BY DEF ResetToken
  <1>3. QED
    BY <1>1, <1>2 DEF Deactivated

(* Each of the four kinds of write keeps the older tokens inactive. *)
LEMMA LatestStep ==
    ASSUME TypeInv, OnlyLatestResetActive, [Next]_vars
    PROVE  OnlyLatestResetActive'
  <1> DEFINE P == passwordResetTokens
  <1>1. ResetsTypeOK /\ P \in Seq(ResetToken) /\ DOMAIN P = 1 .. Len(P) /\ Len(P) \in Nat
    BY LenProperties DEF TypeInv, TypeOK, StoresOK, ResetsTypeOK
  <1>2. ASSUME NEW u \in Nat, P' = Deactivated(P, u)
        PROVE  OnlyLatestResetActive'
    BY <1>1, <1>2, DeactivatedTokens DEF OnlyLatestResetActive
  <1>3. CASE Restart
    BY <1>3 DEF Restart, OnlyLatestResetActive
  <1>4. ASSUME NEW r \in Requests, ForgotIssue(r)
        PROVE  OnlyLatestResetActive'
    <2> DEFINE D == Deactivated(P, UserIdOf(r))
    <2>1. UserIdOf(r) \in Nat
      BY <1>4, UserTyped DEF ForgotIssue, UserIdOf, User
    <2>2. PICK x : P' = Append(D, x) /\ x.userId = UserIdOf(r)
      BY <1>4 DEF ForgotIssue, IssuePasswordReset
    <2>3. D \in Seq(ResetToken) /\ Len(D) = Len(P) /\ DOMAIN D = 1 .. Len(P)
      BY <1>1, <2>1, DeactivatedTyped, LenProperties
    <2>4. /\ \A t \in 1 .. Len(P) : D[t].userId = P[t].userId
          /\ \A t \in 1 .. Len(P) : D[t].active => P[t].active /\ P[t].userId # UserIdOf(r)
      BY <1>1, <2>1, DeactivatedTokens
    <2> HIDE DEF D
    <2>5. /\ DOMAIN P' = 1 .. Len(P) + 1
          /\ \A t \in 1 .. Len(P) : P'[t] = D[t]
          /\ P'[Len(P) + 1] = x
      BY <1>1, <2>2, <2>3
    <2>6. ASSUME NEW i \in DOMAIN P', NEW j \in DOMAIN P', i < j, P'[i].userId = P'[j].userId
          PROVE  ~P'[i].active
      <3>1. i \in 1 .. Len(P) /\ P'[i] = D[i]
        BY <1>1, <2>5, <2>6
      <3>2. CASE j = Len(P) + 1
        BY <2>2, <2>4, <2>5, <2>6, <3>1, <3>2
      <3>3. CASE j \in 1 .. Len(P)
        BY <1>1, <2>4, <2>5, <2>6, <3>1, <3>3 DEF OnlyLatestResetActive
      <3>4. QED
        BY <1>1, <2>5, <3>2, <3>3
    <2>7. QED
      BY <2>6 DEF OnlyLatestResetActive
  <1>5. ASSUME NEW r \in Requests, ResetSucceed(r) \/ ChangeSucceed(r)
        PROVE  OnlyLatestResetActive'
    <2>1. UserIdOf(r) \in Nat
      BY <1>5, UserTyped DEF ResetSucceed, ChangeSucceed, TypeInv, CallsOK, CallOK,
                             HoldsUser, UserIdOf, User
    <2>2. QED
      BY <1>2, <1>5, <2>1 DEF ResetSucceed, ChangeSucceed, DeactivateActivePasswordResets
  <1>6. ASSUME NEW r \in Requests, ResetExpire(r)
        PROVE  OnlyLatestResetActive'
    <2>1. PICK t \in DOMAIN P : P' = [P EXCEPT ![t].active = FALSE]
      BY <1>6 DEF ResetExpire, ResetTokenAccepted, ResetTokenMatches
    <2>2. \A i \in DOMAIN P : P[i] \in ResetToken
      BY <1>1, ElementOfSeq
    <2>3. ASSUME NEW i \in DOMAIN P
          PROVE  P'[i].userId = P[i].userId /\ (P'[i].active => P[i].active)
      BY <2>1, <2>2 DEF ResetToken
    <2>4. DOMAIN P' = DOMAIN P
      BY <2>1
    <2>5. QED
      BY <2>3, <2>4 DEF OnlyLatestResetActive
  <1>7. CASE ~Restart /\ \A r \in Requests : ~WritesResets(r)
    BY <1>7, ResetsUntouched DEF OnlyLatestResetActive
  <1>8. QED
    BY <1>3, <1>4, <1>5, <1>6, <1>7 DEF WritesResets

(* However forgotPassword, resetPassword and changePassword overlap, only  *)
(* the newest reset token of a user can be active.                         *)
THEOREM LatestResetOnly == Spec => []OnlyLatestResetActive
  <1>1. Init => OnlyLatestResetActive
    BY DEF Init, ResetsInit, OnlyLatestResetActive
  <1>2. TypeInv /\ OnlyLatestResetActive /\ [Next]_vars => OnlyLatestResetActive'
    BY LatestStep
  <1>3. Spec => []TypeInv
    BY TypeInvHolds
  <1>4. QED
    BY <1>1, <1>2, <1>3, PTL DEF Spec
------------------------------------------------------------------------------
(* ResetTokensKept *)

(* The refinement mapping. *)
Owners == [i \in DOMAIN passwordResetTokens |-> passwordResetTokens[i].userId]
Usable == {i \in DOMAIN passwordResetTokens : passwordResetTokens[i].active}

(* When OnlyLatestResetActive holds, deactivating a user's tokens is to    *)
(* withdraw the one that is active, or to do nothing.                      *)
LEMMA DeactivationMaps ==
    ASSUME ResetsTypeOK, OnlyLatestResetActive, NEW u \in Nat,
           passwordResetTokens' = Deactivated(passwordResetTokens, u)
    PROVE  /\ Owners' = Owners
           /\ Usable' = Usable \/ \E i \in Usable : Usable' = Usable \ {i}
  <1> DEFINE P == passwordResetTokens
             M == {i \in Usable : P[i].userId = u}
  <1>1. DOMAIN P = 1 .. Len(P) /\ Len(P) \in Nat /\ \A i \in DOMAIN P : P[i] \in ResetToken
    BY ElementOfSeq, LenProperties DEF ResetsTypeOK
  <1>2. DOMAIN P' = DOMAIN P /\ \A i \in DOMAIN P : P'[i].userId = P[i].userId
    BY DeactivatedTokens
  <1>3. Owners' = Owners
    BY <1>2 DEF Owners
  <1>4. Usable' = Usable \ M
    <2>1. ASSUME NEW i \in DOMAIN P
          PROVE  P'[i].active <=> P[i].active /\ P[i].userId # u
      <3>1. P'[i] = IF P[i].userId = u THEN [P[i] EXCEPT !.active = FALSE] ELSE P[i]
        BY DEF Deactivated
      <3>2. [P[i] EXCEPT !.active = FALSE].active = FALSE
        BY <1>1 DEF ResetToken
      <3>3. QED
        BY <3>1, <3>2
    <2>2. QED
      BY <1>2, <2>1 DEF Usable
  <1>5. \A i, j \in M : i = j
    <2>1. SUFFICES ASSUME NEW i \in M, NEW j \in M, i < j
                   PROVE  FALSE
      BY <1>1 DEF Usable
    <2>2. QED
      BY <2>1 DEF OnlyLatestResetActive, Usable
  <1>6. QED
    <2>1. CASE M = {}
      BY <1>3, <1>4, <2>1
    <2>2. CASE M # {}
      <3>1. PICK i \in M : TRUE
        BY <2>2
      <3>2. M = {i} /\ i \in Usable
        BY <1>5, <3>1
      <3>3. QED
        BY <1>3, <1>4, <3>2
    <2>3. QED
      BY <2>1, <2>2

(* forgotPassword's push is the abstract issue, for the user looked up.    *)
LEMMA IssueMaps ==
    ASSUME TypeInv, NEW r \in Requests, ForgotIssue(r)
    PROVE  ResetTokens!Issue
  <1> DEFINE P == passwordResetTokens
             u == UserIdOf(r)
             D == Deactivated(P, u)
             n == Len(P)
  <1>1. P \in Seq(ResetToken) /\ DOMAIN P = 1 .. n /\ n \in Nat /\ ResetsTypeOK
    BY LenProperties DEF TypeInv, TypeOK, StoresOK, ResetsTypeOK
  <1>2. u \in Nat
    BY UserTyped DEF ForgotIssue, UserIdOf, User
  <1>3. PICK x : P' = Append(D, x) /\ x.userId = u /\ x.active = TRUE
    BY DEF ForgotIssue, IssuePasswordReset
  <1>4. D \in Seq(ResetToken) /\ Len(D) = n
    BY <1>1, <1>2, DeactivatedTyped
  <1>5. /\ DOMAIN P' = 1 .. n + 1
        /\ \A i \in 1 .. n : P'[i] = D[i]
        /\ P'[n + 1] = x
    BY <1>1, <1>3, <1>4
  <1>6. \A i \in 1 .. n : /\ D[i].userId = P[i].userId
                          /\ D[i].active <=> P[i].active /\ P[i].userId # u
    <2>1. ASSUME NEW i \in 1 .. n
          PROVE  /\ D[i].userId = P[i].userId
                 /\ D[i].active <=> P[i].active /\ P[i].userId # u
      <3>1. D[i] = IF P[i].userId = u THEN [P[i] EXCEPT !.active = FALSE] ELSE P[i]
        BY <1>1 DEF Deactivated
      <3>2. P[i] \in ResetToken
        BY <1>1, <2>1, ElementOfSeq
      <3>3. /\ [P[i] EXCEPT !.active = FALSE].active = FALSE
            /\ [P[i] EXCEPT !.active = FALSE].userId = P[i].userId
        BY <3>2 DEF ResetToken
      <3>4. QED
        BY <3>1, <3>3
    <2>2. QED
      BY <2>1
  <1>7. Owners \in Seq(Nat) /\ Len(Owners) = n /\ \A i \in 1 .. n : Owners[i] = P[i].userId
    <2>1. ASSUME NEW i \in 1 .. n
          PROVE  P[i].userId \in Nat
      <3>1. P[i] \in ResetToken
        BY <1>1, ElementOfSeq
      <3>2. QED
        BY <3>1 DEF ResetToken
    <2>2. Owners \in [1 .. n -> Nat]
      BY <1>1, <2>1 DEF Owners
    <2>3. QED
      BY <1>1, <2>2, SeqDef, LenProperties DEF Owners
  <1> HIDE DEF D, u, n
  <1>8. /\ Owners' = [i \in 1 .. n + 1 |-> IF i = n + 1 THEN u ELSE P[i].userId]
        /\ Owners' = Append(Owners, u)
    <2>1. Owners' = [i \in 1 .. n + 1 |-> IF i = n + 1 THEN u ELSE P[i].userId]
      BY <1>1, <1>3, <1>5, <1>6 DEF Owners
    <2>2. /\ Owners' \in [1 .. n + 1 -> Nat]
          /\ n + 1 \in Nat
          /\ \A i \in 1 .. n : Owners'[i] = Owners[i]
          /\ Owners'[n + 1] = u
      <3>1. \A i \in 1 .. n : P[i].userId \in Nat
        BY <1>7, ElementOfSeq
      <3>2. QED
        BY <1>1, <1>2, <1>7, <2>1, <3>1
    <2>3. Owners' \in Seq(Nat) /\ Len(Owners') = n + 1
      BY <2>2, SeqDef, LenProperties
    <2>4. /\ Append(Owners, u) \in Seq(Nat) /\ Len(Append(Owners, u)) = n + 1
          /\ \A i \in 1 .. n : Append(Owners, u)[i] = Owners[i]
          /\ Append(Owners, u)[n + 1] = u
      BY <1>2, <1>7, AppendProperties
    <2>5. \A i \in 1 .. n + 1 : Owners'[i] = Append(Owners, u)[i]
      BY <1>1, <2>2, <2>4
    <2>6. Owners' = Append(Owners, u)
      BY <2>3, <2>4, <2>5, SeqEqual
    <2>7. QED
      BY <2>1, <2>6
  <1>9. Len(Owners') = n + 1 /\ Owners'[n + 1] = u /\ DOMAIN Owners' = 1 .. n + 1
    BY <1>1, <1>2, <1>7, <1>8
  <1>10. Usable' = {i \in Usable : Owners[i] # u} \cup {n + 1}
    BY <1>1, <1>3, <1>5, <1>6, <1>7 DEF Usable
  <1>11. QED
    BY <1>1, <1>8, <1>9, <1>10 DEF ResetTokens!Issue, Owners, Usable

(* Every step of the service is a step of OneTimeTokens, or none.          *)
LEMMA StepMaps ==
    ASSUME TypeInv, OnlyLatestResetActive, [Next]_vars
    PROVE  [ResetTokens!TokensNext]_(ResetTokens!tokenVars)
  <1> DEFINE P == passwordResetTokens
  <1> USE DEF ResetTokens!TokensNext, ResetTokens!tokenVars
  <1>1. ResetsTypeOK
    BY DEF TypeInv, TypeOK, StoresOK
  <1>2. CASE Restart
    BY <1>2 DEF Restart, ResetTokens!LoseAll
  <1>3. ASSUME NEW r \in Requests, ForgotIssue(r)
        PROVE  ResetTokens!Issue
    BY <1>3, IssueMaps
  <1>4. ASSUME NEW r \in Requests, ResetSucceed(r) \/ ChangeSucceed(r)
        PROVE  [ResetTokens!TokensNext]_(ResetTokens!tokenVars)
    <2>1. UserIdOf(r) \in Nat
      BY <1>4, UserTyped DEF ResetSucceed, ChangeSucceed, TypeInv, CallsOK, CallOK,
                             HoldsUser, UserIdOf, User
    <2>2. P' = Deactivated(P, UserIdOf(r))
      BY <1>4 DEF ResetSucceed, ChangeSucceed, DeactivateActivePasswordResets
    <2>3. /\ Owners' = Owners
          /\ Usable' = Usable \/ \E i \in Usable : Usable' = Usable \ {i}
      BY <1>1, <2>1, <2>2, DeactivationMaps
    <2>4. QED
      BY <2>3 DEF ResetTokens!Withdraw, Owners, Usable
  <1>5. ASSUME NEW r \in Requests, ResetExpire(r)
        PROVE  ResetTokens!Withdraw
    <2>1. PICK t \in DOMAIN P : P[t].active /\ P' = [P EXCEPT ![t].active = FALSE]
      BY <1>5 DEF ResetExpire, ResetTokenAccepted, ResetTokenMatches
    <2>2. \A i \in DOMAIN P : P[i] \in ResetToken
      BY <1>1, ElementOfSeq, LenProperties DEF ResetsTypeOK
    <2>3. ASSUME NEW i \in DOMAIN P
          PROVE  P'[i].userId = P[i].userId /\ (P'[i].active <=> P[i].active /\ i # t)
      BY <2>1, <2>2 DEF ResetToken
    <2>4. DOMAIN P' = DOMAIN P
      BY <2>1
    <2>5. Owners' = Owners /\ Usable' = Usable \ {t} /\ t \in Usable
      BY <2>1, <2>3, <2>4 DEF Owners, Usable
    <2>6. QED
      BY <2>5 DEF ResetTokens!Withdraw, Owners, Usable
  <1>6. CASE ~Restart /\ \A r \in Requests : ~WritesResets(r)
    <2>1. P' = P
      BY <1>6, ResetsUntouched
    <2>2. QED
      BY <2>1
  <1>7. QED
    BY <1>2, <1>3, <1>4, <1>5, <1>6 DEF WritesResets

(* The reset tokens of AuthService implement OneTimeTokens: no overlap of  *)
(* its methods, and no restart, makes a token usable again once it was     *)
(* superseded, used, expired or withdrawn.                                 *)
THEOREM ResetTokensRefine == Spec => ResetTokensKept
  <1>1. Init => ResetTokens!TokensInit
    BY DEF Init, ResetsInit, ResetTokens!TokensInit
  <1>2. TypeInv /\ OnlyLatestResetActive /\ [Next]_vars
            => [ResetTokens!TokensNext]_(ResetTokens!tokenVars)
    BY StepMaps
  <1>3. Spec => []TypeInv
    BY TypeInvHolds
  <1>4. Spec => []OnlyLatestResetActive
    BY LatestResetOnly
  <1>5. QED
    BY <1>1, <1>2, <1>3, <1>4, PTL DEF Spec, ResetTokensKept, ResetTokens!TokensSpec
------------------------------------------------------------------------------
(* OwnersExist is inductive over the types. *)

(* The table only grows, and keeps ids and emails. *)
TableKept == /\ Len(users') \in Nat /\ Len(users') >= Len(users)
             /\ \A i \in DOMAIN users : users'[i].email = users[i].email
             /\ \A i \in DOMAIN users' : users'[i].id = i - 1

(* In such a table the user a call refers to has the id of its position,   *)
(* and every smaller id has a user.                                        *)
LEMMA IdsArePositions ==
    ASSUME TypeInv, OwnersExist
    PROVE  /\ \A r \in Requests : user[r] # 0 =>
                 /\ UserIdOf(r) = user[r] - 1 /\ UserIdOf(r) \in Nat
                 /\ UserIdOf(r) < Len(users)
           /\ \A id \in Nat : id < Len(users) => FindOne(id) # 0
           /\ Len(users) \in Nat /\ DOMAIN users = 1 .. Len(users)
  <1>1. UsersTypeOK /\ Len(users) \in Nat /\ DOMAIN users = 1 .. Len(users)
    BY LenProperties DEF TypeInv, TypeOK, StoresOK, UsersTypeOK
  <1>2. ASSUME NEW r \in Requests, user[r] # 0
        PROVE  UserIdOf(r) = user[r] - 1 /\ UserIdOf(r) \in Nat /\ UserIdOf(r) < Len(users)
    <2>1. user[r] \in 1 .. Len(users)
      BY <1>1, <1>2, UserTyped
    <2>2. QED
      BY <1>1, <2>1 DEF OwnersExist, UserIdOf
  <1>3. ASSUME NEW id \in Nat, id < Len(users)
        PROVE  FindOne(id) # 0
    <2>1. id + 1 \in DOMAIN users /\ users[id + 1].id = id
      BY <1>1, <1>3 DEF OwnersExist
    <2>2. QED
      BY <1>1, <2>1, FindOneFinds
  <1>4. QED
    BY <1>1, <1>2, <1>3

(* Three steps write the table, and a restart. *)
LEMMA TableUntouched ==
    ASSUME [Next]_vars, ~Restart,
           \A r \in Requests : ~SignUpCreate(r) /\ ~ResetUpdate(r) /\ ~ChangeUpdate(r)
    PROVE  users' = users
  <1>1. ASSUME NEW r \in Requests, Arrive(r)
        PROVE  users' = users
    BY <1>1 DEF Arrive, LoginStart, SignUpStart, ForgotStart, ResetStart, ChangeStart,
                RefreshInvalid, RefreshStart, Logout
  <1>2. ASSUME NEW r \in Requests, Proceed(r)
        PROVE  users' = users
    BY <1>2 DEF Proceed, LoginLookup, LoginUnknown, LoginVerify, LoginMismatch, LoginSucceed,
       SignUpConflict, SignUpHash, SignUpSucceed, ForgotUnknown, ForgotIssue, ForgotSent,
       ResetRefuse, ResetExpire, ResetAccept, ResetSucceed, ChangeRefuse, ChangeVerify,
       ChangeMismatch, ChangeHash, ChangeSucceed, RefreshRotate, CryptoFails
  <1>3. QED
    BY <1>1, <1>2 DEF Next, TimePasses, vars

(* No step but a restart takes a user, an id or an email back. *)
LEMMA TableSteps ==
    ASSUME TypeInv, OwnersExist, [Next]_vars, ~Restart
    PROVE  TableKept
  <1>1. /\ StoresOK /\ UsersTypeOK /\ users \in Seq(User)
        /\ Len(users) \in Nat /\ DOMAIN users = 1 .. Len(users)
        /\ \A i \in DOMAIN users : users[i].id = i - 1 /\ users[i] \in User
    BY IdsArePositions, ElementOfSeq DEF TypeInv, TypeOK, StoresOK, UsersTypeOK, OwnersExist
  <1>2. CASE users' = users
    BY <1>1, <1>2 DEF TableKept
  <1>3. ASSUME NEW r \in Requests, SignUpCreate(r)
        PROVE  TableKept
    <2>1. PICK u : users' = Append(users, u) /\ u.id = Len(users) /\ u \in User
      <3> DEFINE n == IF users = <<>> THEN 0 ELSE users[Len(users)].id + 1
                 v == [id |-> n, email |-> EmailOf(r), password |-> Hashed(call[r].password)]
      <3>1. n = Len(users)
        BY <1>1
      <3>2. EmailOf(r) \in Emails /\ Hashed(call[r].password) \in Password
        BY <1>3, CallTyped DEF SignUpCreate, Awaits, Call, Hashed, Password
      <3>3. v \in User /\ v.id = n
        BY <1>1, <3>1, <3>2 DEF User
      <3>4. users' = Append(users, v)
        BY <1>3 DEF SignUpCreate, Create
      <3> HIDE DEF v
      <3>5. QED
        BY <3>1, <3>3, <3>4
    <2>2. QED
      BY <1>1, <2>1 DEF TableKept
  <1>4. ASSUME NEW r \in Requests, ResetUpdate(r) \/ ChangeUpdate(r)
        PROVE  TableKept
    <2> DEFINE k == FindOne(UserIdOf(r))
               p == Hashed(call[r].newPassword)
    <2>1. \/ users' = users
          \/ k \in DOMAIN users /\ users' = [users EXCEPT ![k].password = p]
      <3>1. k \in 0 .. Len(users)
        BY <1>1, FindOneFinds
      <3>2. UpdatePassword(UserIdOf(r), p)
        BY <1>4 DEF ResetUpdate, ChangeUpdate
      <3> HIDE DEF p
      <3>3. QED
        BY <1>1, <3>1, <3>2 DEF UpdatePassword
    <2> HIDE DEF k, p
    <2>2. ASSUME k \in DOMAIN users, users' = [users EXCEPT ![k].password = p]
          PROVE  TableKept
      <3>1. DOMAIN users' = DOMAIN users /\ Len(users') = Len(users)
        BY <1>1, <2>2
      <3>2. ASSUME NEW i \in DOMAIN users
            PROVE  users'[i].id = users[i].id /\ users'[i].email = users[i].email
        BY <1>1, <2>2, <3>2 DEF User
      <3>3. QED
        BY <1>1, <3>1, <3>2 DEF TableKept
    <2>3. QED
      BY <1>2, <2>1, <2>2
  <1>5. QED
    BY <1>2, <1>3, <1>4, TableUntouched

(* The sessions of the store: kept, or opened for a user of the table.     *)
LEMMA SessionOwners ==
    ASSUME TypeInv, OwnersExist, [Next]_vars, ~Restart, NEW s \in refreshTokens'
    PROVE  s.userId \in Nat /\ s.userId < Len(users)
  <1>1. \A t \in refreshTokens : t.userId \in Nat /\ t.userId < Len(users)
    BY DEF TypeInv, TypeOK, StoresOK, SessionsTypeOK, Session, OwnersExist
  <1>2. CASE s \in refreshTokens
    BY <1>1, <1>2
  <1>3. ASSUME NEW r \in Requests, LoginSucceed(r) \/ SignUpSucceed(r), s \notin refreshTokens
        PROVE  s.userId = UserIdOf(r) /\ user[r] # 0
    BY <1>3 DEF LoginSucceed, SignUpSucceed, NewRefreshAndAccessToken, OpenSession,
                TypeInv, CallsOK, CallOK, HoldsUser
  <1>4. ASSUME NEW r \in Requests, RefreshRotate(r), s \notin refreshTokens
        PROVE  s.userId = session[r].userId /\ session[r] \in Session /\ pc[r] = "refreshLookup"
    BY <1>4 DEF RefreshRotate, RotateForDevice, OpenSession, sessionVars, TypeInv, CallsOK, CallOK
  <1>5. ASSUME NEW r \in Requests, Arrive(r)
        PROVE  refreshTokens' \subseteq refreshTokens
    BY <1>5 DEF Arrive, LoginStart, SignUpStart, ForgotStart, ResetStart, ChangeStart,
                RefreshInvalid, RefreshStart, Logout, storeVars, sessionVars
  <1>6. ASSUME NEW r \in Requests, Proceed(r), ~LoginSucceed(r), ~SignUpSucceed(r),
               ~RefreshRotate(r)
        PROVE  refreshTokens' \subseteq refreshTokens
    BY <1>6 DEF Proceed, LoginLookup, LoginUnknown, LoginVerify, LoginMismatch,
       SignUpConflict, SignUpHash, SignUpCreate, ForgotUnknown, ForgotIssue, ForgotSent,
       ResetRefuse, ResetExpire, ResetAccept, ResetUpdate, ResetSucceed, ChangeRefuse,
       ChangeVerify, ChangeMismatch, ChangeHash, ChangeUpdate, ChangeSucceed, CryptoFails,
       RevokeAllUserRefreshTokens, storeVars, sessionVars
  <1>7. CASE s \notin refreshTokens
    <2>1. \E r \in Requests : LoginSucceed(r) \/ SignUpSucceed(r) \/ RefreshRotate(r)
      BY <1>5, <1>6, <1>7 DEF Next, TimePasses, vars, storeVars, sessionVars
    <2>2. QED
      BY <1>3, <1>4, <1>7, <2>1, IdsArePositions DEF OwnersExist, Session
  <1>8. QED
    BY <1>2, <1>7

(* The tokens stay whose they are, and none becomes active. *)
SameResets ==
    /\ Len(passwordResetTokens') = Len(passwordResetTokens)
    /\ DOMAIN passwordResetTokens' = DOMAIN passwordResetTokens
    /\ \A t \in DOMAIN passwordResetTokens :
          /\ passwordResetTokens'[t].userId = passwordResetTokens[t].userId
          /\ passwordResetTokens'[t].email = passwordResetTokens[t].email
          /\ passwordResetTokens'[t].active => passwordResetTokens[t].active

(* No step but a restart drops a reset token, and every new one is issued  *)
(* for the user that forgotPassword has looked up.                         *)
LEMMA ResetsGrow ==
    ASSUME TypeInv, [Next]_vars, ~Restart
    PROVE  /\ Len(passwordResetTokens') \in Nat
           /\ Len(passwordResetTokens') >= Len(passwordResetTokens)
           /\ \A t \in DOMAIN passwordResetTokens :
                /\ t \in DOMAIN passwordResetTokens'
                /\ passwordResetTokens'[t].userId = passwordResetTokens[t].userId
                /\ passwordResetTokens'[t].email = passwordResetTokens[t].email
                /\ passwordResetTokens'[t].active => passwordResetTokens[t].active
           /\ \A t \in DOMAIN passwordResetTokens' \ DOMAIN passwordResetTokens :
                \E r \in Requests :
                  /\ ForgotIssue(r) /\ user[r] # 0
                  /\ passwordResetTokens'[t].userId = UserIdOf(r)
                  /\ passwordResetTokens'[t].email = users[user[r]].email
  <1> DEFINE P == passwordResetTokens
  <1>1. /\ ResetsTypeOK /\ P \in Seq(ResetToken) /\ DOMAIN P = 1 .. Len(P) /\ Len(P) \in Nat
        /\ \A t \in DOMAIN P : P[t] \in ResetToken
    BY LenProperties, ElementOfSeq DEF TypeInv, TypeOK, StoresOK, ResetsTypeOK
  <1>2. ASSUME NEW u \in Nat
        PROVE  /\ Deactivated(P, u) \in Seq(ResetToken) /\ Len(Deactivated(P, u)) = Len(P)
               /\ DOMAIN Deactivated(P, u) = 1 .. Len(P)
               /\ \A t \in DOMAIN P :
                    /\ Deactivated(P, u)[t].userId = P[t].userId
                    /\ Deactivated(P, u)[t].email = P[t].email
                    /\ Deactivated(P, u)[t].active => P[t].active
    <2>1. \A t \in DOMAIN P : [P[t] EXCEPT !.active = FALSE].email = P[t].email
      BY <1>1 DEF ResetToken
    <2>2. \A t \in DOMAIN P : Deactivated(P, u)[t].email = P[t].email
      BY <1>1, <2>1 DEF Deactivated
    <2>3. QED
      BY <1>1, <2>2, DeactivatedTyped, DeactivatedTokens
  <1>3. CASE UNCHANGED P
    BY <1>1, <1>3
  <1>4. ASSUME NEW r \in Requests, ResetSucceed(r) \/ ChangeSucceed(r)
        PROVE  SameResets
    <2>1. UserIdOf(r) \in Nat
      BY <1>4, UserTyped DEF ResetSucceed, ChangeSucceed, TypeInv, CallsOK, CallOK,
                             HoldsUser, UserIdOf, User
    <2>2. P' = Deactivated(P, UserIdOf(r))
      BY <1>4 DEF ResetSucceed, ChangeSucceed, DeactivateActivePasswordResets
    <2>3. QED
      BY <1>1, <1>2, <2>1, <2>2 DEF SameResets
  <1>5. ASSUME NEW r \in Requests, ResetExpire(r)
        PROVE  SameResets
    <2>1. PICK k \in DOMAIN P : P' = [P EXCEPT ![k].active = FALSE]
      BY <1>5 DEF ResetExpire, ResetTokenAccepted, ResetTokenMatches
    <2>2. \A t \in DOMAIN P :
             /\ P'[t].userId = P[t].userId
             /\ P'[t].email = P[t].email
             /\ P'[t].active => P[t].active
      BY <1>1, <2>1 DEF ResetToken
    <2>3. Len(P') = Len(P) /\ DOMAIN P' = DOMAIN P
      BY <1>1, <2>1
    <2>4. QED
      BY <2>2, <2>3 DEF SameResets
  <1>6. ASSUME NEW r \in Requests, ForgotIssue(r)
        PROVE  /\ Len(P') = Len(P) + 1 /\ DOMAIN P' = 1 .. Len(P) + 1
               /\ \A t \in DOMAIN P : /\ P'[t].userId = P[t].userId
                                      /\ P'[t].email = P[t].email
                                      /\ P'[t].active => P[t].active
               /\ P'[Len(P) + 1].userId = UserIdOf(r)
               /\ P'[Len(P) + 1].email = users[user[r]].email
               /\ user[r] # 0
    <2>1. UserIdOf(r) \in Nat /\ user[r] # 0
      BY <1>6, UserTyped DEF ForgotIssue, UserIdOf, User
    <2> DEFINE D == Deactivated(P, UserIdOf(r))
    <2>2. PICK x : P' = Append(D, x) /\ x.userId = UserIdOf(r) /\ x.email = users[user[r]].email
      BY <1>6 DEF ForgotIssue, IssuePasswordReset
    <2>3. /\ D \in Seq(ResetToken) /\ Len(D) = Len(P) /\ DOMAIN D = 1 .. Len(P)
          /\ \A t \in DOMAIN P : D[t].userId = P[t].userId /\ D[t].email = P[t].email
                               /\ (D[t].active => P[t].active)
      BY <1>2, <2>1
    <2> HIDE DEF D
    <2>4. /\ Len(P') = Len(P) + 1 /\ DOMAIN P' = 1 .. Len(P) + 1
          /\ \A t \in 1 .. Len(P) : P'[t] = D[t]
          /\ P'[Len(P) + 1] = x
      BY <1>1, <2>2, <2>3
    <2>5. QED
      BY <1>1, <2>1, <2>2, <2>3, <2>4
  <1>7. CASE \E r \in Requests : ForgotIssue(r)
    <2>1. PICK r \in Requests : ForgotIssue(r)
      BY <1>7
    <2>2. DOMAIN P' \ DOMAIN P = {Len(P) + 1}
      BY <1>1, <1>6, <2>1
    <2>3. QED
      BY <1>1, <1>6, <2>1, <2>2
  <1>8. CASE \E r \in Requests : ResetExpire(r) \/ ResetSucceed(r) \/ ChangeSucceed(r)
    <2>1. SameResets
      BY <1>4, <1>5, <1>8
    <2>2. QED
      BY <1>1, <2>1 DEF SameResets
  <1>9. CASE \A r \in Requests : ~WritesResets(r)
    BY <1>3, <1>9, ResetsUntouched
  <1>10. QED
    BY <1>7, <1>8, <1>9 DEF WritesResets

(* Owners stay owners, and what is issued or opened has one.               *)
LEMMA OwnersStep ==
    ASSUME TypeInv, OwnersExist, [Next]_vars
    PROVE  OwnersExist'
  <1>1. CASE Restart
    <2>1. users' = SeedUsers /\ DOMAIN SeedUsers = {1, 2} /\ SeedUsers[1].id = 0 /\ SeedUsers[2].id = 1
      BY <1>1 DEF Restart, SeedUsers
    <2>2. /\ refreshTokens' = {} /\ DOMAIN passwordResetTokens' = {}
          /\ \A r \in Requests : pc'[r] # "refreshLookup"
      BY <1>1 DEF Restart, Awaits
    <2>3. QED
      BY <2>1, <2>2 DEF OwnersExist
  <1>2. CASE ~Restart
    <2> DEFINE P == passwordResetTokens
    <2>1. /\ TableKept /\ Len(users) \in Nat /\ DOMAIN users = 1 .. Len(users)
          /\ Len(users') \in Nat /\ Len(users') >= Len(users)
      BY <1>2, TableSteps, IdsArePositions DEF TableKept
    <2>2. \A i \in DOMAIN users' : users'[i].id = i - 1
      BY <2>1 DEF TableKept
    <2>3. \A s \in refreshTokens' : s.userId < Len(users')
      BY <1>2, <2>1, SessionOwners
    <2>4. ASSUME NEW t \in DOMAIN P'
          PROVE  P'[t].userId < Len(users') /\ P'[t].email = users'[P'[t].userId + 1].email
      <3>1. /\ P'[t].userId \in Nat /\ P'[t].userId < Len(users)
            /\ P'[t].email = users[P'[t].userId + 1].email
        <4>1. CASE t \in DOMAIN P
          <5>1. P[t] \in ResetToken
            BY <4>1, LenProperties, ElementOfSeq DEF TypeInv, TypeOK, StoresOK, ResetsTypeOK
          <5>2. P'[t].userId = P[t].userId /\ P'[t].email = P[t].email
            BY <1>2, <4>1, ResetsGrow
          <5>3. QED
            BY <4>1, <5>1, <5>2 DEF OwnersExist, ResetToken
        <4>2. CASE t \notin DOMAIN P
          <5>1. PICK r \in Requests : /\ user[r] # 0 /\ P'[t].userId = UserIdOf(r)
                                      /\ P'[t].email = users[user[r]].email
            BY <1>2, <4>2, ResetsGrow
          <5>2. UserIdOf(r) = user[r] - 1 /\ UserIdOf(r) \in Nat /\ UserIdOf(r) < Len(users)
                /\ user[r] \in 1 .. Len(users)
            BY <5>1, IdsArePositions, UserTyped
          <5>3. UserIdOf(r) + 1 = user[r]
            BY <2>1, <5>2
          <5>4. QED
            BY <5>1, <5>2, <5>3
        <4>3. QED
          BY <4>1, <4>2
      <3>2. P'[t].userId + 1 \in DOMAIN users
        BY <2>1, <3>1
      <3>3. QED
        BY <2>1, <3>1, <3>2 DEF TableKept
    <2>5. ASSUME NEW r \in Requests, pc'[r] = "refreshLookup"
          PROVE  user'[r] # 0 /\ session'[r].userId < Len(users')
      <3>1. LocalsOK
        BY DEF TypeInv, TypeOK
      <3>2. CASE \E c \in Calls, j \in signed \cup {NoJwt} : RefreshStart(r, c, j)
        <4>1. PICK j : /\ Retrieve(j) # NoSession /\ session'[r] = Retrieve(j)
                       /\ user'[r] = FindOne(Retrieve(j).userId)
          BY <3>1, <3>2 DEF RefreshStart, LocalsOK
        <4>2. Retrieve(j) \in refreshTokens
          BY <4>1 DEF Retrieve
        <4>3. Retrieve(j).userId \in Nat /\ Retrieve(j).userId < Len(users)
          BY <4>2 DEF OwnersExist, TypeInv, TypeOK, StoresOK, SessionsTypeOK, Session
        <4>4. QED
          BY <2>1, <4>1, <4>3, IdsArePositions
      <3>3. CASE pc[r] = "refreshLookup" /\ user'[r] = user[r] /\ session'[r] = session[r]
        <4>1. session[r].userId \in Nat
          BY <3>3 DEF TypeInv, CallsOK, CallOK, Session
        <4>2. QED
          BY <2>1, <3>3, <4>1 DEF OwnersExist
      <3>4. \/ \E c \in Calls, j \in signed \cup {NoJwt} : RefreshStart(r, c, j)
            \/ pc[r] = "refreshLookup" /\ user'[r] = user[r] /\ session'[r] = session[r]
        <4>1. ASSUME NEW q \in Requests, Arrive(q), q # r
              PROVE  pc'[r] = pc[r] /\ user'[r] = user[r] /\ session'[r] = session[r]
          BY <3>1, <4>1 DEF Arrive, LocalsOK, LoginStart, SignUpStart, ForgotStart, ResetStart,
             ChangeStart, RefreshInvalid, RefreshStart, Logout, Called, Answer, Forget, LookUp
        <4>2. ASSUME NEW q \in Requests, Proceed(q), q # r
              PROVE  pc'[r] = pc[r] /\ user'[r] = user[r] /\ session'[r] = session[r]
          BY <3>1, <4>2 DEF Proceed, LocalsOK, LoginLookup, LoginUnknown, LoginVerify,
             LoginMismatch, LoginSucceed, SignUpConflict, SignUpHash, SignUpCreate,
             SignUpSucceed, ForgotUnknown, ForgotIssue, ForgotSent, ResetRefuse, ResetExpire,
             ResetAccept, ResetUpdate, ResetSucceed, ChangeRefuse, ChangeVerify,
             ChangeMismatch, ChangeHash, ChangeUpdate, ChangeSucceed, RefreshRotate,
             CryptoFails, Await, Answer, Forget, LookUp, SameLocals, Verify
        <4>3. ASSUME Arrive(r)
              PROVE  \E c \in Calls, j \in signed \cup {NoJwt} : RefreshStart(r, c, j)
          BY <2>5, <3>1, <4>3 DEF Arrive, LocalsOK, LoginStart, SignUpStart, ForgotStart,
             ResetStart, ChangeStart, RefreshInvalid, Logout, Called, Answer
        <4>4. ~Proceed(r)
          BY <2>5, <3>1 DEF Proceed, LocalsOK, LoginLookup, LoginUnknown, LoginVerify,
             LoginMismatch, LoginSucceed, SignUpConflict, SignUpHash, SignUpCreate,
             SignUpSucceed, ForgotUnknown, ForgotIssue, ForgotSent, ResetRefuse, ResetExpire,
             ResetAccept, ResetUpdate, ResetSucceed, ChangeRefuse, ChangeVerify,
             ChangeMismatch, ChangeHash, ChangeUpdate, ChangeSucceed, RefreshRotate,
             CryptoFails, Await, Answer
        <4>5. QED
          BY <1>2, <2>5, <4>1, <4>2, <4>3, <4>4 DEF Next, TimePasses, vars, SameLocals
      <3>5. QED
        BY <3>2, <3>3, <3>4
    <2>6. QED
      BY <2>2, <2>3, <2>4, <2>5 DEF OwnersExist
  <1>3. QED
    BY <1>1, <1>2

(* What sessions, reset tokens and refreshes in flight say of their owner  *)
(* is true, for any overlap of the methods and any number of restarts.     *)
THEOREM OwnersAreThere == Spec => []OwnersExist
  <1>1. ASSUME Init PROVE OwnersExist
    <2>1. users = SeedUsers /\ DOMAIN SeedUsers = {1, 2} /\ SeedUsers[1].id = 0 /\ SeedUsers[2].id = 1
      BY <1>1 DEF Init, UsersInit, SeedUsers
    <2>2. QED
      BY <1>1, <2>1 DEF Init, SessionsInit, ResetsInit, OwnersExist
  <1>2. Init => OwnersExist
    BY <1>1
  <1>3. TypeInv /\ OwnersExist /\ [Next]_vars => OwnersExist'
    BY OwnersStep
  <1>4. QED
    BY <1>2, <1>3, TypeInvHolds, PTL DEF Spec
------------------------------------------------------------------------------
(* SpentResetStaysSpent *)

ResetAwaits == {"resetLookup", "resetHash", "resetUpdate"}

(* What a call of resetPassword knows of the token it presents: once the   *)
(* token was accepted it is one of the user the call will write, and once  *)
(* the call was answered with success it is inactive.                      *)
ResetCallOK(r) ==
    /\ given[r] \in 0 .. Len(passwordResetTokens)
    /\ pc[r] \in ResetAwaits => call[r].op = "reset"
    /\ pc[r] \in Awaits \ ResetAwaits => call[r].op # "reset"
    /\ pc[r] \in {"resetHash", "resetUpdate"} =>
          given[r] # 0 /\ passwordResetTokens[given[r]].userId = UserIdOf(r)
    /\ call[r].op = "reset" /\ pc[r] = "ok" /\ given[r] # 0 =>
          ~passwordResetTokens[given[r]].active

ResetCalls == \A r \in Requests : ResetCallOK(r)

(* What the arrays keep of what a call knows, while its own part stays.    *)
LEMMA KnownStaysTrue ==
    ASSUME TypeInv, OwnersExist, [Next]_vars, ~Restart, NEW r \in Requests, ResetCallOK(r),
           given'[r] = given[r]
    PROVE  /\ given'[r] \in 0 .. Len(passwordResetTokens')
           /\ given[r] # 0 =>
                /\ passwordResetTokens'[given[r]].userId = passwordResetTokens[given[r]].userId
                /\ passwordResetTokens'[given[r]].active => passwordResetTokens[given[r]].active
           /\ user[r] # 0 /\ user'[r] = user[r] => users'[user'[r]].id = UserIdOf(r)
  <1> DEFINE P == passwordResetTokens
  <1>1. DOMAIN P = 1 .. Len(P) /\ Len(P) \in Nat
    BY LenProperties DEF TypeInv, TypeOK, StoresOK, ResetsTypeOK
  <1>2. given[r] \in 0 .. Len(P) /\ (given[r] # 0 => given[r] \in DOMAIN P)
    BY <1>1 DEF ResetCallOK
  <1>3. given'[r] \in 0 .. Len(P')
    BY <1>1, <1>2, ResetsGrow
  <1>4. given[r] # 0 => /\ P'[given[r]].userId = P[given[r]].userId
                        /\ P'[given[r]].active => P[given[r]].active
    BY <1>2, ResetsGrow
  <1>5. ASSUME user[r] # 0, user'[r] = user[r]
        PROVE  users'[user'[r]].id = UserIdOf(r)
    <2>1. /\ user[r] \in 1 .. Len(users) /\ UserIdOf(r) = user[r] - 1
          /\ Len(users) \in Nat
      BY <1>5, UserTyped, IdsArePositions
    <2>2. user[r] \in DOMAIN users'
      <3>1. Len(users') \in Nat /\ Len(users') >= Len(users)
        BY TableSteps DEF TableKept
      <3>2. DOMAIN users' = 1 .. Len(users')
        <4>1. TypeInv'
          BY NextTyped
        <4>2. users' \in Seq(User)
          BY <4>1 DEF TypeInv, TypeOK, StoresOK, UsersTypeOK
        <4>3. QED
          BY <4>2, LenProperties
      <3>3. QED
        BY <2>1, <3>1, <3>2
    <2>3. QED
      BY <1>5, <2>1, <2>2, TableSteps DEF TableKept
  <1>6. QED
    BY <1>3, <1>4, <1>5

(* A step of the call r, seen from r. *)
LEMMA OwnResetStep ==
    ASSUME TypeInv, OwnersExist, ResetCalls, [Next]_vars, ~Restart, NEW r \in Requests,
           Arrive(r) \/ Proceed(r)
    PROVE  ResetCallOK(r)'
  <1> DEFINE P == passwordResetTokens
  <1>1. LocalsOK /\ ResetCallOK(r) /\ Len(P) \in Nat /\ DOMAIN P = 1 .. Len(P)
    BY LenProperties DEF TypeInv, TypeOK, StoresOK, ResetsTypeOK, ResetCalls
  <1>2. CASE Arrive(r)
    <2>1. ASSUME NEW c \in Calls, NEW t \in 0 .. Len(P), ResetStart(r, c, t)
          PROVE  ResetCallOK(r)'
      BY <1>1, <2>1 DEF ResetStart, Called, LocalsOK, ResetCallOK, ResetAwaits, Awaits, storeVars
    <2>2. ASSUME NEW c \in Calls,
                 \/ LoginStart(r, c) \/ SignUpStart(r, c) \/ ForgotStart(r, c)
                 \/ ChangeStart(r, c)
                 \/ \E j \in signed \cup {NoJwt} :
                       RefreshInvalid(r, c, j) \/ RefreshStart(r, c, j) \/ Logout(r, c, j)
          PROVE  ResetCallOK(r)'
      <3>1. /\ call'[r] = c /\ c.op # "reset" /\ given' = given /\ P' = P
            /\ pc'[r] \notin ResetAwaits
        BY <1>1, <2>2 DEF LoginStart, SignUpStart, ForgotStart, ChangeStart, RefreshInvalid,
           RefreshStart, Logout, Called, Answer, LocalsOK, ResetAwaits, storeVars
      <3>2. QED
        BY <1>1, <3>1 DEF ResetCallOK, ResetAwaits
    <2>3. QED
      BY <1>2, <2>1, <2>2 DEF Arrive
  <1>3. CASE Proceed(r)
    <2>1. call' = call /\ given' = given /\ pc[r] \in Awaits
      BY <1>3 DEF Proceed, LoginLookup, LoginUnknown, LoginVerify,
         LoginMismatch, LoginSucceed, SignUpConflict, SignUpHash, SignUpCreate,
         SignUpSucceed, ForgotUnknown, ForgotIssue, ForgotSent, ResetRefuse, ResetExpire,
         ResetAccept, ResetUpdate, ResetSucceed, ChangeRefuse, ChangeVerify,
         ChangeMismatch, ChangeHash, ChangeUpdate, ChangeSucceed, RefreshRotate,
         CryptoFails, Await, argVars, Awaits
    <2>2. /\ given'[r] \in 0 .. Len(P')
          /\ given[r] # 0 => P'[given[r]].userId = P[given[r]].userId
          /\ user[r] # 0 /\ user'[r] = user[r] => users'[user'[r]].id = UserIdOf(r)
      BY <1>1, <2>1, KnownStaysTrue
    <2>3. CASE ResetAccept(r)
      <3>1. /\ pc'[r] = "resetHash" /\ user' = user /\ users' = users /\ P' = P
            /\ pc[r] = "resetLookup" /\ given[r] \in DOMAIN P
            /\ P[given[r]].userId = UserIdOf(r)
        BY <1>1, <2>3 DEF ResetAccept, Await, SameLocals, storeVars, LocalsOK,
                          ResetTokenAccepted, ResetTokenMatches
      <3>2. QED
        BY <1>1, <2>1, <2>2, <3>1 DEF ResetCallOK, ResetAwaits, Awaits, UserIdOf
    <2>4. CASE ResetUpdate(r)
      <3>1. pc[r] = "resetHash" /\ pc'[r] = "resetUpdate" /\ user' = user /\ user[r] # 0
        BY <1>1, <2>4 DEF ResetUpdate, Await, SameLocals, LocalsOK, TypeInv, CallsOK, CallOK,
                          HoldsUser
      <3>2. QED
        BY <1>1, <2>1, <2>2, <3>1 DEF ResetCallOK, ResetAwaits, Awaits, UserIdOf
    <2>5. CASE ResetSucceed(r)
      <3>1. /\ pc[r] = "resetUpdate" /\ pc'[r] = "ok" /\ P' = Deactivated(P, UserIdOf(r))
            /\ user[r] # 0
        BY <1>1, <2>5 DEF ResetSucceed, Answer, LocalsOK, DeactivateActivePasswordResets,
                          TypeInv, CallsOK, CallOK, HoldsUser
      <3>2. given[r] \in DOMAIN P /\ P[given[r]].userId = UserIdOf(r)
        BY <1>1, <3>1 DEF ResetCallOK
      <3>3. UserIdOf(r) \in Nat
        BY <3>1, IdsArePositions
      <3>4. ~P'[given[r]].active
        BY <3>1, <3>2, <3>3, DeactivatedTokens DEF TypeInv, TypeOK, StoresOK
      <3>5. QED
        BY <2>1, <2>2, <3>1, <3>4 DEF ResetCallOK, ResetAwaits, Awaits
    <2>6. CASE ~ResetAccept(r) /\ ~ResetUpdate(r) /\ ~ResetSucceed(r)
      <3>1. /\ pc'[r] \notin ResetAwaits
            /\ pc[r] \in ResetAwaits => pc'[r] \in {"400", "500"}
        BY <1>1, <1>3, <2>6 DEF Proceed, LoginLookup, LoginUnknown, LoginVerify,
           LoginMismatch, LoginSucceed, SignUpConflict, SignUpHash, SignUpCreate,
           SignUpSucceed, ForgotUnknown, ForgotIssue, ForgotSent, ResetRefuse, ResetExpire,
           ChangeRefuse, ChangeVerify, ChangeMismatch, ChangeHash, ChangeUpdate,
           ChangeSucceed, RefreshRotate, CryptoFails, Await, Answer, LocalsOK, ResetAwaits
      <3>2. QED
        BY <1>1, <2>1, <2>2, <3>1 DEF ResetCallOK, ResetAwaits, Awaits
    <2>7. QED
      BY <2>3, <2>4, <2>5, <2>6
  <1>4. QED
    BY <1>2, <1>3

(* A step of another call leaves r's own part alone. *)
LEMMA OtherResetStep ==
    ASSUME TypeInv, NEW r \in Requests, NEW q \in Requests, q # r, Arrive(q) \/ Proceed(q)
    PROVE  pc'[r] = pc[r] /\ call'[r] = call[r] /\ given'[r] = given[r] /\ user'[r] = user[r]
  <1>1. LocalsOK
    BY DEF TypeInv, TypeOK
  <1>2. CASE Arrive(q)
    BY <1>1, <1>2 DEF Arrive, LocalsOK, LoginStart, SignUpStart, ForgotStart, ResetStart,
       ChangeStart, RefreshInvalid, RefreshStart, Logout, Called, Answer, Forget, LookUp
  <1>3. CASE Proceed(q)
    BY <1>1, <1>3 DEF Proceed, LocalsOK, LoginLookup, LoginUnknown, LoginVerify,
       LoginMismatch, LoginSucceed, SignUpConflict, SignUpHash, SignUpCreate,
       SignUpSucceed, ForgotUnknown, ForgotIssue, ForgotSent, ResetRefuse, ResetExpire,
       ResetAccept, ResetUpdate, ResetSucceed, ChangeRefuse, ChangeVerify,
       ChangeMismatch, ChangeHash, ChangeUpdate, ChangeSucceed, RefreshRotate,
       CryptoFails, Await, Answer, Forget, LookUp, SameLocals, Verify, argVars
  <1>4. QED
    BY <1>2, <1>3

(* Every step keeps what the calls know. *)
LEMMA ResetCallsStep ==
    ASSUME TypeInv, OwnersExist, ResetCalls, [Next]_vars
    PROVE  ResetCalls'
  <1>1. CASE Restart
    <2>1. ASSUME NEW r \in Requests
          PROVE  pc'[r] \notin Awaits /\ given'[r] = 0
      BY <1>1 DEF Restart, Awaits
    <2>2. Len(passwordResetTokens') \in Nat
      BY <1>1 DEF Restart
    <2>3. QED
      BY <2>1, <2>2 DEF ResetCalls, ResetCallOK, ResetAwaits, Awaits
  <1>2. ASSUME ~Restart, NEW r \in Requests,
               pc'[r] = pc[r] /\ call'[r] = call[r] /\ given'[r] = given[r] /\ user'[r] = user[r]
        PROVE  ResetCallOK(r)'
    <2>1. ResetCallOK(r)
      BY DEF ResetCalls
    <2>2. /\ given'[r] \in 0 .. Len(passwordResetTokens')
          /\ given[r] # 0 =>
                /\ passwordResetTokens'[given[r]].userId = passwordResetTokens[given[r]].userId
                /\ passwordResetTokens'[given[r]].active => passwordResetTokens[given[r]].active
          /\ user[r] # 0 => users'[user'[r]].id = UserIdOf(r)
      BY <1>2, <2>1, KnownStaysTrue
    <2>3. pc[r] \in {"resetHash", "resetUpdate"} => user[r] # 0
      BY DEF TypeInv, CallsOK, CallOK, HoldsUser
    <2>4. QED
      BY <1>2, <2>1, <2>2, <2>3 DEF ResetCallOK, UserIdOf
  <1>3. ASSUME NEW q \in Requests, Arrive(q) \/ Proceed(q), ~Restart
        PROVE  ResetCalls'
    <2>1. ASSUME NEW r \in Requests
          PROVE  ResetCallOK(r)'
      <3>1. CASE r = q
        BY <1>3, <3>1, OwnResetStep
      <3>2. CASE r # q
        BY <1>2, <1>3, <3>2, OtherResetStep
      <3>3. QED
        BY <3>1, <3>2
    <2>2. QED
      BY <2>1 DEF ResetCalls
  <1>4. CASE ~Restart /\ (TimePasses \/ UNCHANGED vars)
    BY <1>2, <1>4 DEF ResetCalls, TimePasses, vars, argVars, SameLocals
  <1>5. QED
    BY <1>1, <1>3, <1>4 DEF Next

(* What the calls know holds in every reachable state. *)
LEMMA ResetCallsHold == Spec => []ResetCalls
  <1>1. Init => ResetCalls
    BY DEF Init, ResetsInit, ResetCalls, ResetCallOK, ResetAwaits, Awaits
  <1>2. TypeInv /\ OwnersExist /\ ResetCalls /\ [Next]_vars => ResetCalls'
    BY ResetCallsStep
  <1>3. QED
    BY <1>1, <1>2, TypeInvHolds, OwnersAreThere, PTL DEF Spec

(* What lets a call in finds its token active, and those answered are not. *)
LEMMA SpentStep ==
    ASSUME TypeInv, ResetCalls, [Next]_vars, NEW r \in Requests, NEW s \in Requests,
           pc[r] = "resetLookup", pc'[r] = "resetHash",
           call[s].op = "reset", pc[s] = "ok"
    PROVE  given[r] # given[s]
  <1>1. LocalsOK
    BY DEF TypeInv, TypeOK
  <1>2. Arrive(r) \/ Proceed(r)
    <2>1. ~Restart /\ ~TimePasses /\ ~UNCHANGED vars
      BY <1>1 DEF Restart, TimePasses, vars, LocalsOK, Awaits
    <2>2. QED
      BY <2>1, OtherResetStep DEF Next
  <1>3. ResetAccept(r)
    BY <1>1, <1>2 DEF Arrive, LoginStart, SignUpStart, ForgotStart, ResetStart,
       ChangeStart, RefreshInvalid, RefreshStart, Logout, Called, LocalsOK,
       Proceed, LoginLookup, LoginUnknown, LoginVerify,
       LoginMismatch, LoginSucceed, SignUpConflict, SignUpHash, SignUpCreate,
       SignUpSucceed, ForgotUnknown, ForgotIssue, ForgotSent, ResetRefuse, ResetExpire,
       ResetUpdate, ResetSucceed, ChangeRefuse, ChangeVerify, ChangeMismatch, ChangeHash,
       ChangeUpdate, ChangeSucceed, RefreshRotate, CryptoFails, Await, Answer
  <1>4. given[r] \in DOMAIN passwordResetTokens /\ passwordResetTokens[given[r]].active
    BY <1>3 DEF ResetAccept, ResetTokenAccepted, ResetTokenMatches
  <1>5. given[s] # 0 => ~passwordResetTokens[given[s]].active
    BY DEF ResetCalls, ResetCallOK
  <1>6. 0 \notin DOMAIN passwordResetTokens
    BY LenProperties DEF TypeInv, TypeOK, StoresOK, ResetsTypeOK
  <1>7. QED
    BY <1>4, <1>5, <1>6

(* A token whose resetPassword was answered with success is never accepted *)
(* again, for any number of overlapping calls and tokens.                  *)
THEOREM SpentResets == Spec => SpentResetStaysSpent
  <1>1. TypeInv /\ ResetCalls /\ [Next]_vars =>
            [\A r, s \in Requests :
                /\ pc[r] = "resetLookup" /\ pc'[r] = "resetHash"
                /\ call[s].op = "reset" /\ pc[s] = "ok"
                => given[r] # given[s]]_vars
    BY SpentStep
  <1>2. QED
    BY <1>1, TypeInvHolds, ResetCallsHold, PTL DEF Spec, SpentResetStaysSpent
------------------------------------------------------------------------------
(* JwtResolvesToItsSession and SpentJwtStaysDead *)

(* The ids below refreshTokenSequence are given out, each to one session,  *)
(* and every session of the store was signed in this lifetime.             *)
SignedOnce ==
    /\ \A s \in refreshTokens : [life |-> life, session |-> s] \in signed
    /\ \A j \in signed : /\ j.life <= life
                         /\ j.life = life => j.session.id < refreshTokenSequence
    /\ \A j, k \in signed :
          j.life = life /\ k.life = life /\ j.session.id = k.session.id => j = k

(* The JWT a call presents was signed, and a refresh in flight holds the   *)
(* session its JWT names.                                                  *)
Held(r) ==
    /\ jwt[r] \in signed \cup {NoJwt}
    /\ pc[r] = "refreshLookup" =>
          /\ call[r].op = "refresh"
          /\ jwt[r].session.id = session[r].id
          /\ [life |-> life, session |-> session[r]] \in signed
    /\ pc[r] \in Awaits /\ pc[r] # "refreshLookup" =>
          call[r].op \notin {"refresh", "logout"}

Dead(j) == \A s \in refreshTokens : s.id # j.session.id

Spent(r) == /\ pc[r] \in Answers
            /\ jwt[r].life = life
            /\ \/ call[r].op = "logout"
               \/ call[r].op = "refresh" /\ pc[r] = "tokens"

SessionInv == /\ SignedOnce
              /\ \A r \in Requests : Held(r) /\ (Spent(r) => Dead(jwt[r]))

(* What the steps do to the store: push one session and drop some others,  *)
(* or only drop some.                                                      *)
Opens == \E kept \in SUBSET refreshTokens, u \in Nat, i \in IPs, a \in UserAgents,
            b \in Password : OpenSession(kept, u, i, a, b, life)
Drops == refreshTokens' \subseteq refreshTokens /\ UNCHANGED <<refreshTokenSequence, signed>>

(* Either keeps the ids unique, takes no JWT back, and revives none.       *)
LEMMA StoreStep ==
    ASSUME TypeInv, SignedOnce, Opens \/ Drops, life' = life
    PROVE  /\ SignedOnce'
           /\ signed \subseteq signed'
           /\ \A j \in signed : j.life = life /\ Dead(j) => Dead(j)'
  <1>1. /\ refreshTokens \subseteq Session /\ signed \subseteq Jwt
        /\ refreshTokenSequence \in Nat /\ life \in Nat
    BY DEF TypeInv, TypeOK, StoresOK, SessionsTypeOK
  <1>2. CASE Drops
    BY <1>2 DEF Drops, SignedOnce, Dead
  <1>3. CASE Opens
    <2>1. PICK kept \in SUBSET refreshTokens, s \in Session :
              /\ s.id = refreshTokenSequence
              /\ refreshTokens' = kept \cup {s}
              /\ refreshTokenSequence' = refreshTokenSequence + 1
              /\ signed' = signed \cup {[life |-> life, session |-> s]}
      <3>1. PICK kept \in SUBSET refreshTokens, u \in Nat, i \in IPs, a \in UserAgents,
                 b \in Password : OpenSession(kept, u, i, a, b, life)
        BY <1>3 DEF Opens
      <3> DEFINE s == [id |-> refreshTokenSequence, userId |-> u, ip |-> i, ua |-> a, basis |-> b]
      <3>2. s \in Session /\ s.id = refreshTokenSequence
        BY <1>1 DEF Session
      <3>3. QED
        BY <3>1, <3>2 DEF OpenSession
    <2> DEFINE n == [life |-> life, session |-> s]
    <2>2. n.life = life /\ n.session = s /\ n.session.id = refreshTokenSequence
      BY <2>1
    <2>3. \A j \in signed : j.life \in Nat /\ j.session.id \in Nat
      BY <1>1 DEF Jwt, Session
    <2>4. \A j \in signed : j.life = life => j.session.id # refreshTokenSequence
      BY <1>1, <2>3 DEF SignedOnce
    <2> HIDE DEF n
    <2>5. signed' = signed \cup {n} /\ life' = life
      BY <2>1 DEF n
    <2>6. \A t \in refreshTokens' : [life |-> life', session |-> t] \in signed'
      BY <2>1, <2>5 DEF SignedOnce, n
    <2>7. \A j \in signed' : /\ j.life <= life'
                             /\ j.life = life' => j.session.id < refreshTokenSequence'
      BY <1>1, <2>1, <2>2, <2>3, <2>5 DEF SignedOnce
    <2>8. \A j, k \in signed' :
             j.life = life' /\ k.life = life' /\ j.session.id = k.session.id => j = k
      BY <2>2, <2>4, <2>5 DEF SignedOnce
    <2>9. \A j \in signed : j.life = life /\ Dead(j) => Dead(j)'
      BY <2>1, <2>4 DEF Dead
    <2>10. QED
      BY <2>5, <2>6, <2>7, <2>8, <2>9 DEF SignedOnce
  <1>4. QED
    BY <1>2, <1>3

(* What a step of the call r leaves alone of the other calls. *)
Others(r) ==
    \A q \in Requests \ {r} :
        /\ pc'[q] = pc[q] /\ call'[q] = call[q] /\ jwt'[q] = jwt[q]
        /\ session'[q] = session[q]

(* A step of r that keeps r's own part keeps the invariant. *)
LEMMA SessionStep ==
    ASSUME TypeInv, SessionInv, NEW r \in Requests, Opens \/ Drops, life' = life,
           Others(r), Held(r)', Spent(r)' => Dead(jwt[r])'
    PROVE  SessionInv'
  <1>1. /\ SignedOnce' /\ signed \subseteq signed'
        /\ \A j \in signed : j.life = life /\ Dead(j) => Dead(j)'
    BY StoreStep DEF SessionInv
  <1>2. ASSUME NEW q \in Requests, q # r
        PROVE  Held(q)' /\ (Spent(q)' => Dead(jwt[q])')
    <2>1. Held(q) /\ (Spent(q) => Dead(jwt[q]))
      BY DEF SessionInv
    <2>2. /\ pc'[q] = pc[q] /\ call'[q] = call[q] /\ jwt'[q] = jwt[q]
          /\ session'[q] = session[q]
      BY <1>2 DEF Others
    <2>3. Held(q)'
      BY <1>1, <2>1, <2>2 DEF Held
    <2>4. ASSUME Spent(q)'
          PROVE  Dead(jwt[q])'
      <3>1. Spent(q)
        BY <2>2, <2>4 DEF Spent
      <3>2. jwt[q] # NoJwt /\ jwt[q] \in signed /\ jwt[q].life = life
        BY <2>1, <3>1 DEF Spent, Held, NoJwt, TypeInv, TypeOK, StoresOK
      <3>3. Dead(jwt[q])
        BY <2>1, <3>1
      <3>4. \A s \in refreshTokens' : s.id # jwt[q].session.id
        BY <1>1, <3>2, <3>3 DEF Dead
      <3>5. QED
        BY <2>2, <3>4 DEF Dead
    <2>5. QED
      BY <2>3, <2>4
  <1>3. QED
    BY <1>1, <1>2 DEF SessionInv

(* A call that is no refresh and no logout, or a step of one that changes  *)
(* nothing but where it waits.                                             *)
LEMMA OtherCallStep ==
    ASSUME TypeInv, SessionInv, NEW r \in Requests, Opens \/ Drops, life' = life,
           Others(r), jwt'[r] = jwt[r], call'[r].op \notin {"refresh", "logout"},
           pc'[r] # "refreshLookup"
    PROVE  SessionInv'
  <1>1. jwt[r] \in signed \cup {NoJwt} /\ signed \subseteq signed'
    BY StoreStep DEF SessionInv, Held
  <1>2. Held(r)'
    BY <1>1 DEF Held
  <1>3. ~Spent(r)'
    BY DEF Spent
  <1>4. QED
    BY <1>2, <1>3, SessionStep

(* What a step of r leaves alone, from its assignments. *)
LEMMA OthersUntouched ==
    ASSUME TypeInv, NEW r \in Requests, Arrive(r) \/ Proceed(r)
    PROVE  Others(r)
  <1>1. /\ pc \in [Requests -> Awaits \cup Answers \cup {"idle"}]
        /\ call \in [Requests -> Calls \cup {NoCall}]
        /\ jwt \in [Requests -> Jwt \cup {NoJwt}]
        /\ session \in [Requests -> Session \cup {NoSession}]
    BY DEF TypeInv, TypeOK, LocalsOK
  <1>2. CASE Arrive(r)
    BY <1>1, <1>2 DEF Arrive, Others, LoginStart, SignUpStart, ForgotStart, ResetStart,
       ChangeStart, RefreshInvalid, RefreshStart, Logout, Called, Answer, Forget, LookUp
  <1>3. CASE Proceed(r)
    BY <1>1, <1>3 DEF Proceed, Others, LoginLookup, LoginUnknown, LoginVerify,
       LoginMismatch, LoginSucceed, SignUpConflict, SignUpHash, SignUpCreate,
       SignUpSucceed, ForgotUnknown, ForgotIssue, ForgotSent, ResetRefuse, ResetExpire,
       ResetAccept, ResetUpdate, ResetSucceed, ChangeRefuse, ChangeVerify,
       ChangeMismatch, ChangeHash, ChangeUpdate, ChangeSucceed, RefreshRotate,
       CryptoFails, Await, Answer, Forget, LookUp, SameLocals, Verify, argVars
  <1>4. QED
    BY <1>2, <1>3

(* What an arrival that presents no JWT does to the sessions and to r. *)
LEMMA ArrivalKeeps ==
    ASSUME TypeInv, SessionInv, NEW r \in Requests, NEW c \in Calls, Arrive(r),
           \/ LoginStart(r, c) \/ SignUpStart(r, c) \/ ForgotStart(r, c)
           \/ ChangeStart(r, c)
           \/ \E t \in 0 .. Len(passwordResetTokens) : ResetStart(r, c, t)
    PROVE  SessionInv'
  <1>1. /\ pc \in [Requests -> Awaits \cup Answers \cup {"idle"}]
        /\ call \in [Requests -> Calls \cup {NoCall}]
    BY DEF TypeInv, TypeOK, LocalsOK
  <1>2. Drops /\ life' = life /\ jwt' = jwt
    BY DEF Drops, LoginStart, SignUpStart, ForgotStart, ChangeStart, ResetStart,
           storeVars, sessionVars
  <1>3. /\ call'[r] = c /\ c.op \notin {"refresh", "logout"}
        /\ pc'[r] # "refreshLookup"
    BY <1>1 DEF LoginStart, SignUpStart, ForgotStart, ChangeStart, ResetStart, Called, Answer
  <1>4. QED
    BY <1>2, <1>3, OthersUntouched, OtherCallStep

(* The steps of every method but refresh and logout. *)
LEMMA ProceedKeeps ==
    ASSUME TypeInv, SessionInv, NEW r \in Requests, Proceed(r), ~RefreshRotate(r)
    PROVE  SessionInv'
  <1>1. /\ pc \in [Requests -> Awaits \cup Answers \cup {"idle"}]
        /\ life' = life /\ jwt' = jwt /\ call' = call
    BY DEF TypeInv, TypeOK, LocalsOK, Proceed, LoginLookup, LoginUnknown, LoginVerify,
       LoginMismatch, LoginSucceed, SignUpConflict, SignUpHash, SignUpCreate,
       SignUpSucceed, ForgotUnknown, ForgotIssue, ForgotSent, ResetRefuse, ResetExpire,
       ResetAccept, ResetUpdate, ResetSucceed, ChangeRefuse, ChangeVerify,
       ChangeMismatch, ChangeHash, ChangeUpdate, ChangeSucceed, CryptoFails, Await, argVars
  <1>2. pc[r] \in Awaits /\ pc[r] # "refreshLookup" /\ pc'[r] # "refreshLookup"
    BY <1>1 DEF Proceed, LoginLookup, LoginUnknown, LoginVerify,
       LoginMismatch, LoginSucceed, SignUpConflict, SignUpHash, SignUpCreate,
       SignUpSucceed, ForgotUnknown, ForgotIssue, ForgotSent, ResetRefuse, ResetExpire,
       ResetAccept, ResetUpdate, ResetSucceed, ChangeRefuse, ChangeVerify,
       ChangeMismatch, ChangeHash, ChangeUpdate, ChangeSucceed, CryptoFails, Await,
       Answer, Awaits
  <1>3. call[r].op \notin {"refresh", "logout"}
    BY <1>2 DEF SessionInv, Held
  <1>4. CASE LoginSucceed(r) \/ SignUpSucceed(r)
    <2>1. call[r] \in Call
      BY <1>2, CallTyped
    <2>2. UserIdOf(r) \in Nat
      BY <1>4, UserTyped DEF LoginSucceed, SignUpSucceed, TypeInv, CallsOK, CallOK,
                             HoldsUser, UserIdOf, User
    <2>3. \E b \in Password :
              OpenSession(refreshTokens, UserIdOf(r), call[r].ip, call[r].ua, b, life)
      <3>1. Hashed(call[r].password) \in Password
        BY <2>1 DEF Call, Hashed, Password
      <3>2. LoginSucceed(r) => verifying[r].basis \in Password
        BY DEF LoginSucceed, TypeInv, CallsOK, CallOK
      <3>3. QED
        BY <1>4, <3>1, <3>2 DEF LoginSucceed, SignUpSucceed, NewRefreshAndAccessToken
    <2>4. Opens
      BY <2>1, <2>2, <2>3 DEF Opens, Call
    <2>5. QED
      BY <1>1, <1>2, <1>3, <2>4, OthersUntouched, OtherCallStep
  <1>5. CASE ~LoginSucceed(r) /\ ~SignUpSucceed(r)
    <2>1. Drops
      BY <1>5 DEF Drops, Proceed, LoginLookup, LoginUnknown, LoginVerify, LoginMismatch,
         SignUpConflict, SignUpHash, SignUpCreate, ForgotUnknown, ForgotIssue,
         ForgotSent, ResetRefuse, ResetExpire, ResetAccept, ResetUpdate, ResetSucceed,
         ChangeRefuse, ChangeVerify, ChangeMismatch, ChangeHash, ChangeUpdate,
         ChangeSucceed, CryptoFails, RevokeAllUserRefreshTokens, storeVars, sessionVars
    <2>2. QED
      BY <1>1, <1>2, <1>3, <2>1, OthersUntouched, OtherCallStep
  <1>6. QED
    BY <1>4, <1>5

(* refresh finds the session its JWT names, or none. *)
LEMMA RefreshArrivalKeeps ==
    ASSUME TypeInv, SessionInv, NEW r \in Requests, NEW c \in Calls,
           NEW j \in signed \cup {NoJwt}, Arrive(r),
           RefreshInvalid(r, c, j) \/ RefreshStart(r, c, j)
    PROVE  SessionInv'
  <1>1. /\ pc \in [Requests -> Awaits \cup Answers \cup {"idle"}]
        /\ call \in [Requests -> Calls \cup {NoCall}]
        /\ jwt \in [Requests -> Jwt \cup {NoJwt}]
        /\ session \in [Requests -> Session \cup {NoSession}]
    BY DEF TypeInv, TypeOK, LocalsOK
  <1>2. /\ Drops /\ life' = life /\ signed' = signed
        /\ call'[r] = c /\ c.op = "refresh" /\ jwt'[r] = j
    BY <1>1 DEF Drops, RefreshInvalid, RefreshStart, Called, storeVars, sessionVars
  <1>3. ~Spent(r)'
    BY <1>1, <1>2 DEF RefreshInvalid, RefreshStart, Answer, Spent, Answers
  <1>4. Held(r)'
    <2>1. CASE RefreshInvalid(r, c, j)
      BY <1>1, <1>2, <2>1 DEF RefreshInvalid, Answer, Held, Awaits
    <2>2. CASE RefreshStart(r, c, j)
      <3>1. /\ pc'[r] = "refreshLookup" /\ session'[r] = Retrieve(j)
            /\ Retrieve(j) # NoSession
        BY <1>1, <2>2 DEF RefreshStart
      <3>2. Retrieve(j) \in refreshTokens /\ Retrieve(j).id = j.session.id
        BY <3>1 DEF Retrieve
      <3>3. [life |-> life, session |-> Retrieve(j)] \in signed
        BY <3>2 DEF SessionInv, SignedOnce
      <3>4. QED
        BY <1>2, <3>1, <3>2, <3>3 DEF Held
    <2>3. QED
      BY <2>1, <2>2
  <1>5. QED
    BY <1>2, <1>3, <1>4, OthersUntouched, SessionStep

(* logout drops the one session of its JWT's id. *)
LEMMA LogoutKeeps ==
    ASSUME TypeInv, SessionInv, NEW r \in Requests, NEW c \in Calls,
           NEW j \in signed \cup {NoJwt}, Arrive(r), Logout(r, c, j)
    PROVE  SessionInv'
  <1>1. /\ pc \in [Requests -> Awaits \cup Answers \cup {"idle"}]
        /\ jwt \in [Requests -> Jwt \cup {NoJwt}]
        /\ life \in Nat \ {0}
    BY DEF TypeInv, TypeOK, StoresOK, LocalsOK
  <1>2. /\ Drops /\ life' = life /\ signed' = signed
        /\ jwt'[r] = j /\ pc'[r] = "ok"
        /\ refreshTokens' = {s \in refreshTokens : s # Retrieve(j)}
    BY <1>1 DEF Drops, Logout, Answer
  <1>3. Held(r)'
    BY <1>2 DEF Held, Awaits
  <1>4. ASSUME Spent(r)'
        PROVE  \A s \in refreshTokens' : s.id # j.session.id
    <2>1. j.life = life
      BY <1>2, <1>4 DEF Spent
    <2>2. j # NoJwt
      BY <1>1, <2>1 DEF NoJwt
    <2>3. ASSUME NEW s \in refreshTokens, s.id = j.session.id
          PROVE  s = Retrieve(j)
      <3>1. Retrieve(j) \in refreshTokens /\ Retrieve(j).id = j.session.id
        BY <2>2, <2>3 DEF Retrieve
      <3>2. /\ [life |-> life, session |-> s] \in signed
            /\ [life |-> life, session |-> Retrieve(j)] \in signed
        BY <2>3, <3>1 DEF SessionInv, SignedOnce
      <3>3. [life |-> life, session |-> s] = [life |-> life, session |-> Retrieve(j)]
        BY <2>3, <3>1, <3>2 DEF SessionInv, SignedOnce
      <3>4. QED
        BY <3>3
    <2>4. QED
      BY <1>2, <2>3
  <1>5. Spent(r)' => Dead(jwt[r])'
    BY <1>2, <1>4 DEF Dead
  <1>6. QED
    BY <1>2, <1>3, <1>5, OthersUntouched, SessionStep

(* The rotation drops the session it exchanges, because a session is of    *)
(* the same device as itself.                                              *)
LEMMA RotateKeeps ==
    ASSUME TypeInv, SessionInv, NEW r \in Requests, Proceed(r), RefreshRotate(r)
    PROVE  SessionInv'
  <1>1. /\ pc \in [Requests -> Awaits \cup Answers \cup {"idle"}]
        /\ jwt \in [Requests -> Jwt \cup {NoJwt}]
        /\ session[r] \in Session
        /\ pc[r] = "refreshLookup"
    BY DEF TypeInv, TypeOK, LocalsOK, CallsOK, CallOK, RefreshRotate
  <1>2. /\ life' = life /\ jwt' = jwt /\ pc'[r] \in {"undefined", "tokens"}
        /\ jwt[r] \in signed \cup {NoJwt}
        /\ jwt[r].session.id = session[r].id
        /\ [life |-> life, session |-> session[r]] \in signed
        /\ call[r].op = "refresh"
    BY <1>1 DEF RefreshRotate, Answer, argVars, SessionInv, Held
  <1>3. CASE user[r] = 0
    <2>1. Drops /\ pc'[r] = "undefined" /\ call' = call
      BY <1>1, <1>3 DEF RefreshRotate, Answer, Drops, sessionVars, argVars
    <2>2. Held(r)'
      BY <1>2, <2>1, StoreStep DEF SessionInv, Held, Awaits
    <2>3. ~Spent(r)'
      BY <1>2, <2>1 DEF Spent
    <2>4. QED
      BY <1>2, <2>1, <2>2, <2>3, OthersUntouched, SessionStep
  <1>4. CASE user[r] # 0
    <2> DEFINE kept == {s \in refreshTokens : ~SameDevice(s, session[r])}
    <2>1. OpenSession(kept, session[r].userId, session[r].ip, session[r].ua,
                      session[r].basis, life)
      BY <1>4 DEF RefreshRotate, RotateForDevice
    <2>2. kept \in SUBSET refreshTokens
      OBVIOUS
    <2>3. Opens
      BY <1>1, <2>1, <2>2 DEF Opens, Session
    <2>4. Held(r)'
      BY <1>2, <2>3, StoreStep DEF SessionInv, Held, Awaits
    <2>5. ASSUME Spent(r)', NEW s \in refreshTokens'
          PROVE  s.id # jwt[r].session.id
      <3>1. session[r].id < refreshTokenSequence
        BY <1>2 DEF SessionInv, SignedOnce
      <3>2. s \in kept \/ s.id = refreshTokenSequence
        BY <2>1 DEF OpenSession
      <3>3. ASSUME s \in kept
            PROVE  s.id # session[r].id
        <4>1. [life |-> life, session |-> s] \in signed
          BY <3>3 DEF SessionInv, SignedOnce
        <4>2. s # session[r]
          BY <3>3 DEF SameDevice
        <4>3. s.id = session[r].id =>
                 [life |-> life, session |-> s] = [life |-> life, session |-> session[r]]
          BY <1>2, <4>1 DEF SessionInv, SignedOnce
        <4>4. QED
          BY <4>2, <4>3
      <3>4. refreshTokenSequence \in Nat /\ session[r].id \in Nat
        BY <1>1 DEF TypeInv, TypeOK, StoresOK, SessionsTypeOK, Session
      <3>5. QED
        BY <1>2, <3>1, <3>2, <3>3, <3>4
    <2>6. Spent(r)' => Dead(jwt[r])'
      BY <1>2, <2>5 DEF Dead
    <2>7. QED
      BY <1>2, <2>3, <2>4, <2>6, OthersUntouched, SessionStep
  <1>5. QED
    BY <1>3, <1>4

(* After a restart every JWT is of an earlier lifetime. *)
LEMMA RestartKeeps ==
    ASSUME TypeInv, SessionInv, Restart
    PROVE  SessionInv'
  <1>1. life \in Nat \ {0} /\ life' = life + 1 /\ signed' = signed /\ refreshTokens' = {}
    BY DEF TypeInv, TypeOK, StoresOK, Restart
  <1>2. \A j \in signed : j.life \in Nat /\ j.life <= life
    BY DEF TypeInv, TypeOK, StoresOK, SessionsTypeOK, Jwt, SessionInv, SignedOnce
  <1>3. SignedOnce'
    BY <1>1, <1>2 DEF SignedOnce
  <1>4. ASSUME NEW q \in Requests
        PROVE  Held(q)' /\ (Spent(q)' => Dead(jwt[q])')
    <2>1. pc'[q] \notin Awaits /\ jwt'[q] = jwt[q]
      BY DEF Restart, argVars, Awaits
    <2>2. Held(q)'
      BY <1>1, <2>1 DEF SessionInv, Held, Awaits
    <2>3. Dead(jwt[q])'
      BY <1>1 DEF Dead
    <2>4. QED
      BY <2>2, <2>3
  <1>5. QED
    BY <1>3, <1>4 DEF SessionInv

(* Every step of the service keeps SessionInv. *)
LEMMA SessionInvStep ==
    ASSUME TypeInv, SessionInv, [Next]_vars
    PROVE  SessionInv'
  <1>1. ASSUME NEW r \in Requests, Arrive(r)
        PROVE  SessionInv'
    BY <1>1, ArrivalKeeps, RefreshArrivalKeeps, LogoutKeeps DEF Arrive
  <1>2. ASSUME NEW r \in Requests, Proceed(r)
        PROVE  SessionInv'
    BY <1>2, ProceedKeeps, RotateKeeps
  <1>3. CASE TimePasses \/ UNCHANGED vars
    <2>1. UNCHANGED <<sessionVars, pc, call, jwt, session, life>>
      BY <1>3 DEF TimePasses, vars, storeVars, argVars, SameLocals
    <2>2. QED
      BY <2>1 DEF SessionInv, SignedOnce, Held, Spent, Dead, sessionVars
  <1>4. QED
    BY <1>1, <1>2, <1>3, RestartKeeps DEF Next

(* SessionInv is stronger than the two properties. *)
LEMMA SessionInvImplies ==
    ASSUME TypeInv, SessionInv
    PROVE  JwtResolvesToItsSession /\ SpentJwtStaysDead
  <1>1. ASSUME NEW j \in signed, j.life = life, Retrieve(j) # NoSession
        PROVE  Retrieve(j) = j.session
    <2>1. Retrieve(j) \in refreshTokens /\ Retrieve(j).id = j.session.id
      BY <1>1 DEF Retrieve
    <2>2. [life |-> life, session |-> Retrieve(j)] \in signed
      BY <2>1 DEF SessionInv, SignedOnce
    <2>3. [life |-> life, session |-> Retrieve(j)] = j
      BY <1>1, <2>1, <2>2 DEF SessionInv, SignedOnce
    <2>4. QED
      BY <2>3
  <1>2. ASSUME NEW r \in Requests, Spent(r)
        PROVE  Retrieve(jwt[r]) = NoSession
    <2>1. Dead(jwt[r])
      BY <1>2 DEF SessionInv
    <2>2. QED
      BY <2>1 DEF Dead, Retrieve
  <1>3. QED
    BY <1>1, <1>2 DEF JwtResolvesToItsSession, SpentJwtStaysDead, Spent

(* SessionInv holds in every reachable state. *)
LEMMA SessionInvHolds == Spec => []SessionInv
  <1>1. Init => SessionInv
    BY DEF Init, SessionsInit, SessionInv, SignedOnce, Held, Spent, NoJwt, Awaits, Answers
  <1>2. TypeInv /\ SessionInv /\ [Next]_vars => SessionInv'
    BY SessionInvStep
  <1>3. QED
    BY <1>1, <1>2, TypeInvHolds, PTL DEF Spec

(* Through any overlap of logins, sign-ups, refreshes, logouts and         *)
(* revocations, a JWT of the current lifetime resolves to its own session  *)
(* or to none.                                                             *)
THEOREM JwtsResolve == Spec => []JwtResolvesToItsSession
  <1>1. TypeInv /\ SessionInv => JwtResolvesToItsSession
    BY SessionInvImplies
  <1>2. QED
    BY <1>1, TypeInvHolds, SessionInvHolds, PTL

(* And to none for ever, once it was logged out or exchanged.              *)
THEOREM SessionsHold == Spec => []SpentJwtStaysDead
  <1>1. TypeInv /\ SessionInv => SpentJwtStaysDead
    BY SessionInvImplies
  <1>2. QED
    BY <1>1, TypeInvHolds, SessionInvHolds, PTL
==============================================================================

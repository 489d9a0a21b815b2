----------------------- MODULE InviteUserService_proofs -----------------------
(***************************************************************************)
(* The invites under overlapping calls.  After its lookup completeSignUp   *)
(* looks at neither the invite nor the table again; what it does in the    *)
(* end is still right because the array of invites only grows, an entry    *)
(* keeps its email, and an entry that is inactive stays inactive.          *)
(***************************************************************************)
EXTENDS InviteUserService, UsersService_proofs, SequenceTheorems

(* What a call in flight or answered knows of its invite and its user. *)
CallOK(r) ==
    /\ given[r] \in 0 .. Len(invites)
    /\ pc[r] \in Awaits => call[r] \in Calls
    /\ pc[r] \in {"inviteLookup", "inviteSend"} => call[r].op \in {"invite", "resend"}
    /\ pc[r] \in {"completeHash", "completeCreate"} => Matches(given[r], EmailOf(r))
    /\ pc[r] = "completeCreate" => \E u \in DOMAIN users : users[u].email = EmailOf(r)
    /\ (Completed(r) \/ pc[r] = "canceled") /\ given[r] # 0 =>
          ~invites[given[r]].active

(* The inductive invariant.  It says nothing of who else is in the table:  *)
(* it holds too where others sign up beside this service.                  *)
InviteInv == TypeOK /\ \A r \in Requests : CallOK(r)

(* What no step but a restart breaks: both arrays only grow. *)
InvitesGrow == /\ Len(invites') \in Nat /\ Len(invites') >= Len(invites)
               /\ \A i \in DOMAIN invites : /\ i \in DOMAIN invites'
                                            /\ invites'[i].email = invites[i].email
                                            /\ invites'[i].active => invites[i].active
UsersGrow == /\ Len(users') \in Nat /\ Len(users') >= Len(users)
             /\ \A u \in DOMAIN users : /\ u \in DOMAIN users'
                                        /\ users'[u].email = users[u].email

(* The constructor's seed is a table of two users. *)
LEMMA SeedOfTwo == SeedUsers \in Seq(User) /\ Len(SeedUsers) = 2 /\ DOMAIN SeedUsers = {1, 2}
  <1>1. /\ Legacy("aureopass") \in Password /\ Legacy("buenopass") \in Password
        /\ "aureo" \in Emails /\ "bueno" \in Emails
    BY SeedAssumption DEF Legacy, Password
  <1>2. QED
    BY <1>1 DEF SeedUsers, User

(* The email of a call in flight is one the service may store. *)
LEMMA EmailTyped ==
    ASSUME InviteInv, NEW r \in Requests, pc[r] \in Awaits
    PROVE  call[r] \in Calls /\ call[r] \in Call /\ EmailOf(r) \in Emails
  <1>1. call[r] \in Call
    BY InviteAssumption DEF InviteInv, CallOK
  <1>2. QED
    BY <1>1, CanonicalAssumption DEF InviteInv, CallOK, EmailOf, Call

(* What the invariant gives of the two arrays. *)
LEMMA ArraysTyped ==
    ASSUME InviteInv
    PROVE  /\ invites \in Seq(Invite) /\ Len(invites) \in Nat
           /\ DOMAIN invites = 1 .. Len(invites)
           /\ \A i \in DOMAIN invites : invites[i] \in Invite
           /\ users \in Seq(User) /\ Len(users) \in Nat
           /\ DOMAIN users = 1 .. Len(users)
  <1>1. /\ invites \in Seq(Invite) /\ Len(invites) \in Nat
        /\ DOMAIN invites = 1 .. Len(invites)
        /\ users \in Seq(User) /\ Len(users) \in Nat /\ DOMAIN users = 1 .. Len(users)
    BY LenProperties DEF InviteInv, TypeOK, UsersTypeOK
  <1>2. \A i \in DOMAIN invites : invites[i] \in Invite
    BY <1>1, ElementOfSeq
  <1>3. QED
    BY <1>1, <1>2

(* To deactivate one invite changes no email and activates none. *)
LEMMA DeactivateGrows ==
    ASSUME InviteInv, NEW t \in DOMAIN invites, Deactivate(t)
    PROVE  /\ invites' \in Seq(Invite) /\ InvitesGrow
           /\ DOMAIN invites' = DOMAIN invites /\ ~invites'[t].active
           /\ \A i \in DOMAIN invites : i # t => invites'[i] = invites[i]
  <1>1. [invites[t] EXCEPT !.active = FALSE] \in Invite
        /\ [invites[t] EXCEPT !.active = FALSE].email = invites[t].email
        /\ [invites[t] EXCEPT !.active = FALSE].active = FALSE
    BY ArraysTyped DEF Invite
  <1> DEFINE x == [invites[t] EXCEPT !.active = FALSE]
  <1>2. invites' = [invites EXCEPT ![t] = x]
    BY DEF Deactivate
  <1> HIDE DEF x
  <1>3. x \in Invite /\ x.email = invites[t].email /\ x.active = FALSE
    BY <1>1 DEF x
  <1>4. invites' \in Seq(Invite) /\ Len(invites') = Len(invites)
        /\ DOMAIN invites' = DOMAIN invites
    BY <1>2, <1>3, ArraysTyped
  <1>5. \A i \in DOMAIN invites : invites'[i] = IF i = t THEN x ELSE invites[i]
    BY <1>2, ArraysTyped
  <1>6. QED
    BY <1>3, <1>4, <1>5, ArraysTyped DEF InvitesGrow

(* To issue an invite supersedes the earlier ones of its email. *)
LEMMA IssueGrows ==
    ASSUME InviteInv, NEW e \in Emails, NEW x \in Invite, x.email = e, x.active = TRUE,
           invites' = Append(Superseded(e), x)
    PROVE  /\ invites' \in Seq(Invite) /\ InvitesGrow
           /\ DOMAIN invites' = 1 .. Len(invites) + 1
           /\ invites'[Len(invites) + 1] = x
           /\ \A i \in DOMAIN invites :
                invites'[i].active <=> invites[i].active /\ invites[i].email # e
  <1> DEFINE D == Superseded(e)
  <1>1. ASSUME NEW i \in DOMAIN invites
        PROVE  /\ D[i] \in Invite /\ D[i].email = invites[i].email
               /\ D[i].active <=> invites[i].active /\ invites[i].email # e
    <2>1. invites[i] \in Invite
      BY ArraysTyped
    <2>2. /\ [invites[i] EXCEPT !.active = FALSE] \in Invite
          /\ [invites[i] EXCEPT !.active = FALSE].email = invites[i].email
          /\ [invites[i] EXCEPT !.active = FALSE].active = FALSE
      BY <2>1 DEF Invite
    <2>3. D[i] = IF invites[i].email = e THEN [invites[i] EXCEPT !.active = FALSE]
                                          ELSE invites[i]
      BY DEF Superseded
    <2>4. QED
      BY <2>1, <2>2, <2>3
  <1>2. DOMAIN D = DOMAIN invites /\ D \in [1 .. Len(invites) -> Invite]
    BY <1>1, ArraysTyped DEF Superseded
  <1> HIDE DEF D
  <1>3. D \in Seq(Invite) /\ Len(D) = Len(invites)
    BY <1>2, ArraysTyped, SeqDef, LenProperties
  <1>4. invites' = Append(D, x)
    BY DEF D
  <1>5. /\ invites' \in Seq(Invite) /\ Len(invites') = Len(invites) + 1
        /\ DOMAIN invites' = 1 .. Len(invites) + 1
        /\ \A i \in 1 .. Len(invites) : invites'[i] = D[i]
        /\ invites'[Len(invites) + 1] = x
    BY <1>3, <1>4, ArraysTyped
  <1>6. QED
    BY <1>1, <1>5, ArraysTyped DEF InvitesGrow

(* completeSignUp adds one user at the end of the table. *)
LEMMA CreateGrows ==
    ASSUME InviteInv, NEW e \in Emails, NEW p \in Password, Create(e, p)
    PROVE  /\ users' \in Seq(User) /\ UsersGrow
           /\ DOMAIN users' = 1 .. Len(users) + 1
           /\ users'[Len(users) + 1].email = e
  <1>1. PICK u : /\ users' = Append(users, u) /\ u.email = e /\ u.password = p
                 /\ u = [id |-> IF users = <<>> THEN 0 ELSE users[Len(users)].id + 1,
                         email |-> e, password |-> p]
    BY DEF Create
  <1>2. (IF users = <<>> THEN 0 ELSE users[Len(users)].id + 1) \in Nat
    <2>1. CASE users = <<>>
      BY <2>1
    <2>2. CASE users # <<>>
      <3>1. Len(users) \in 1 .. Len(users)
        BY <2>2, ArraysTyped
      <3>2. users[Len(users)] \in User
        BY <3>1, ArraysTyped, ElementOfSeq
      <3>3. QED
        BY <2>2, <3>2 DEF User
    <2>3. QED
      BY <2>1, <2>2
  <1>3. u \in User
    BY <1>1, <1>2 DEF User
  <1>4. QED
    BY <1>1, <1>3, ArraysTyped DEF UsersGrow

(* What a step of the call r leaves alone of the other calls. *)
Elsewhere(r) == \A q \in Requests \ {r} :
                   pc'[q] = pc[q] /\ call'[q] = call[q] /\ given'[q] = given[q]

(* A step of r that only lets the arrays grow and keeps r's own part in    *)
(* order keeps the invariant.                                              *)
LEMMA CallStep ==
    ASSUME InviteInv, NEW r \in Requests, TypeOK', InvitesGrow, UsersGrow, Elsewhere(r),
           CallOK(r)'
    PROVE  InviteInv'
  <1>1. ASSUME NEW q \in Requests, q # r
        PROVE  CallOK(q)'
    <2>1. CallOK(q) /\ pc'[q] = pc[q] /\ call'[q] = call[q] /\ given'[q] = given[q]
      BY <1>1 DEF InviteInv, Elsewhere
    <2>2. given'[q] \in 0 .. Len(invites')
      BY <2>1, ArraysTyped DEF CallOK, InvitesGrow
    <2>3. given[q] # 0 => given[q] \in DOMAIN invites
      BY <2>1, ArraysTyped DEF CallOK
    <2>4. pc'[q] \in {"completeHash", "completeCreate"} =>
              /\ given'[q] \in DOMAIN invites'
              /\ invites'[given'[q]].email = Canonical[call'[q].email]
      BY <2>1 DEF CallOK, Matches, EmailOf, InvitesGrow
    <2>5. pc'[q] = "completeCreate" =>
              \E u \in DOMAIN users' : users'[u].email = Canonical[call'[q].email]
      BY <2>1 DEF CallOK, EmailOf, UsersGrow
    <2>6. /\ (call'[q].op = "complete" /\ pc'[q] = "ok") \/ pc'[q] = "canceled"
          /\ given'[q] # 0
          => ~invites'[given'[q]].active
      BY <2>1, <2>3 DEF CallOK, Completed, InvitesGrow
    <2>7. /\ pc'[q] \in Awaits => call'[q] \in Calls
          /\ pc'[q] \in {"inviteLookup", "inviteSend"} => call'[q].op \in {"invite", "resend"}
      BY <2>1 DEF CallOK
    <2>8. QED
      BY <2>2, <2>4, <2>5, <2>6, <2>7 DEF CallOK, Completed, Matches, EmailOf
  <1>2. QED
    BY <1>1 DEF InviteInv

(* A step that answers r, whatever its method. *)
LEMMA AnswerKeeps ==
    ASSUME InviteInv, NEW r \in Requests, NEW a \in Answers, Answer(r, a),
           NEW c \in Calls \cup {NoCall}, call' = [call EXCEPT ![r] = c],
           NEW t \in 0 .. Len(invites), given' = [given EXCEPT ![r] = t],
           UNCHANGED <<now, users, life>>, invites' \in Seq(Invite), InvitesGrow,
           ((c.op = "complete" /\ a = "ok") \/ a = "canceled") /\ t # 0 =>
               ~invites'[t].active
    PROVE  InviteInv'
  <1>1. /\ pc \in [Requests -> Awaits \cup Answers \cup {"idle"}]
        /\ call \in [Requests -> Calls \cup {NoCall}]
        /\ given \in [Requests -> Nat]
        /\ taken \in [Requests -> BOOLEAN] /\ calledAt \in [Requests -> Nat]
    BY DEF InviteInv, TypeOK
  <1>2. t \in Nat
    BY ArraysTyped
  <1>3. TypeOK'
    BY <1>1, <1>2 DEF InviteInv, TypeOK, Answer, UsersTypeOK
  <1>4. Elsewhere(r) /\ pc'[r] = a /\ call'[r] = c /\ given'[r] = t
    BY <1>1 DEF Answer, Elsewhere
  <1>5. UsersGrow
    BY ArraysTyped DEF UsersGrow
  <1>6. a \notin Awaits /\ a \notin {"inviteLookup", "inviteSend", "completeHash", "completeCreate"}
    BY DEF Answers, Awaits
  <1>7. t \in 0 .. Len(invites')
    BY ArraysTyped DEF InvitesGrow
  <1>8. CallOK(r)'
    BY <1>4, <1>6, <1>7 DEF CallOK, Completed
  <1>9. QED
    BY <1>3, <1>4, <1>5, <1>8, CallStep

(* The same for a call that went on with its arguments. *)
LEMMA ProceedAnswerKeeps ==
    ASSUME InviteInv, NEW r \in Requests, pc[r] \in Awaits, NEW a \in Answers, Answer(r, a),
           UNCHANGED <<now, users, argVars, life>>, invites' \in Seq(Invite), InvitesGrow,
           call[r].op = "complete" /\ a = "ok" /\ given[r] # 0 => ~invites'[given[r]].active,
           a # "canceled"
    PROVE  InviteInv'
  <1>1. /\ call = [call EXCEPT ![r] = call[r]] /\ given = [given EXCEPT ![r] = given[r]]
        /\ call[r] \in Calls \cup {NoCall} /\ given[r] \in 0 .. Len(invites)
    BY DEF InviteInv, TypeOK, CallOK
  <1>2. call' = [call EXCEPT ![r] = call[r]] /\ given' = [given EXCEPT ![r] = given[r]]
    BY <1>1 DEF argVars
  <1>3. UNCHANGED <<now, users, life>>
    OBVIOUS
  <1>4. QED
    BY <1>1, <1>2, <1>3, AnswerKeeps

(* A step that leaves the invites alone lets them grow by nothing. *)
LEMMA SameInvites ==
    ASSUME InviteInv, invites' = invites
    PROVE  invites' \in Seq(Invite) /\ InvitesGrow
  BY ArraysTyped DEF InvitesGrow

(* The arrivals. *)
LEMMA ArriveKeeps ==
    ASSUME InviteInv, NEW r \in Requests, Arrive(r)
    PROVE  InviteInv'
  <1>1. /\ pc \in [Requests -> Awaits \cup Answers \cup {"idle"}]
        /\ call \in [Requests -> Calls \cup {NoCall}]
        /\ given \in [Requests -> Nat]
        /\ taken \in [Requests -> BOOLEAN] /\ calledAt \in [Requests -> Nat]
        /\ now \in Nat
    BY DEF InviteInv, TypeOK
  <1>2. ASSUME NEW c \in Calls, InviteStart(r, c)
        PROVE  InviteInv'
    <2>1. /\ invites' \in Seq(Invite) /\ InvitesGrow /\ UsersGrow
      BY <1>2, SameInvites, ArraysTyped DEF InviteStart, UsersGrow
    <2>2. TypeOK'
      BY <1>1, <1>2 DEF InviteStart, Called, LookUp, InviteInv, TypeOK, UsersTypeOK, Awaits
    <2>3. /\ Elsewhere(r) /\ pc'[r] = "inviteLookup" /\ call'[r] = c /\ given' = given
          /\ c.op \in {"invite", "resend"} /\ invites' = invites
      BY <1>1, <1>2 DEF InviteStart, Called, Elsewhere
    <2>4. CallOK(r)'
      BY <2>3 DEF InviteInv, CallOK, Completed
    <2>5. QED
      BY <2>1, <2>2, <2>3, <2>4, CallStep
  <1>3. ASSUME NEW c \in Calls, NEW t \in 0 .. Len(invites), CompleteStart(r, c, t)
        PROVE  InviteInv'
    <2>1. /\ invites' \in Seq(Invite) /\ InvitesGrow /\ UsersGrow
      BY <1>3, SameInvites, ArraysTyped DEF CompleteStart, UsersGrow
    <2>2. TypeOK'
      BY <1>1, <1>3, ArraysTyped DEF CompleteStart, Called, LookUp, InviteInv, TypeOK,
                                     UsersTypeOK, Awaits
    <2>3. /\ Elsewhere(r) /\ pc'[r] = "completeLookup" /\ call'[r] = c /\ given'[r] = t
          /\ invites' = invites
      BY <1>1, <1>3 DEF CompleteStart, Called, Elsewhere
    <2>4. CallOK(r)'
      BY <2>3 DEF CallOK, Completed
    <2>5. QED
      BY <2>1, <2>2, <2>3, <2>4, CallStep
  <1>4. ASSUME NEW c \in Calls, NEW t \in 0 .. Len(invites),
               Validate(r, c, t) \/ Cancel(r, c, t)
        PROVE  InviteInv'
    <2>1. /\ call' = [call EXCEPT ![r] = c] /\ given' = [given EXCEPT ![r] = t]
          /\ UNCHANGED <<now, users, life>>
          /\ c.op # "complete"
      BY <1>4 DEF Validate, Cancel, Called
    <2>2. \/ \E a \in Answers \ {"canceled"} : Answer(r, a) /\ invites' = invites
          \/ /\ t \in DOMAIN invites /\ Deactivate(t)
             /\ \E a \in Answers : Answer(r, a)
      BY <1>4 DEF Validate, Cancel, Matches, Answers
    <2>3. CASE \E a \in Answers \ {"canceled"} : Answer(r, a) /\ invites' = invites
      BY <2>1, <2>3, SameInvites, AnswerKeeps
    <2>4. CASE t \in DOMAIN invites /\ Deactivate(t) /\ \E a \in Answers : Answer(r, a)
      BY <2>1, <2>4, DeactivateGrows, AnswerKeeps
    <2>5. QED
      BY <2>2, <2>3, <2>4
  <1>5. QED
    BY <1>2, <1>3, <1>4 DEF Arrive

(* inviteUser and resendInvite push an invite for the caller's email. *)
LEMMA IssueKeeps ==
    ASSUME InviteInv, NEW r \in Requests, InviteIssue(r)
    PROVE  InviteInv'
  <1>1. /\ pc \in [Requests -> Awaits \cup Answers \cup {"idle"}]
        /\ now \in Nat /\ now + InviteTtl \in Nat
    BY InviteAssumption DEF InviteInv, TypeOK
  <1>2. pc[r] = "inviteLookup" /\ EmailOf(r) \in Emails
    BY EmailTyped DEF InviteIssue, Awaits
  <1>3. PICK x \in Invite : /\ x.email = EmailOf(r) /\ x.active = TRUE
                            /\ invites' = Append(Superseded(EmailOf(r)), x)
    BY <1>1, <1>2 DEF InviteIssue, Invite
  <1>4. invites' \in Seq(Invite) /\ InvitesGrow
    BY <1>2, <1>3, IssueGrows
  <1>5. /\ users' = users /\ now' = now /\ life' = life /\ taken' = taken
        /\ calledAt' = calledAt /\ call' = call /\ given' = given
        /\ pc' = [pc EXCEPT ![r] = "inviteSend"]
    BY DEF InviteIssue, Await, argVars
  <1>6. TypeOK'
    BY <1>1, <1>4, <1>5 DEF InviteInv, TypeOK, UsersTypeOK, Awaits
  <1>7. UsersGrow /\ Elsewhere(r) /\ pc'[r] = "inviteSend"
    BY <1>1, <1>4, <1>5, ArraysTyped DEF UsersGrow, Elsewhere
  <1>8. CallOK(r)
    BY DEF InviteInv
  <1>9. CallOK(r)'
    BY <1>2, <1>4, <1>5, <1>7, <1>8, ArraysTyped DEF CallOK, Completed, Awaits, InvitesGrow
  <1>10. QED
    BY <1>4, <1>6, <1>7, <1>9, CallStep

(* completeSignUp goes on with an invite for the email it registers. *)
LEMMA AcceptKeeps ==
    ASSUME InviteInv, NEW r \in Requests, CompleteAccept(r)
    PROVE  InviteInv'
  <1>1. pc \in [Requests -> Awaits \cup Answers \cup {"idle"}]
    BY DEF InviteInv, TypeOK
  <1>2. /\ users' = users /\ now' = now /\ life' = life /\ taken' = taken
        /\ calledAt' = calledAt /\ call' = call /\ given' = given /\ invites' = invites
        /\ pc' = [pc EXCEPT ![r] = "completeHash"]
    BY DEF CompleteAccept, Await, argVars
  <1>3. TypeOK' /\ InvitesGrow /\ UsersGrow /\ Elsewhere(r)
    BY <1>1, <1>2, SameInvites, ArraysTyped
       DEF InviteInv, TypeOK, UsersTypeOK, Awaits, UsersGrow, Elsewhere
  <1>4. pc'[r] = "completeHash" /\ Matches(given[r], EmailOf(r)) /\ pc[r] \in Awaits
    BY <1>1, <1>2 DEF CompleteAccept, Usable, Awaits
  <1>5. CallOK(r)'
    BY <1>2, <1>4 DEF InviteInv, CallOK, Completed, Matches, EmailOf
  <1>6. QED
    BY <1>3, <1>5, CallStep

(* completeSignUp registers the email its invite is for. *)
LEMMA CreateKeeps ==
    ASSUME InviteInv, NEW r \in Requests, CompleteCreate(r)
    PROVE  InviteInv'
  <1>1. pc \in [Requests -> Awaits \cup Answers \cup {"idle"}]
    BY DEF InviteInv, TypeOK
  <1>2. pc[r] = "completeHash" /\ EmailOf(r) \in Emails /\ Hashed(call[r].password) \in Password
    BY EmailTyped DEF CompleteCreate, Awaits, Hashed, Password, Call
  <1>3. /\ users' \in Seq(User) /\ UsersGrow
        /\ DOMAIN users' = 1 .. Len(users) + 1
        /\ users'[Len(users) + 1].email = EmailOf(r)
    BY <1>2, CreateGrows DEF CompleteCreate
  <1>4. /\ now' = now /\ life' = life /\ taken' = taken /\ invites' = invites
        /\ calledAt' = calledAt /\ call' = call /\ given' = given
        /\ pc' = [pc EXCEPT ![r] = "completeCreate"]
    BY DEF CompleteCreate, Await, argVars
  <1>5. TypeOK' /\ InvitesGrow /\ Elsewhere(r) /\ pc'[r] = "completeCreate"
    BY <1>1, <1>3, <1>4, SameInvites DEF InviteInv, TypeOK, UsersTypeOK, Awaits, Elsewhere
  <1>6. Matches(given[r], EmailOf(r)) /\ CallOK(r)
    BY <1>2 DEF InviteInv, CallOK
  <1>7. Len(users) + 1 \in DOMAIN users'
    BY <1>3, ArraysTyped
  <1>8. CallOK(r)'
    BY <1>2, <1>3, <1>4, <1>5, <1>6, <1>7
       DEF CallOK, Completed, Matches, EmailOf, Awaits
  <1>9. QED
    BY <1>3, <1>5, <1>8, CallStep

(* The steps of an accepted call. *)
LEMMA ProceedKeeps ==
    ASSUME InviteInv, NEW r \in Requests, Proceed(r)
    PROVE  InviteInv'
  <1>1. CASE \/ InviteConflict(r) \/ ResendUnknown(r) \/ CompleteConflict(r)
             \/ CompleteRefuse(r) \/ HashFails(r)
    <2>1. /\ UNCHANGED <<now, users, argVars, life>> /\ invites' = invites
          /\ \E a \in Answers \ {"ok", "canceled"} : Answer(r, a)
          /\ pc[r] \in Awaits
      BY <1>1 DEF InviteConflict, ResendUnknown, CompleteConflict, CompleteRefuse,
                  HashFails, Answers, Awaits
    <2>2. QED
      BY <2>1, SameInvites, ProceedAnswerKeeps
  <1>2. CASE InviteSent(r)
    <2>1. /\ UNCHANGED <<now, users, argVars, life>> /\ invites' = invites
          /\ pc[r] = "inviteSend" /\ pc[r] \in Awaits
          /\ \E a \in Answers \ {"canceled"} : Answer(r, a)
      BY <1>2 DEF InviteSent, Answers, Awaits
    <2>2. call[r].op # "complete"
      BY <2>1 DEF InviteInv, CallOK
    <2>3. QED
      BY <2>1, <2>2, SameInvites, ProceedAnswerKeeps
  <1>3. CASE CompleteExpire(r)
    <2>1. /\ UNCHANGED <<now, users, argVars, life>> /\ pc[r] \in Awaits
          /\ given[r] \in DOMAIN invites /\ Deactivate(given[r])
          /\ Answer(r, "400") /\ "400" \in Answers
      BY <1>3 DEF CompleteExpire, Usable, Matches, Awaits, Answers
    <2>2. invites' \in Seq(Invite) /\ InvitesGrow
      BY <2>1, DeactivateGrows
    <2>3. QED
      BY <2>1, <2>2, ProceedAnswerKeeps
  <1>4. CASE CompleteSucceed(r)
    <2>1. /\ UNCHANGED <<now, users, argVars, life>> /\ pc[r] \in Awaits
          /\ Deactivate(given[r]) /\ Answer(r, "ok") /\ "ok" \in Answers
          /\ pc[r] = "completeCreate"
      BY <1>4 DEF CompleteSucceed, Awaits, Answers
    <2>2. given[r] \in DOMAIN invites
      BY <2>1 DEF InviteInv, CallOK, Matches
    <2>3. invites' \in Seq(Invite) /\ InvitesGrow /\ ~invites'[given[r]].active
      BY <2>1, <2>2, DeactivateGrows
    <2>4. QED
      BY <2>1, <2>3, ProceedAnswerKeeps
  <1>5. QED
    BY <1>1, <1>2, <1>3, <1>4, IssueKeeps, AcceptKeeps, CreateKeeps DEF Proceed

(* A restart drops the invites, and with them what the calls know of them. *)
LEMMA RestartKeeps ==
    ASSUME InviteInv, Restart
    PROVE  InviteInv'
  <1>1. /\ pc \in [Requests -> Awaits \cup Answers \cup {"idle"}]
        /\ life \in Nat \ {0} /\ now \in Nat \ {0}
        /\ call \in [Requests -> Calls \cup {NoCall}]
    BY DEF InviteInv, TypeOK
  <1>2. ASSUME NEW q \in Requests
        PROVE  pc'[q] \in Answers \cup {"idle"} /\ pc'[q] \notin Awaits /\ given'[q] = 0
    BY <1>1 DEF Restart, Answers, Awaits
  <1>3. users' \in Seq(User) /\ DOMAIN users' = {1, 2} /\ invites' = <<>>
    BY SeedOfTwo DEF Restart
  <1>4. pc' \in [Requests -> Awaits \cup Answers \cup {"idle"}]
    BY <1>1 DEF Restart, Answers
  <1>5. TypeOK'
    BY <1>1, <1>3, <1>4 DEF Restart, TypeOK, UsersTypeOK
  <1>6. \A q \in Requests : CallOK(q)'
    BY <1>2, <1>3 DEF CallOK, Completed, Awaits
  <1>7. QED
    BY <1>5, <1>6 DEF InviteInv

(* A step of somebody else who uses the table keeps it too. *)
LEMMA NeighbourKeeps ==
    ASSUME InviteInv, UsersGrow, UsersTypeOK', now' \in Nat \ {0}, life' \in Nat \ {0},
           UNCHANGED <<invites, pc, argVars, taken, calledAt>>
    PROVE  InviteInv'
  <1>1. TypeOK'
    BY DEF InviteInv, TypeOK, argVars
  <1>2. ASSUME NEW q \in Requests
        PROVE  CallOK(q)'
    BY DEF InviteInv, CallOK, Completed, Matches, EmailOf, UsersGrow, argVars
  <1>3. QED
    BY <1>1, <1>2 DEF InviteInv

(* Every step keeps the invariant. *)
LEMMA InviteStep ==
    ASSUME InviteInv, [Next]_vars
    PROVE  InviteInv'
  <1>1. CASE TimePasses \/ UNCHANGED vars
    <2>1. /\ UNCHANGED <<users, invites, pc, call, given, taken, calledAt, life>>
          /\ now' \in Nat \ {0}
      BY <1>1 DEF TimePasses, Tick, vars, argVars, InviteInv, TypeOK
    <2>2. QED
      BY <2>1 DEF InviteInv, TypeOK, UsersTypeOK, CallOK,
                  Completed, Matches, EmailOf
  <1>2. QED
    BY <1>1, ArriveKeeps, ProceedKeeps, RestartKeeps DEF Next

(* The process starts in order. *)
LEMMA InviteInit ==
    ASSUME Init
    PROVE  InviteInv
  <1>1. TypeOK
    BY SeedOfTwo DEF Init, ClockInit, UsersInit, TypeOK, UsersTypeOK
  <1>2. \A q \in Requests : CallOK(q)
    BY DEF Init, CallOK, Completed, Awaits
  <1>3. QED
    BY <1>1, <1>2 DEF InviteInv

(* The invariant holds in every reachable state. *)
LEMMA InviteInvHolds == Spec => []InviteInv
  <1>1. Init => InviteInv
    BY InviteInit
  <1>2. InviteInv /\ [Next]_vars => InviteInv'
    BY InviteStep
  <1>3. QED
    BY <1>1, <1>2, PTL DEF Spec
------------------------------------------------------------------------------
(* Every reachable state of InviteUserService is well typed. *)
THEOREM InvitesTyped == Spec => []TypeOK
  <1>1. InviteInv => TypeOK
    BY DEF InviteInv
  <1>2. QED
    BY <1>1, InviteInvHolds, PTL

(* All that a step does to the invites. *)
LEMMA InvitesMove ==
    ASSUME InviteInv, [Next]_vars
    PROVE  \/ Restart \/ invites' = invites
           \/ \E r \in Requests : InviteIssue(r)
           \/ \E t \in DOMAIN invites : Deactivate(t)
  <1>1. ASSUME NEW r \in Requests, Arrive(r)
        PROVE  invites' = invites \/ \E t \in DOMAIN invites : Deactivate(t)
    BY <1>1 DEF Arrive, InviteStart, CompleteStart, Validate, Cancel, Matches
  <1>2. ASSUME NEW r \in Requests, Proceed(r), ~InviteIssue(r), ~CompleteSucceed(r)
        PROVE  invites' = invites \/ \E t \in DOMAIN invites : Deactivate(t)
    BY <1>2 DEF Proceed, InviteConflict, ResendUnknown, InviteSent, CompleteConflict,
       CompleteRefuse, CompleteExpire, CompleteAccept, CompleteCreate, HashFails,
       Usable, Matches
  <1>3. ASSUME NEW r \in Requests, CompleteSucceed(r)
        PROVE  \E t \in DOMAIN invites : Deactivate(t)
    BY <1>3 DEF CompleteSucceed, InviteInv, CallOK, Matches
  <1>4. QED
    BY <1>1, <1>2, <1>3 DEF Next, TimePasses, vars

(* Short of a restart no invite goes away. *)
LEMMA InvitesOnlyGrow ==
    ASSUME InviteInv, [Next]_vars, ~Restart
    PROVE  InvitesGrow
  <1>1. ASSUME NEW r \in Requests, InviteIssue(r)
        PROVE  InvitesGrow
    <2>1. EmailOf(r) \in Emails /\ now + InviteTtl \in Nat
      BY <1>1, EmailTyped, InviteAssumption DEF InviteIssue, Awaits, InviteInv, TypeOK
    <2>2. PICK x \in Invite : /\ x.email = EmailOf(r) /\ x.active = TRUE
                              /\ invites' = Append(Superseded(EmailOf(r)), x)
      BY <1>1, <2>1 DEF InviteIssue, Invite
    <2>3. QED
      BY <2>1, <2>2, IssueGrows
  <1>2. QED
    BY <1>1, InvitesMove, SameInvites, DeactivateGrows

(* Whoever is in the table beyond its seed was invited, where this service *)
(* is the only one to write it.                                            *)
NewcomersInvited == \A u \in DOMAIN users : u > 2 => EverInvited(users[u].email)

(* Every step keeps that. *)
LEMMA NewcomersStep ==
    ASSUME InviteInv, NewcomersInvited, [Next]_vars
    PROVE  NewcomersInvited'
  <1>1. CASE Restart
    BY <1>1, SeedOfTwo DEF Restart, NewcomersInvited
  <1>2. CASE users' = users /\ ~Restart
    BY <1>2, InvitesOnlyGrow DEF NewcomersInvited, EverInvited, InvitesGrow
  <1>3. ASSUME NEW r \in Requests, CompleteCreate(r)
        PROVE  NewcomersInvited'
    <2>1. pc[r] = "completeHash" /\ EmailOf(r) \in Emails /\ Hashed(call[r].password) \in Password
      BY <1>3, EmailTyped DEF CompleteCreate, Awaits, Hashed, Password, Call
    <2>2. /\ UsersGrow /\ DOMAIN users' = 1 .. Len(users) + 1
          /\ users'[Len(users) + 1].email = EmailOf(r)
      BY <1>3, <2>1, CreateGrows DEF CompleteCreate
    <2>3. Matches(given[r], EmailOf(r)) /\ invites' = invites
      BY <1>3, <2>1 DEF InviteInv, CallOK, CompleteCreate
    <2>4. ASSUME NEW u \in DOMAIN users', u > 2
          PROVE  \E i \in DOMAIN invites : invites[i].email = users'[u].email
      <3>1. CASE u \in DOMAIN users
        BY <2>2, <2>4, <3>1 DEF UsersGrow, NewcomersInvited, EverInvited
      <3>2. CASE u = Len(users) + 1
        BY <2>2, <2>3, <3>2 DEF Matches
      <3>3. QED
        BY <2>2, <3>1, <3>2, ArraysTyped
    <2>5. QED
      BY <2>3, <2>4 DEF NewcomersInvited, EverInvited
  <1>4. users' = users \/ Restart \/ \E r \in Requests : CompleteCreate(r)
    <2>1. ASSUME NEW r \in Requests, Arrive(r)
          PROVE  users' = users
      BY <2>1 DEF Arrive, InviteStart, CompleteStart, Validate, Cancel
    <2>2. ASSUME NEW r \in Requests, Proceed(r), ~CompleteCreate(r)
          PROVE  users' = users
      BY <2>2 DEF Proceed, InviteConflict, ResendUnknown, InviteIssue, InviteSent,
         CompleteConflict, CompleteRefuse, CompleteExpire, CompleteAccept,
         CompleteSucceed, HashFails
    <2>3. QED
      BY <2>1, <2>2 DEF Next, TimePasses, vars
  <1>5. QED
    BY <1>1, <1>2, <1>3, <1>4

(* completeSignUp registers nobody but who was invited by that email.      *)
THEOREM NewcomersWereInvited == Spec => []RegisteredWereInvited
  <1>1. Init => NewcomersInvited
    BY SeedOfTwo DEF Init, UsersInit, NewcomersInvited
  <1>2. InviteInv /\ NewcomersInvited /\ [Next]_vars => NewcomersInvited'
    BY NewcomersStep
  <1>3. InviteInv /\ NewcomersInvited => RegisteredWereInvited
    <2>1. Len(SeedUsers) = 2
      BY SeedOfTwo
    <2>2. QED
      BY <2>1 DEF InviteInv, NewcomersInvited, CallOK, RegisteredWereInvited
  <1>4. QED
    BY <1>1, <1>2, <1>3, InviteInvHolds, PTL DEF Spec

(* Who steps from one await to the next, or to an answer of the service.   *)
LEMMA OnlyOwnSteps ==
    ASSUME InviteInv, Next, NEW r \in Requests, pc'[r] # pc[r], pc'[r] # "lost"
    PROVE  Arrive(r) \/ Proceed(r)
  <1>1. /\ pc \in [Requests -> Awaits \cup Answers \cup {"idle"}]
        /\ ~TimePasses
    BY DEF InviteInv, TypeOK, TimePasses
  <1>2. ~Restart
    BY <1>1 DEF Restart
  <1>3. ASSUME NEW q \in Requests, q # r, Arrive(q) \/ Proceed(q)
        PROVE  pc'[r] = pc[r]
    BY <1>1, <1>3 DEF Arrive, Proceed, InviteStart, CompleteStart, Validate, Cancel,
       InviteConflict, ResendUnknown, InviteIssue, InviteSent, CompleteConflict,
       CompleteRefuse, CompleteExpire, CompleteAccept, CompleteCreate, CompleteSucceed,
       HashFails, Answer, Await
  <1>4. QED
    BY <1>1, <1>2, <1>3 DEF Next

(* A completion is answered with success by completeSignUp's last step.    *)
LEMMA SuccessIsCompletion ==
    ASSUME InviteInv, [Next]_vars, NEW r \in Requests,
           pc[r] # "ok", pc'[r] = "ok", call[r].op = "complete"
    PROVE  CompleteSucceed(r)
  <1>1. pc \in [Requests -> Awaits \cup Answers \cup {"idle"}]
    BY DEF InviteInv, TypeOK
  <1>2. Arrive(r) \/ Proceed(r)
    BY OnlyOwnSteps DEF vars
  <1>3. ~Arrive(r)
    BY <1>1 DEF Arrive, InviteStart, CompleteStart, Validate, Cancel, Answer
  <1>4. ~InviteSent(r)
    BY DEF InviteSent, InviteInv, CallOK
  <1>5. QED
    BY <1>1, <1>2, <1>3, <1>4 DEF Proceed, InviteConflict, ResendUnknown, InviteIssue,
       CompleteConflict, CompleteRefuse, CompleteExpire, CompleteAccept, CompleteCreate,
       HashFails, Answer, Await

(* It has then spent its invite and registered its user. *)
LEMMA CompletionStep ==
    ASSUME InviteInv, [Next]_vars, NEW r \in Requests,
           pc[r] # "ok", pc'[r] = "ok", call[r].op = "complete"
    PROVE  /\ ~invites'[given[r]].active
           /\ \E u \in DOMAIN users' : users'[u].email = EmailOf(r)
  <1>1. CompleteSucceed(r) /\ CallOK(r)
    BY SuccessIsCompletion DEF InviteInv
  <1>2. given[r] \in DOMAIN invites /\ Deactivate(given[r]) /\ users' = users
    BY <1>1 DEF CompleteSucceed, CallOK, Matches
  <1>3. ~invites'[given[r]].active
    BY <1>2, DeactivateGrows
  <1>4. QED
    BY <1>1, <1>2, <1>3 DEF CompleteSucceed, CallOK

(* An answered completion has spent its invite and registered its user,    *)
(* for any number of overlapping calls.                                    *)
THEOREM CompletionsSpend == Spec => CompletionSpendsInvite
  <1>1. InviteInv /\ [Next]_vars =>
            [\A r \in Requests :
                pc[r] # "ok" /\ pc'[r] = "ok" /\ call[r].op = "complete" =>
                    /\ ~invites'[given[r]].active
                    /\ \E u \in DOMAIN users' : users'[u].email = EmailOf(r)]_vars
    BY CompletionStep
  <1>2. QED
    BY <1>1, InviteInvHolds, PTL DEF Spec, CompletionSpendsInvite

(* What lets a call in finds its invite active, and settled ones are not.  *)
LEMMA SettledStep ==
    ASSUME InviteInv, [Next]_vars, NEW r \in Requests, NEW s \in Requests,
           pc[r] = "completeLookup", pc'[r] = "completeHash",
           Completed(s) \/ pc[s] = "canceled"
    PROVE  given[r] # given[s]
  <1>1. pc \in [Requests -> Awaits \cup Answers \cup {"idle"}]
    BY DEF InviteInv, TypeOK
  <1>2. Arrive(r) \/ Proceed(r)
    BY OnlyOwnSteps DEF vars
  <1>3. CompleteAccept(r)
    BY <1>1, <1>2 DEF Arrive, Proceed, InviteStart, CompleteStart, Validate, Cancel,
       Called, InviteConflict, ResendUnknown, InviteIssue, InviteSent, CompleteConflict,
       CompleteRefuse, CompleteExpire, CompleteCreate, CompleteSucceed, HashFails,
       Answer, Await
  <1>4. given[r] \in DOMAIN invites /\ invites[given[r]].active
    BY <1>3 DEF CompleteAccept, Usable, Matches
  <1>5. given[s] # 0 => ~invites[given[s]].active
    BY DEF InviteInv, CallOK
  <1>6. given[r] # 0
    BY <1>4, ArraysTyped
  <1>7. QED
    BY <1>4, <1>5, <1>6

(* No call is let in with an invite whose completion or cancellation was   *)
(* answered, for any number of overlapping calls, invites and restarts.    *)
THEOREM SettledForGood == Spec => SettledInvitesStaySettled
  <1>1. InviteInv /\ [Next]_vars =>
            [\A r, s \in Requests :
                /\ pc[r] = "completeLookup" /\ pc'[r] = "completeHash"
                /\ Completed(s) \/ pc[s] = "canceled"
                => given[r] # given[s]]_vars
    BY SettledStep
  <1>2. QED
    BY <1>1, InviteInvHolds, PTL DEF Spec, SettledInvitesStaySettled
------------------------------------------------------------------------------
(* InvitesKept *)

(* The refinement mapping. *)
Invited == [i \in DOMAIN invites |-> invites[i].email]
Open    == {i \in DOMAIN invites : invites[i].active}

(* To deactivate one invite is to withdraw it, or nothing. *)
LEMMA DeactivateMaps ==
    ASSUME InviteInv, NEW t \in DOMAIN invites, Deactivate(t)
    PROVE  /\ Invited' = Invited
           /\ Open' = Open \/ \E i \in Open : Open' = Open \ {i}
  <1>1. /\ DOMAIN invites' = DOMAIN invites /\ ~invites'[t].active
        /\ \A i \in DOMAIN invites : i # t => invites'[i] = invites[i]
        /\ \A i \in DOMAIN invites : invites'[i].email = invites[i].email
    BY DeactivateGrows DEF InvitesGrow
  <1>2. Invited' = Invited
    BY <1>1 DEF Invited
  <1>3. Open' = Open \ {t}
    BY <1>1 DEF Open
  <1>4. QED
    BY <1>2, <1>3

(* To issue an invite is the abstract issue, for the email invited. *)
LEMMA IssueMaps ==
    ASSUME InviteInv, NEW r \in Requests, InviteIssue(r)
    PROVE  InviteTokens!Issue
  <1> DEFINE n == Len(invites)
             e == EmailOf(r)
  <1>1. n \in Nat /\ DOMAIN invites = 1 .. n /\ e \in Emails
    BY ArraysTyped, EmailTyped DEF InviteIssue, Awaits
  <1>2. PICK x \in Invite : /\ x.email = e /\ x.active = TRUE
                            /\ invites' = Append(Superseded(e), x)
    <2>1. now + InviteTtl \in Nat
      BY InviteAssumption DEF InviteInv, TypeOK
    <2>2. QED
      BY <1>1, <2>1 DEF InviteIssue, Invite
  <1>3. /\ DOMAIN invites' = 1 .. n + 1 /\ invites'[n + 1] = x
        /\ \A i \in 1 .. n : invites'[i].email = invites[i].email
        /\ \A i \in 1 .. n : invites'[i].active <=> invites[i].active /\ invites[i].email # e
    BY <1>1, <1>2, IssueGrows DEF InvitesGrow
  <1> HIDE DEF n, e
  <1>4. Invited \in Seq(Emails) /\ Len(Invited) = n /\ \A i \in 1 .. n : Invited[i] = invites[i].email
    <2>1. ASSUME NEW i \in 1 .. n
          PROVE  invites[i].email \in Emails
      <3>1. invites[i] \in Invite
        BY <1>1, ArraysTyped
      <3>2. QED
        BY <3>1 DEF Invite
    <2>2. Invited \in [1 .. n -> Emails]
      BY <1>1, <2>1 DEF Invited
    <2>3. QED
      BY <1>1, <2>2, SeqDef, LenProperties DEF Invited
  <1>5. /\ Invited' \in [1 .. n + 1 -> Emails] /\ n + 1 \in Nat
        /\ \A i \in 1 .. n : Invited'[i] = Invited[i]
        /\ Invited'[n + 1] = e
    <2>1. Invited' = [i \in 1 .. n + 1 |-> invites'[i].email]
      BY <1>3 DEF Invited
    <2>2. \A i \in 1 .. n : invites'[i].email = Invited[i] /\ Invited[i] \in Emails
      BY <1>1, <1>3, <1>4, ElementOfSeq
    <2>3. QED
      BY <1>1, <1>2, <1>3, <2>1, <2>2
  <1>6. Invited' = Append(Invited, e)
    <2>1. Invited' \in Seq(Emails) /\ Len(Invited') = n + 1
      BY <1>5, SeqDef, LenProperties
    <2>2. /\ Append(Invited, e) \in Seq(Emails) /\ Len(Append(Invited, e)) = n + 1
          /\ \A i \in 1 .. n : Append(Invited, e)[i] = Invited[i]
          /\ Append(Invited, e)[n + 1] = e
      BY <1>1, <1>4, AppendProperties
    <2>3. \A i \in 1 .. n + 1 : Invited'[i] = Append(Invited, e)[i]
      BY <1>1, <1>5, <2>2
    <2>4. QED
      BY <2>1, <2>2, <2>3, SeqEqual
  <1>7. Len(Invited') = n + 1 /\ DOMAIN Invited' = 1 .. n + 1
    BY <1>5, SeqDef, LenProperties
  <1>8. Open' = {i \in Open : Invited[i] # e} \cup {n + 1}
    BY <1>1, <1>2, <1>3, <1>4 DEF Open
  <1>9. QED
    BY <1>1, <1>5, <1>6, <1>7, <1>8 DEF InviteTokens!Issue, Invited, Open

(* Every step maps to a step of OneTimeTokens, or to none. *)
LEMMA InvitesStepMaps ==
    ASSUME InviteInv, [Next]_vars
    PROVE  [InviteTokens!TokensNext]_(InviteTokens!tokenVars)
  <1> USE DEF InviteTokens!TokensNext, InviteTokens!tokenVars
  <1>1. CASE Restart
    BY <1>1 DEF Restart, InviteTokens!LoseAll
  <1>2. ASSUME NEW r \in Requests, InviteIssue(r)
        PROVE  InviteTokens!Issue
    BY <1>2, IssueMaps
  <1>3. ASSUME NEW t \in DOMAIN invites, Deactivate(t)
        PROVE  [InviteTokens!TokensNext]_(InviteTokens!tokenVars)
    <2>1. /\ Invited' = Invited
          /\ Open' = Open \/ \E i \in Open : Open' = Open \ {i}
      BY <1>3, DeactivateMaps
    <2>2. QED
      BY <2>1 DEF InviteTokens!Withdraw, Invited, Open
  <1>4. CASE invites' = invites
    BY <1>4
  <1>5. QED
    BY <1>1, <1>2, <1>3, <1>4, InvitesMove

(* The invites implement OneTimeTokens: no overlap of calls, and no        *)
(* restart, makes an invite usable again once it was superseded,           *)
(* completed, cancelled or found expired.                                  *)
THEOREM InvitesRefine == Spec => InvitesKept
  <1>1. Init => InviteTokens!TokensInit
    BY DEF Init, InviteTokens!TokensInit
  <1>2. InviteInv /\ [Next]_vars => [InviteTokens!TokensNext]_(InviteTokens!tokenVars)
    BY InvitesStepMaps
  <1>3. QED
    BY <1>1, <1>2, InviteInvHolds, PTL DEF Spec, InvitesKept, InviteTokens!TokensSpec
==============================================================================

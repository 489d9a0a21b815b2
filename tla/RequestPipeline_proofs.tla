------------------------ MODULE RequestPipeline_proofs ------------------------
(***************************************************************************)
(* Access tokens outlive the process that signed them and its user table.  *)
(* They stay true about rights because ids are positions and the role of a *)
(* position never differs between two tables: the seed puts the one        *)
(* administrator first, and whoever registers becomes a user.              *)
(***************************************************************************)
EXTENDS RequestPipeline, SequenceTheorems, TLAPS

(* The role of the user with this id, in every process. *)
RoleById(id) == IF id = 0 THEN "ADMIN" ELSE "USER"

TableInv == /\ users \in Seq(User)
            /\ Len(users) >= 2
            /\ \A u \in DOMAIN users : users[u].role = RoleById(u - 1)

TokenOK(t) == /\ t.userId \in Nat /\ t.life \in Nat /\ t.life <= life
              /\ t.role = RoleById(t.userId)
              /\ t.permissions = GetPermissionsByRole(t.role)
              /\ t.life = life => /\ t.userId < Len(users)
                                  /\ users[t.userId + 1].person = t.person

TokensInv == \A t \in accessTokens : TokenOK(t)

(* Behind JwtAuthGuard the caller is what its token says, and behind       *)
(* AuthorizationGuard the route's demands are met.                         *)
Guarded(r) ==
    /\ pc[r] \in {"authenticating", "handling"} /\ request[r].route \in Authenticated =>
          bearer[r] \in accessTokens /\ caller[r] = Validate(bearer[r])
    /\ pc[r] = "handling" /\ request[r].route \in Authorized =>
          CanActivate(request[r].route, caller[r], request[r].id)

Maps == /\ DOMAIN pc = Requests /\ DOMAIN request = Requests
        /\ DOMAIN bearer = Requests /\ DOMAIN caller = Requests
        /\ DOMAIN profile = Requests

(* The inductive invariant. *)
PipelineInv == /\ life \in Nat \ {0} /\ Maps
               /\ TableInv /\ TokensInv
               /\ \A r \in Requests : Guarded(r)

(* The seed: the administrator first, then a user. *)
LEMMA SeedTable ==
    /\ SeedUsers \in Seq(User) /\ Len(SeedUsers) = 2
    /\ \A u \in DOMAIN SeedUsers : SeedUsers[u].role = RoleById(u - 1)
  <1>1. Admin \in People /\ Bueno \in People
    BY PipelineAssumption
  <1>2. /\ [person |-> Admin, role |-> "ADMIN"] \in User
        /\ [person |-> Bueno, role |-> "USER"] \in User
    BY <1>1 DEF User, Roles
  <1>3. SeedUsers \in Seq(User) /\ Len(SeedUsers) = 2
    BY <1>2 DEF SeedUsers
  <1>4. SeedUsers[1].role = "ADMIN" /\ SeedUsers[2].role = "USER"
    BY DEF SeedUsers
  <1>5. DOMAIN SeedUsers = {1, 2}
    BY DEF SeedUsers
  <1>6. QED
    BY <1>3, <1>4, <1>5 DEF RoleById

(* A registration takes the next id and the role of a user. *)
LEMMA TableGrows ==
    ASSUME TableInv, NEW person \in People, users' = Append(users, NewUser(person))
    PROVE  /\ TableInv' /\ Len(users') = Len(users) + 1
           /\ users'[Len(users) + 1] = NewUser(person)
           /\ \A u \in 1 .. Len(users) : users'[u] = users[u]
           /\ Len(users) \in Nat
  <1>1. NewUser(person) \in User /\ NewUser(person).role = "USER"
    BY DEF NewUser, User, Roles
  <1>2. /\ Len(users) \in Nat /\ DOMAIN users = 1 .. Len(users) /\ Len(users) >= 2
        /\ users \in Seq(User)
    BY DEF TableInv
  <1> HIDE DEF NewUser
  <1>3. /\ users' \in Seq(User) /\ Len(users') = Len(users) + 1
        /\ DOMAIN users' = 1 .. Len(users) + 1
        /\ users'[Len(users) + 1] = NewUser(person)
        /\ \A u \in 1 .. Len(users) : users'[u] = users[u]
    BY <1>1, <1>2
  <1>4. \A u \in DOMAIN users' : users'[u].role = RoleById(u - 1)
    <2>1. ASSUME NEW u \in 1 .. Len(users) + 1
          PROVE  users'[u].role = RoleById(u - 1)
      <3>1. CASE u \in 1 .. Len(users)
        BY <1>2, <1>3, <3>1 DEF TableInv
      <3>2. CASE u = Len(users) + 1
        BY <1>1, <1>2, <1>3, <3>2 DEF RoleById
      <3>3. QED
        BY <1>2, <3>1, <3>2
    <2>2. QED
      BY <1>3, <2>1
  <1>5. QED
    BY <1>2, <1>3, <1>4 DEF TableInv

(* Tokens stay true while the table only grows. *)
LEMMA TokensKept ==
    ASSUME TableInv, TokensInv, life' = life, Len(users') \in Nat,
           Len(users') >= Len(users),
           \A u \in 1 .. Len(users) : users'[u] = users[u]
    PROVE  \A t \in accessTokens : TokenOK(t)'
  <1>1. Len(users) \in Nat
    BY DEF TableInv
  <1>2. QED
    BY <1>1 DEF TokensInv, TokenOK

(* A token signed for a user of the table says what the table says. *)
LEMMA SignedIsTrue ==
    ASSUME life \in Nat \ {0}, life' = life, NEW id \in Nat, NEW u, NEW t, t = Sign(id, u),
           id < Len(users'), users'[id + 1] = u, u.role = RoleById(id)
    PROVE  TokenOK(t)'
  <1>1. /\ t.userId = id /\ t.role = u.role /\ t.permissions = GetPermissionsByRole(u.role)
        /\ t.person = u.person /\ t.life = life
    BY DEF Sign
  <1>2. QED
    BY <1>1 DEF TokenOK

(* What a step of the request r leaves alone of the other requests. *)
Elsewhere(r) ==
    /\ Maps'
    /\ \A q \in Requests \ {r} :
          /\ pc'[q] = pc[q] /\ request'[q] = request[q]
          /\ bearer'[q] = bearer[q] /\ caller'[q] = caller[q]

(* A step that neither takes a token back nor leaves r with a caller that  *)
(* its token does not name keeps the guards' work.                         *)
LEMMA GuardedStep ==
    ASSUME \A q \in Requests : Guarded(q), NEW r \in Requests, Elsewhere(r), Guarded(r)',
           accessTokens \subseteq accessTokens'
    PROVE  \A q \in Requests : Guarded(q)'
  <1>1. ASSUME NEW q \in Requests, q # r
        PROVE  Guarded(q)'
    <2>1. Guarded(q) /\ q \in Requests \ {r}
      BY <1>1
    <2>2. QED
      BY <2>1 DEF Elsewhere, Guarded, Validate
  <1>2. QED
    BY <1>1

(* A step that answers r leaves nothing to say of r. *)
LEMMA AnswerGuarded ==
    ASSUME Maps, NEW r \in Requests, NEW a \in Answers, Answer(r, a), DOMAIN profile' = Requests
    PROVE  Elsewhere(r) /\ Guarded(r)'
  <1>1. a \notin {"authenticating", "handling"}
    BY DEF Answers
  <1>2. Elsewhere(r)
    BY DEF Maps, Answer, Forget, Elsewhere
  <1>3. pc'[r] = a
    BY DEF Maps, Answer
  <1>4. QED
    BY <1>1, <1>2, <1>3 DEF Guarded

(* A step of r that leaves the table and the tokens alone. *)
LEMMA FilterStep ==
    ASSUME PipelineInv, NEW r \in Requests, UNCHANGED <<users, accessTokens, life>>,
           Elsewhere(r), Guarded(r)'
    PROVE  PipelineInv'
  <1>1. TableInv' /\ TokensInv' /\ life' \in Nat \ {0} /\ Maps'
    BY DEF PipelineInv, TableInv, TokensInv, TokenOK, Elsewhere
  <1>2. \A q \in Requests : Guarded(q)'
    BY GuardedStep DEF PipelineInv
  <1>3. QED
    BY <1>1, <1>2 DEF PipelineInv

(* The middleware and the guards. *)
Filters(r) == \/ \E q \in Queries, b \in accessTokens \cup {NoBearer, Opaque} : Arrive(r, q, b)
              \/ Throttle(r) \/ PassOpen(r) \/ PassIntegration(r)
              \/ Authenticate(r) \/ Authorize(r)

(* They let nobody through but as Guarded says. *)
LEMMA FiltersKeep ==
    ASSUME PipelineInv, NEW r \in Requests, Filters(r)
    PROVE  PipelineInv'
  <1>1. /\ Maps /\ UNCHANGED <<users, accessTokens, life>> /\ DOMAIN profile' = Requests
        /\ Guarded(r)
    BY DEF PipelineInv, Maps, Filters, Arrive, Throttle, PassOpen, PassIntegration,
           Authenticate, Authorize
  <1>2. CASE \E a \in Answers : Answer(r, a)
    BY <1>1, <1>2, AnswerGuarded, FilterStep
  <1>3. CASE \E q \in Queries, b \in accessTokens \cup {NoBearer, Opaque} :
                Arrive(r, q, b) /\ CsrfPasses(config, q.route, q.headers)
    <2>1. pc'[r] = "throttling" /\ Elsewhere(r)
      BY <1>1, <1>3 DEF Arrive, Maps, Elsewhere
    <2>2. QED
      BY <1>1, <2>1, FilterStep DEF Guarded
  <1>4. ASSUME PassOpen(r) \/ PassIntegration(r), GoOn(r, "handling") /\ UNCHANGED caller
        PROVE  PipelineInv'
    <2>1. request'[r].route \notin Authenticated
      BY <1>4 DEF PassOpen, PassIntegration, GoOn, OpenRoutes, Authenticated, Authorized,
                  AdminRoutes, InviteAdmin, ProbeRoutes, Integrations
    <2>2. Elsewhere(r)
      BY <1>1, <1>4 DEF GoOn, Maps, Elsewhere
    <2>3. QED
      BY <1>1, <2>1, <2>2, FilterStep DEF Guarded, Authenticated
  <1>5. CASE Authenticate(r) /\ SignedIn(bearer[r])
    <2>1. /\ pc'[r] = "authenticating" /\ bearer'[r] = bearer[r]
          /\ bearer[r] \in accessTokens /\ caller'[r] = Validate(bearer[r])
          /\ Elsewhere(r)
      BY <1>1, <1>5 DEF Authenticate, GoOn, SignedIn, Maps, Elsewhere
    <2>2. QED
      BY <1>1, <2>1, FilterStep DEF Guarded, Validate
  <1>6. CASE Authorize(r) /\ GoOn(r, "handling")
    <2>1. CASE request[r].route \in Authorized =>
                 CanActivate(request[r].route, caller[r], request[r].id)
      <3>1. /\ pc[r] = "authenticating" /\ pc'[r] = "handling"
            /\ UNCHANGED <<request, bearer, caller>> /\ Elsewhere(r)
        BY <1>1, <1>6, <2>1 DEF Authorize, GoOn, Maps, Elsewhere
      <3>2. QED
        BY <1>1, <2>1, <3>1, FilterStep DEF Guarded, Validate, CanActivate, Policy
    <2>2. CASE ~(request[r].route \in Authorized =>
                 CanActivate(request[r].route, caller[r], request[r].id))
      BY <1>2, <1>6, <2>2 DEF Authorize, Answers
    <2>3. QED
      BY <2>1, <2>2
  <1>7. QED
    BY <1>2, <1>3, <1>4, <1>5, <1>6 DEF Filters, Arrive, Throttle, PassOpen,
       PassIntegration, Authenticate, Authorize, Answers

(* What the handlers do to the table and the tokens. *)
LEMMA HandlersKeep ==
    ASSUME PipelineInv, NEW r \in Requests,
           \/ HandlerThrows(r) \/ Register(r) \/ HandTokens(r)
           \/ Me(r) \/ FindById(r) \/ OtherHandler(r)
    PROVE  PipelineInv'
  <1>1. /\ Maps /\ TableInv /\ TokensInv /\ life' = life /\ life \in Nat \ {0}
        /\ Len(users) \in Nat /\ DOMAIN users = 1 .. Len(users)
        /\ DOMAIN profile' = Requests
    BY DEF PipelineInv, Maps, TableInv, HandlerThrows, Register, HandTokens, Me, FindById,
           OtherHandler
  <1>2. \E a \in Answers : Answer(r, a)
    BY DEF HandlerThrows, Register, HandTokens, Me, FindById, OtherHandler, Answers
  <1>3. Elsewhere(r) /\ Guarded(r)'
    BY <1>1, <1>2, AnswerGuarded
  <1>4. CASE UNCHANGED <<users, accessTokens>>
    BY <1>1, <1>3, <1>4, FilterStep
  <1>5. CASE Register(r)
    <2>1. PICK person \in People :
              /\ users' = Append(users, NewUser(person))
              /\ \/ accessTokens' = accessTokens
                 \/ accessTokens' = accessTokens \cup {Sign(Len(users), NewUser(person))}
      BY <1>5 DEF Register, HandToClient
    <2>2. PICK t : t = Sign(Len(users), NewUser(person))
      OBVIOUS
    <2>3. /\ TableInv' /\ Len(users') = Len(users) + 1
          /\ users'[Len(users) + 1] = NewUser(person)
          /\ \A u \in 1 .. Len(users) : users'[u] = users[u]
      BY <1>1, <2>1, TableGrows
    <2>4. \A k \in accessTokens : TokenOK(k)'
      BY <1>1, <2>3, TokensKept
    <2>5. NewUser(person).role = RoleById(Len(users))
      BY <1>1 DEF NewUser, RoleById, TableInv
    <2>6. TokenOK(t)'
      BY <1>1, <2>2, <2>3, <2>5, SignedIsTrue
    <2>7. TokensInv'
      BY <2>1, <2>2, <2>4, <2>6 DEF TokensInv
    <2>8. \A q \in Requests : Guarded(q)'
      BY <1>3, <2>1, GuardedStep DEF PipelineInv
    <2>9. QED
      BY <1>1, <1>3, <2>3, <2>7, <2>8 DEF PipelineInv, Elsewhere
  <1>6. CASE HandTokens(r)
    <2>1. PICK u \in DOMAIN users : accessTokens' = accessTokens \cup {Sign(u - 1, users[u])}
      BY <1>6 DEF HandTokens, HandToClient
    <2>2. PICK t : t = Sign(u - 1, users[u])
      OBVIOUS
    <2>3. users' = users /\ TableInv'
      BY <1>1, <1>6 DEF HandTokens, TableInv
    <2>4. \A k \in accessTokens : TokenOK(k)'
      BY <1>1, <2>3, TokensKept
    <2>5. PICK id \in Nat, w \in User : id = u - 1 /\ w = users[u]
      BY <1>1, ElementOfSeq DEF TableInv
    <2>6. id < Len(users') /\ users'[id + 1] = w /\ w.role = RoleById(id)
      BY <1>1, <2>3, <2>5 DEF TableInv
    <2>7. TokenOK(t)'
      BY <1>1, <2>2, <2>5, <2>6, SignedIsTrue
    <2>8. TokensInv'
      BY <2>1, <2>2, <2>4, <2>7 DEF TokensInv
    <2>9. \A q \in Requests : Guarded(q)'
      BY <1>3, <2>1, GuardedStep DEF PipelineInv
    <2>10. QED
      BY <1>1, <1>3, <2>3, <2>8, <2>9 DEF PipelineInv, Elsewhere
  <1>7. QED
    BY <1>4, <1>5, <1>6 DEF HandlerThrows, Me, FindById, OtherHandler

(* A restart puts the seed back: the tokens of the lifetimes before name   *)
(* ids whose roles have not changed.                                       *)
LEMMA RestartKeeps ==
    ASSUME PipelineInv, Restart
    PROVE  PipelineInv'
  <1>1. TableInv' /\ Len(users') = 2
    BY SeedTable DEF Restart, TableInv
  <1>2. life' = life + 1 /\ life \in Nat \ {0} /\ accessTokens' = accessTokens
    BY DEF Restart, PipelineInv
  <1>3. TokensInv'
    BY <1>2 DEF PipelineInv, TokensInv, TokenOK
  <1>4. \A r \in Requests : pc'[r] \notin {"authenticating", "handling"}
    BY DEF Restart, Stages
  <1>5. Maps'
    BY DEF Restart, Maps, PipelineInv
  <1>6. QED
    BY <1>1, <1>2, <1>3, <1>4, <1>5 DEF PipelineInv, Guarded

(* Every step keeps the invariant. *)
LEMMA PipelineStep ==
    ASSUME PipelineInv, [Next]_vars
    PROVE  PipelineInv'
  <1>1. CASE TimePasses \/ UNCHANGED vars
    BY <1>1 DEF TimePasses, vars, requestVars, PipelineInv, Maps, TableInv, TokensInv,
                TokenOK, Guarded, Validate, CanActivate, Policy
  <1>2. QED
    BY <1>1, FiltersKeep, HandlersKeep, RestartKeeps DEF Next, Filters

(* The process starts in order. *)
LEMMA PipelineStart ==
    ASSUME Init
    PROVE  PipelineInv
  <1>1. TableInv
    BY SeedTable DEF Init, TableInv
  <1>2. TokensInv /\ Maps /\ life \in Nat \ {0}
    BY DEF Init, TokensInv, Maps
  <1>3. \A r \in Requests : pc[r] = "idle"
    BY DEF Init
  <1>4. QED
    BY <1>1, <1>2, <1>3 DEF PipelineInv, Guarded

(* Access tokens are true about rights and the guards let nobody through   *)
(* whom they should not, in every reachable state.                         *)
LEMMA PipelineHolds == Spec => []PipelineInv
  <1>1. Init => PipelineInv
    BY PipelineStart
  <1>2. PipelineInv /\ [Next]_vars => PipelineInv'
    BY PipelineStep
  <1>3. QED
    BY <1>1, <1>2, PTL DEF Spec
------------------------------------------------------------------------------
(* No token, of whatever lifetime, ever says more or less of its user's    *)
(* rights than the table does, for any number of users and restarts.       *)
THEOREM RolesStayCurrent == Spec => []RoleOfTokenIsCurrent
  <1>1. PipelineInv => RoleOfTokenIsCurrent
    BY DEF PipelineInv, TableInv, TokensInv, TokenOK, RoleOfTokenIsCurrent
  <1>2. QED
    BY <1>1, PipelineHolds, PTL

(* The handlers behind the administrators' routes only ever run for an     *)
(* administrator of the table as it is then.                               *)
THEOREM AdminsOnly == Spec => []AdminHandlersServeAdmins
  <1>1. ASSUME PipelineInv, NEW r \in Requests, pc[r] = "handling",
               request[r].route \in AdminRoutes
        PROVE  /\ caller[r].userId < Len(users)
               /\ users[caller[r].userId + 1].role = "ADMIN"
    <2>1. /\ bearer[r] \in accessTokens /\ caller[r] = Validate(bearer[r])
          /\ CanActivate(request[r].route, caller[r], request[r].id)
      BY <1>1 DEF PipelineInv, Guarded, Authenticated, Authorized
    <2>2. caller[r].role = "ADMIN"
      BY <1>1, <2>1 DEF CanActivate, RequiredRoles
    <2>3. /\ caller[r].userId = bearer[r].userId /\ bearer[r].role = "ADMIN"
          /\ bearer[r].userId \in Nat /\ bearer[r].role = RoleById(bearer[r].userId)
      BY <1>1, <2>1, <2>2 DEF Validate, PipelineInv, TokensInv, TokenOK
    <2>4. caller[r].userId = 0
      BY <2>3 DEF RoleById
    <2>5. QED
      BY <1>1, <2>4 DEF PipelineInv, TableInv, RoleById
  <1>2. PipelineInv => AdminHandlersServeAdmins
    BY <1>1 DEF AdminHandlersServeAdmins
  <1>3. QED
    BY <1>2, PipelineHolds, PTL

------------------------------------------------------------------------------
(* TypeOK *)

(* What TypeOK says of a request on its way. *)
RequestTypes == /\ pc \in [Requests -> Stages \cup Answers]
                /\ request \in [Requests -> Query \cup {NoRequest}]
                /\ bearer \in [Requests -> Token \cup {NoBearer, Opaque}]
                /\ caller \in [Requests -> Caller \cup {NoCaller}]

(* An answer keeps the types.                                              *)
LEMMA AnswerTyped ==
    ASSUME RequestTypes, NEW r \in Requests, NEW a \in Answers, Answer(r, a)
    PROVE  RequestTypes'
  BY DEF RequestTypes, Answer, Forget

(* Going on to the next stage keeps the types.                             *)
LEMMA GoOnTyped ==
    ASSUME RequestTypes, NEW r \in Requests, NEW stage \in Stages, GoOn(r, stage),
           caller' \in [Requests -> Caller \cup {NoCaller}]
    PROVE  RequestTypes'
  BY DEF RequestTypes, GoOn

(* A signed token is a token. *)
LEMMA SignTyped ==
    ASSUME NEW id \in Nat, NEW u \in User, now \in Nat, life \in Nat
    PROVE  Sign(id, u) \in Token
  <1>1. u.role \in Roles /\ u.person \in People
    BY DEF User
  <1>2. GetPermissionsByRole(u.role) \in SUBSET Permissions
    BY DEF GetPermissionsByRole, Permissions
  <1>3. QED
    BY <1>1, <1>2 DEF Sign, Token

(* The filters keep the types: what JwtAuthGuard makes of a token is a     *)
(* caller.                                                                 *)
LEMMA FiltersTyped ==
    ASSUME TypeOK, NEW r \in Requests, Filters(r)
    PROVE  TypeOK'
  <1>1. RequestTypes /\ UNCHANGED <<now, config, users, accessTokens, life>>
    BY DEF TypeOK, RequestTypes, Filters, Arrive, Throttle, PassOpen, PassIntegration,
           Authenticate, Authorize
  <1>2. profile' \in [Requests -> People \cup {Nobody}]
    BY DEF TypeOK, Filters, Arrive, Throttle, PassOpen, PassIntegration,
           Authenticate, Authorize
  <1>3. ASSUME \E a \in Answers : Answer(r, a)
        PROVE  RequestTypes'
    BY <1>1, <1>3, AnswerTyped
  <1>4. ASSUME \E stage \in Stages : GoOn(r, stage) /\ UNCHANGED caller
        PROVE  RequestTypes'
    BY <1>1, <1>4, GoOnTyped DEF RequestTypes
  <1>5. ASSUME NEW q \in Queries, NEW b \in accessTokens \cup {NoBearer, Opaque},
               Arrive(r, q, b), CsrfPasses(config, q.route, q.headers)
        PROVE  RequestTypes'
    <2>1. q \in Query /\ b \in Token \cup {NoBearer, Opaque}
      BY PipelineAssumption DEF TypeOK
    <2>2. QED
      BY <1>1, <1>5, <2>1 DEF Arrive, RequestTypes, Stages
  <1>6. ASSUME Authenticate(r), SignedIn(bearer[r])
        PROVE  RequestTypes'
    <2>1. Validate(bearer[r]) \in Caller
      BY <1>6 DEF TypeOK, SignedIn, Token, Caller, Validate
    <2>2. QED
      BY <1>1, <1>6, <2>1, GoOnTyped DEF Authenticate, RequestTypes, Stages
  <1>7. RequestTypes'
    BY <1>3, <1>4, <1>5, <1>6 DEF Filters, Arrive, Throttle, PassOpen, PassIntegration,
       Authenticate, Authorize, Answers, Stages
  <1>8. QED
    BY <1>1, <1>2, <1>7 DEF TypeOK, RequestTypes

(* The handlers keep the types: an id that is looked up is a number.       *)
LEMMA HandlersTyped ==
    ASSUME TypeOK, PipelineInv, NEW r \in Requests,
           \/ HandlerThrows(r) \/ Register(r) \/ HandTokens(r)
           \/ Me(r) \/ FindById(r) \/ OtherHandler(r)
    PROVE  TypeOK'
  <1>1. /\ RequestTypes /\ UNCHANGED <<now, config, life>>
        /\ Len(users) \in Nat /\ DOMAIN users = 1 .. Len(users) /\ users \in Seq(User)
        /\ now \in Nat /\ life \in Nat
    BY DEF TypeOK, RequestTypes, HandlerThrows, Register, HandTokens, Me, FindById,
           OtherHandler
  <1>2. \E a \in Answers : Answer(r, a)
    BY DEF HandlerThrows, Register, HandTokens, Me, FindById, OtherHandler, Answers
  <1>3. RequestTypes'
    BY <1>1, <1>2, AnswerTyped
  <1>4. ASSUME NEW id \in Number
        PROVE  FindOne(id) \in People \cup {Nobody}
    <2>1. CASE id \in 0 .. Len(users) - 1
      <3>1. users[id + 1] \in User
        BY <1>1, <2>1, ElementOfSeq
      <3>2. QED
        BY <2>1, <3>1 DEF FindOne, User
    <2>2. QED
      BY <2>1 DEF FindOne
  <1>5. profile' \in [Requests -> People \cup {Nobody}]
    <2>1. CASE Me(r)
      <3>1. caller[r].userId \in Nat
        <4>1. bearer[r] \in accessTokens /\ caller[r] = Validate(bearer[r])
          BY <2>1 DEF Me, PipelineInv, Guarded, Authenticated, Authorized
        <4>2. QED
          BY <4>1 DEF PipelineInv, TokensInv, TokenOK, Validate
      <3>2. QED
        BY <1>4, <2>1, <3>1 DEF Me, TypeOK, Number
    <2>2. CASE FindById(r)
      <3>1. request[r] \in Query
        BY <1>1, <2>2 DEF FindById, RequestTypes, NoRequest
      <3>2. request[r].id.parsed \in Number
        BY <3>1 DEF Query, IdText
      <3>3. QED
        BY <1>4, <2>2, <3>2 DEF FindById, TypeOK
    <2>3. QED
      BY <2>1, <2>2 DEF TypeOK, HandlerThrows, Register, HandTokens, OtherHandler
  <1>6. users' \in Seq(User) /\ accessTokens' \subseteq Token
    <2>1. CASE Register(r)
      <3>1. PICK person \in People :
                /\ users' = Append(users, NewUser(person))
                /\ \/ accessTokens' = accessTokens
                   \/ accessTokens' = accessTokens \cup {Sign(Len(users), NewUser(person))}
        BY <2>1 DEF Register, HandToClient
      <3>2. NewUser(person) \in User
        BY DEF NewUser, User, Roles
      <3>3. Sign(Len(users), NewUser(person)) \in Token
        BY <1>1, <3>2, SignTyped
      <3> HIDE DEF NewUser, Sign
      <3>4. QED
        BY <1>1, <3>1, <3>2, <3>3 DEF TypeOK
    <2>2. CASE HandTokens(r)
      <3>1. PICK u \in DOMAIN users :
                /\ accessTokens' = accessTokens \cup {Sign(u - 1, users[u])}
                /\ users' = users
        BY <2>2 DEF HandTokens, HandToClient
      <3>2. users[u] \in User /\ u - 1 \in Nat
        BY <1>1, ElementOfSeq
      <3>3. Sign(u - 1, users[u]) \in Token
        BY <1>1, <3>2, SignTyped
      <3>4. QED
        BY <1>1, <3>1, <3>3 DEF TypeOK
    <2>3. QED
      BY <2>1, <2>2 DEF TypeOK, HandlerThrows, Me, FindById, OtherHandler
  <1>7. QED
    BY <1>1, <1>3, <1>5, <1>6 DEF TypeOK, RequestTypes

(* A restart keeps the types. *)
LEMMA RestartTyped ==
    ASSUME TypeOK, Restart
    PROVE  TypeOK'
  <1>1. RequestTypes'
    BY DEF TypeOK, Restart, RequestTypes, Answers
  <1>2. QED
    BY <1>1, SeedTable, PipelineAssumption DEF TypeOK, Restart, RequestTypes

(* In every reachable state all variables have their types: every request  *)
(* is where it can be, with a query, a credential and a caller or without. *)
THEOREM PipelineTyped == Spec => []TypeOK
  <1>1. Init => TypeOK
    BY SeedTable, PipelineAssumption DEF Init, ClockInit, TypeOK, Answers
  <1>2. ASSUME TypeOK, PipelineInv, [Next]_vars
        PROVE  TypeOK'
    <2>1. CASE TimePasses
      BY <1>2, <2>1 DEF TimePasses, Tick, TypeOK, requestVars
    <2>2. CASE UNCHANGED vars
      BY <1>2, <2>2 DEF vars, requestVars, TypeOK
    <2>3. QED
      BY <1>2, <2>1, <2>2, FiltersTyped, HandlersTyped, RestartTyped DEF Next, Filters
  <1>3. QED
    BY <1>1, <1>2, PipelineHolds, PTL DEF Spec
------------------------------------------------------------------------------
(* OwnProfileOnly *)

(* Who is no administrator reads no profile but their own with a token of  *)
(* the running process, for any texts of ids and any interleaving: what    *)
(* the pipe accepts is the number the policy compared.                     *)
THEOREM OwnProfiles == Spec => OwnProfileOnly
  <1>1. ASSUME PipelineInv, TypeOK, [Next]_vars, NEW r \in Requests,
               pc[r] = "handling", pc'[r] = "served", request[r].route \in {"me", "user"},
               bearer[r].life = life, bearer[r].role = "USER"
        PROVE  profile'[r] = bearer[r].person
    <2>1. /\ bearer[r] \in accessTokens /\ caller[r] = Validate(bearer[r])
          /\ CanActivate(request[r].route, caller[r], request[r].id)
      BY <1>1 DEF PipelineInv, Guarded, Authenticated, Authorized
    <2>2. /\ caller[r].userId = bearer[r].userId /\ caller[r].role = "USER"
          /\ FindOne(bearer[r].userId) = bearer[r].person
      BY <1>1, <2>1 DEF PipelineInv, TokensInv, TokenOK, Validate, FindOne
    <2>3. Me(r) \/ FindById(r)
      <3>1. ASSUME NEW q \in Requests, q # r, Filters(q) \/ HandlerThrows(q) \/ Register(q)
                   \/ HandTokens(q) \/ Me(q) \/ FindById(q) \/ OtherHandler(q)
            PROVE  pc'[r] = pc[r]
        BY <1>1, <3>1 DEF PipelineInv, Maps, Filters, Arrive, Throttle, PassOpen,
           PassIntegration, Authenticate, Authorize, HandlerThrows, Register, HandTokens,
           Me, FindById, OtherHandler, Answer, GoOn
      <3>2. ~Restart /\ ~TimePasses /\ ~UNCHANGED vars
        BY <1>1 DEF Restart, Stages, TimePasses, vars
      <3>3. ~Filters(r) /\ ~HandlerThrows(r) /\ ~OtherHandler(r)
              /\ ~Register(r) /\ ~HandTokens(r)
        BY <1>1 DEF PipelineInv, Maps, Filters, Arrive, Throttle, PassOpen, PassIntegration,
           Authenticate, Authorize, HandlerThrows, Register, HandTokens, OtherHandler,
           Answer, Stages
      <3>4. QED
        BY <1>1, <3>1, <3>2, <3>3 DEF Next, Filters
    <2>4. CASE Me(r)
      BY <1>1, <2>2, <2>4 DEF Me, PipelineInv, Maps
    <2>5. CASE FindById(r)
      <3>1. request[r].id.decimal
        BY <1>1, <2>5 DEF FindById, Answer, PipelineInv, Maps
      <3>2. request[r].id.number = caller[r].userId
        BY <1>1, <2>1, <2>2, <2>5 DEF FindById, CanActivate, Policy
      <3>3. request[r].id \in IdText
        BY <1>1, <2>5 DEF TypeOK, Query, FindById, NoRequest
      <3>4. request[r].id.parsed = caller[r].userId
        BY <3>1, <3>2, <3>3 DEF IdText
      <3>5. QED
        BY <1>1, <2>2, <2>5, <3>1, <3>4 DEF FindById, PipelineInv, Maps
    <2>6. QED
      BY <2>3, <2>4, <2>5
  <1>2. PipelineInv /\ TypeOK /\ [Next]_vars =>
            [\A r \in Requests :
                /\ pc[r] = "handling" /\ pc'[r] = "served"
                /\ request[r].route \in {"me", "user"}
                /\ bearer[r].life = life /\ bearer[r].role = "USER"
                => profile'[r] = bearer[r].person]_vars
    BY <1>1
  <1>3. QED
    BY <1>2, PipelineHolds, PipelineTyped, PTL DEF Spec, OwnProfileOnly
------------------------------------------------------------------------------
(* ChangesCarryCsrfToken *)

(* The configuration changes with the process only, and no request on its  *)
(* way lives through that: what the middleware let through would pass it   *)
(* at any later time.                                                      *)
Passed(r) == pc[r] \in Stages => CsrfPasses(config, request[r].route, request[r].headers)

CsrfInv == Maps /\ \A r \in Requests : Passed(r)

(* No step makes a request on its way one the middleware would refuse.     *)
LEMMA CsrfStep ==
    ASSUME CsrfInv, [Next]_vars
    PROVE  CsrfInv'
  <1>1. ASSUME Restart
        PROVE  CsrfInv'
    <2>1. \A r \in Requests : pc'[r] \notin Stages
      BY <1>1 DEF Restart, Stages
    <2>2. QED
      BY <1>1, <2>1 DEF Restart, CsrfInv, Maps, Passed
  <1> SUFFICES ASSUME ~Restart
               PROVE  CsrfInv'
    BY <1>1
  <1>2. config' = config
    BY DEF Next, vars, Arrive, Throttle, PassOpen, PassIntegration, Authenticate, Authorize,
           HandlerThrows, Register, HandTokens, Me, FindById, OtherHandler, TimePasses
  <1>3. CASE TimePasses \/ UNCHANGED vars
    BY <1>2, <1>3 DEF TimePasses, vars, requestVars, CsrfInv, Maps, Passed, CsrfPasses
  <1>4. ASSUME NEW r \in Requests, Elsewhere(r), Passed(r)'
        PROVE  CsrfInv'
    <2>1. ASSUME NEW q \in Requests, q # r
          PROVE  Passed(q)'
      <3>1. Passed(q) /\ q \in Requests \ {r}
        BY <2>1 DEF CsrfInv
      <3>2. QED
        BY <1>2, <1>4, <3>1 DEF Elsewhere, Passed, CsrfPasses
    <2>2. QED
      BY <1>4, <2>1 DEF CsrfInv, Elsewhere
  <1>5. ASSUME NEW r \in Requests, \E a \in Answers : Answer(r, a), DOMAIN profile' = Requests
        PROVE  CsrfInv'
    <2>1. Elsewhere(r) /\ pc'[r] \notin Stages
      BY <1>5 DEF CsrfInv, Maps, Answer, Forget, Elsewhere, Answers, Stages
    <2>2. QED
      BY <1>4, <2>1 DEF Passed
  <1>6. ASSUME NEW r \in Requests, NEW stage \in Stages, pc[r] \in Stages, GoOn(r, stage),
               DOMAIN caller' = Requests, DOMAIN profile' = Requests,
               \A q \in Requests \ {r} : caller'[q] = caller[q]
        PROVE  CsrfInv'
    <2>1. Elsewhere(r) /\ request' = request
      BY <1>6 DEF CsrfInv, Maps, GoOn, Elsewhere
    <2>2. QED
      BY <1>2, <1>4, <1>6, <2>1 DEF Passed, CsrfInv, CsrfPasses
  <1>7. ASSUME NEW r \in Requests, NEW q \in Queries,
               NEW b \in accessTokens \cup {NoBearer, Opaque}, Arrive(r, q, b)
        PROVE  CsrfInv'
    <2>1. DOMAIN profile' = Requests
      BY <1>7 DEF Arrive, CsrfInv, Maps
    <2>2. CASE CsrfPasses(config, q.route, q.headers)
      <3>1. Elsewhere(r) /\ request'[r] = q
        BY <1>7, <2>1, <2>2 DEF Arrive, CsrfInv, Maps, Elsewhere
      <3>2. QED
        BY <1>2, <1>4, <2>2, <3>1 DEF Passed, CsrfPasses
    <2>3. QED
      BY <1>5, <1>7, <2>1, <2>2 DEF Arrive, Answers
  <1>8. ASSUME NEW r \in Requests,
               \/ Throttle(r) \/ PassOpen(r) \/ PassIntegration(r)
               \/ Authenticate(r) \/ Authorize(r)
        PROVE  CsrfInv'
    <2>1. /\ DOMAIN profile' = Requests /\ pc[r] \in Stages
          /\ \/ \E a \in Answers : Answer(r, a)
             \/ \E stage \in Stages : /\ GoOn(r, stage) /\ DOMAIN caller' = Requests
                                      /\ \A q \in Requests \ {r} : caller'[q] = caller[q]
      BY <1>8 DEF Throttle, PassOpen, PassIntegration, Authenticate, Authorize, Answers,
                  Stages, CsrfInv, Maps
    <2>2. QED
      BY <1>5, <1>6, <2>1
  <1>9. ASSUME NEW r \in Requests,
               \/ HandlerThrows(r) \/ Register(r) \/ HandTokens(r)
               \/ Me(r) \/ FindById(r) \/ OtherHandler(r)
        PROVE  CsrfInv'
    <2>1. (\E a \in Answers : Answer(r, a)) /\ DOMAIN profile' = Requests
      BY <1>9 DEF HandlerThrows, Register, HandTokens, Me, FindById, OtherHandler, Answers,
                  CsrfInv, Maps
    <2>2. QED
      BY <1>5, <2>1
  <1>10. QED
    BY <1>3, <1>7, <1>8, <1>9 DEF Next

(* With CSRF protection on, whatever changes the user table or hands out a *)
(* token passed the middleware with the token and from no foreign origin.  *)
THEOREM ChangesCarry == Spec => ChangesCarryCsrfToken
  <1>1. Init => CsrfInv
    BY DEF Init, CsrfInv, Maps, Passed, Stages
  <1>2. ASSUME CsrfInv, PipelineInv, [Next]_vars, config.csrf, life' = life,
               users' # users \/ accessTokens' # accessTokens
        PROVE  \E r \in Requests :
                   /\ pc[r] = "handling" /\ pc'[r] = "served"
                   /\ config.csrfToken /\ request[r].headers.csrf
                   /\ request[r].headers.origin = "foreign" => ~config.origins
    <2>1. ~Restart
      BY <1>2 DEF Restart, PipelineInv
    <2>2. PICK r \in Requests : Register(r) \/ HandTokens(r)
      BY <1>2, <2>1 DEF Next, vars, Arrive, Throttle, PassOpen, PassIntegration,
         Authenticate, Authorize, HandlerThrows, Me, FindById, OtherHandler, TimePasses
    <2>3. /\ pc[r] = "handling" /\ pc'[r] = "served" /\ request[r].route \in Mutations
      BY <1>2, <2>2 DEF Register, HandTokens, Answer, CsrfInv, Maps, Mutations, OpenRoutes,
         ProbeRoutes
    <2>4. CsrfPasses(config, request[r].route, request[r].headers)
      BY <1>2, <2>3 DEF CsrfInv, Passed, Stages
    <2>5. QED
      BY <1>2, <2>3, <2>4 DEF CsrfPasses
  <1>3. CsrfInv /\ [Next]_vars => CsrfInv'
    BY CsrfStep
  <1>4. CsrfInv /\ PipelineInv /\ [Next]_vars =>
            [config.csrf /\ life' = life =>
                (users' # users \/ accessTokens' # accessTokens =>
                    \E r \in Requests :
                        /\ pc[r] = "handling" /\ pc'[r] = "served"
                        /\ config.csrfToken /\ request[r].headers.csrf
                        /\ request[r].headers.origin = "foreign" => ~config.origins)]_vars
    BY <1>2
  <1>5. QED
    BY <1>1, <1>3, <1>4, PipelineHolds, PTL DEF Spec, ChangesCarryCsrfToken
==============================================================================

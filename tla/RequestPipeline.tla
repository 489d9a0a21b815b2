---------------------------- MODULE RequestPipeline ----------------------------
(***************************************************************************)
(* What a request passes before its handler, in this order: the CSRF       *)
(* middleware, the rate limit (the global guard of RateLimitModule), the   *)
(* guards of its route (JwtAuthGuard with JwtStrategy, AuthorizationGuard, *)
(* ApiKeyOrOAuth2Guard), the handler.  Guards that await are steps; other  *)
(* requests, the clock and a restart come between.                         *)
(*                                                                         *)
(* Access tokens name a user by id and carry the role and the permissions  *)
(* of the moment they were signed; they live an hour, in the hands of      *)
(* clients, whatever becomes of the process and its user table.  Handlers  *)
(* are reduced to what access tokens and the table make of each other; the *)
(* awaits inside of them are those of AuthService and InviteUserService.   *)
(* person and life are history: for whom and in which process lifetime.    *)
(***************************************************************************)
EXTENDS RequestFilters, Clock, Sequences, FiniteSets

CONSTANTS
    Requests,       \* connections, each with one request at a time
    Queries,        \* the routes, ids and headers clients send
    Configs,        \* the configurations a process may start with
    People,         \* who may register
    Admin, Bueno,   \* the two people of the seed
    TokenTtl,       \* the hour of an access token, in ticks
    MaxUsers,       \* bound: length of the user table
    MaxTokens,      \* bound: access tokens clients hold
    MaxLives        \* bound: process lifetimes, restarts included

Query == [route : Routes, id : IdText, headers : Headers]

ASSUME PipelineAssumption ==
    /\ Queries \subseteq Query
    /\ Configs \subseteq Config
    /\ {Admin, Bueno} \subseteq People
    /\ TokenTtl \in Nat \ {0}

VARIABLES
    config,         \* the environment of the process
    users,          \* UsersService.users: who and with which role
    accessTokens,   \* the access tokens clients hold
    pc,             \* where a request is, or how the last one was answered
    request,        \* its query
    bearer,         \* its bearer credential
    caller,         \* request.user
    profile,        \* the person whose profile was answered
    life            \* the number of the current process lifetime

requestVars == <<request, bearer, caller>>
vars == <<now, config, users, accessTokens, pc, requestVars, profile, life>>

User   == [person : People, role : Roles]
Caller == [userId : Nat, role : Roles, permissions : SUBSET Permissions]
Token  == [userId : Nat, role : Roles, permissions : SUBSET Permissions,
           issuedAt : Nat, person : People, life : Nat]

SeedUsers == << [person |-> Admin, role |-> "ADMIN"], [person |-> Bueno, role |-> "USER"] >>

Stages  == {"throttling", "authenticating", "handling"}
Answers == {"idle", "served", "refused", "400", "401", "403", "429", "lost"}

NoRequest == [route |-> "none"]
NoBearer  == [token |-> "none"]
Opaque    == [token |-> "opaque"]   \* one of OAUTH2_ACCESS_TOKENS
NoCaller  == [userId |-> "none"]
Nobody    == "nobody"               \* findOne found none

\* users.find(item => item.id === id); ids are positions from 0.
FindOne(id) == IF id \in 0 .. Len(users) - 1 THEN users[id + 1].person ELSE Nobody

\* verify with ACCESS_SECRET, expiry included.
SignedIn(b) == b \in accessTokens /\ now < b.issuedAt + TokenTtl

\* JwtStrategy.validate.  Every token the services sign has a role and
\* permissions, so its defaults are never taken.
Validate(b) == [userId |-> b.userId, role |-> b.role, permissions |-> b.permissions]

\* Mutant: every token is signed with the role of the seeded administrator.
SignAsAdmin(id, user) ==
    [userId |-> id, role |-> "ADMIN", permissions |-> GetPermissionsByRole("ADMIN"),
     issuedAt |-> now, person |-> user.person, life |-> life]

\* sign({ userId, role, permissions }, ACCESS_SECRET, { expiresIn: '1h' })
Sign(id, user) ==
    [userId |-> id, role |-> user.role,
     permissions |-> GetPermissionsByRole(user.role),
     issuedAt |-> now, person |-> user.person, life |-> life]

Forget(r) == /\ request' = [request EXCEPT ![r] = NoRequest]
             /\ bearer' = [bearer EXCEPT ![r] = NoBearer]
             /\ caller' = [caller EXCEPT ![r] = NoCaller]

Answer(r, answer) == pc' = [pc EXCEPT ![r] = answer] /\ Forget(r)

GoOn(r, stage) == /\ pc' = [pc EXCEPT ![r] = stage]
                  /\ UNCHANGED <<request, bearer>>

------------------------------------------------------------------------------
(* Middleware and guards *)

(* A request comes in on a free connection. *)
Arrive(r, q, b) ==
    /\ pc[r] \notin Stages
    /\ IF CsrfPasses(config, q.route, q.headers)
       THEN /\ pc' = [pc EXCEPT ![r] = "throttling"]
            /\ request' = [request EXCEPT ![r] = q]
            /\ bearer' = [bearer EXCEPT ![r] = b]
            /\ UNCHANGED caller
       ELSE Answer(r, "403")
    /\ profile' = [profile EXCEPT ![r] = Nobody]
    /\ UNCHANGED <<now, config, users, accessTokens, life>>

(* The throttler may find any request over its limit that is not skipped. *)
Throttle(r) ==
    /\ pc[r] = "throttling"
    /\ ~SkipRateLimit(request[r].route, SignedIn(bearer[r]))
    /\ Answer(r, "429")
    /\ UNCHANGED <<now, config, users, accessTokens, profile, life>>

PassOpen(r) ==
    /\ pc[r] = "throttling"
    /\ request[r].route \in OpenRoutes
    /\ GoOn(r, "handling")
    /\ UNCHANGED <<now, config, users, accessTokens, caller, profile, life>>

PassIntegration(r) ==
    /\ pc[r] = "throttling"
    /\ request[r].route \in Integrations
    /\ IF IntegrationAdmits(config, request[r].headers, bearer[r] = Opaque)
       THEN GoOn(r, "handling") /\ UNCHANGED caller
       ELSE Answer(r, "401")
    /\ UNCHANGED <<now, config, users, accessTokens, profile, life>>

(* JwtAuthGuard: the token is verified now, the guard awaits the strategy. *)
Authenticate(r) ==
    /\ pc[r] = "throttling"
    /\ request[r].route \in Authenticated
    /\ IF SignedIn(bearer[r])
       THEN /\ GoOn(r, "authenticating")
            /\ caller' = [caller EXCEPT ![r] = Validate(bearer[r])]
       ELSE Answer(r, "401")
    /\ UNCHANGED <<now, config, users, accessTokens, profile, life>>

(* AuthorizationGuard, on the routes that have it. *)
Authorize(r) ==
    /\ pc[r] = "authenticating"
    /\ IF request[r].route \in Authorized
             => CanActivate(request[r].route, caller[r], request[r].id)
       THEN GoOn(r, "handling") /\ UNCHANGED caller
       ELSE Answer(r, "403")
    /\ UNCHANGED <<now, config, users, accessTokens, profile, life>>

------------------------------------------------------------------------------
(* Handlers *)

(* Mutant: a role that is not given stays open. *)
NewWithoutRole(person) == [person |-> person, role |-> "undefined"]

(* Mutant: whoever registers is an administrator. *)
NewAdmin(person) == [person |-> person, role |-> "ADMIN"]

(* UsersService.create: the role is never given. *)
NewUser(person) == [person |-> person, role |-> "USER"]

HandToClient(token) ==
    /\ accessTokens' = accessTokens \cup {token}
    /\ Cardinality(accessTokens') <= MaxTokens

(* A handler throws, before it has done anything. *)
HandlerThrows(r) ==
    /\ pc[r] = "handling"
    /\ Answer(r, "refused")
    /\ UNCHANGED <<now, config, users, accessTokens, profile, life>>

(* signUp signs a token for the user it creates, completeSignUp does not;  *)
(* overlapping calls may create the same person twice.                     *)
Register(r) ==
    /\ pc[r] = "handling"
    /\ request[r].route \in {"sign-up", "complete-sign-up"}
    /\ Len(users) < MaxUsers
    /\ \E person \in People :
          /\ users' = Append(users, NewUser(person))
          /\ IF request[r].route = "sign-up"
             THEN HandToClient(Sign(Len(users), NewUser(person)))
             ELSE UNCHANGED accessTokens
    /\ Answer(r, "served")
    /\ UNCHANGED <<now, config, profile, life>>

(* login and refresh sign a token for a user they looked up. *)
HandTokens(r) ==
    /\ pc[r] = "handling"
    /\ request[r].route \in {"login", "refresh"}
    /\ \E u \in DOMAIN users : HandToClient(Sign(u - 1, users[u]))
    /\ Answer(r, "served")
    /\ UNCHANGED <<now, config, users, profile, life>>

Me(r) ==
    /\ pc[r] = "handling"
    /\ request[r].route = "me"
    /\ profile' = [profile EXCEPT ![r] = FindOne(caller[r].userId)]
    /\ Answer(r, "served")
    /\ UNCHANGED <<now, config, users, accessTokens, life>>

(* Mutant: parseInt() without the pipe. *)
FindByParsedId(r) ==
    /\ pc[r] = "handling"
    /\ request[r].route = "user"
    /\ profile' = [profile EXCEPT ![r] = FindOne(request[r].id.parsed)]
    /\ Answer(r, "served")
    /\ UNCHANGED <<now, config, users, accessTokens, life>>

(* ParseIntPipe, then the lookup of the number it read, which is not the   *)
(* one the policy read.                                                    *)
FindById(r) ==
    /\ pc[r] = "handling"
    /\ request[r].route = "user"
    /\ IF request[r].id.decimal
       THEN /\ profile' = [profile EXCEPT ![r] = FindOne(request[r].id.parsed)]
            /\ Answer(r, "served")
       ELSE UNCHANGED profile /\ Answer(r, "400")
    /\ UNCHANGED <<now, config, users, accessTokens, life>>

(* Handlers that neither write users nor hand out access tokens. *)
OtherHandler(r) ==
    /\ pc[r] = "handling"
    /\ request[r].route \notin {"sign-up", "complete-sign-up", "me", "user"}
    /\ Answer(r, "served")
    /\ UNCHANGED <<now, config, users, accessTokens, profile, life>>
------------------------------------------------------------------------------
(* The process dies and reads its environment anew when it comes back; the *)
(* clients keep their tokens.                                              *)
Restart ==
    /\ life < MaxLives
    /\ life' = life + 1
    /\ config' \in Configs
    /\ users' = SeedUsers
    /\ pc' = [r \in Requests |-> IF pc[r] \in Stages THEN "lost" ELSE pc[r]]
    /\ request' = [r \in Requests |-> NoRequest]
    /\ bearer' = [r \in Requests |-> NoBearer]
    /\ caller' = [r \in Requests |-> NoCaller]
    /\ UNCHANGED <<now, accessTokens, profile>>

TimePasses == /\ Tick(FALSE)
              /\ UNCHANGED <<config, users, accessTokens, pc, requestVars, profile, life>>

Init == /\ ClockInit
        /\ config \in Configs
        /\ users = SeedUsers
        /\ accessTokens = {}
        /\ pc = [r \in Requests |-> "idle"]
        /\ request = [r \in Requests |-> NoRequest]
        /\ bearer = [r \in Requests |-> NoBearer]
        /\ caller = [r \in Requests |-> NoCaller]
        /\ profile = [r \in Requests |-> Nobody]
        /\ life = 1

Next == \/ \E r \in Requests :
              \/ \E q \in Queries, b \in accessTokens \cup {NoBearer, Opaque} : Arrive(r, q, b)
              \/ Throttle(r) \/ PassOpen(r) \/ PassIntegration(r)
              \/ Authenticate(r) \/ Authorize(r)
              \/ HandlerThrows(r) \/ Register(r) \/ HandTokens(r)
              \/ Me(r) \/ FindById(r) \/ OtherHandler(r)
        \/ TimePasses
        \/ Restart

Spec == Init /\ [][Next]_vars

------------------------------------------------------------------------------
(* Properties *)

TypeOK == /\ now \in Nat \ {0} /\ life \in Nat \ {0}
          /\ config \in Config
          /\ users \in Seq(User)
          /\ accessTokens \subseteq Token
          /\ pc \in [Requests -> Stages \cup Answers]
          /\ request \in [Requests -> Query \cup {NoRequest}]
          /\ bearer \in [Requests -> Token \cup {NoBearer, Opaque}]
          /\ caller \in [Requests -> Caller \cup {NoCaller}]
          /\ profile \in [Requests -> People \cup {Nobody}]

(* An access token is never out of date about rights: whatever process it  *)
(* was signed in, the user who has its id now has the role it says, and    *)
(* the permissions it carries are those of that role.  Ids are given out   *)
(* again after every restart, and no token is ever withdrawn.              *)
RoleOfTokenIsCurrent ==
    \A t \in accessTokens :
        /\ t.userId < Len(users) => users[t.userId + 1].role = t.role
        /\ t.permissions = GetPermissionsByRole(t.role)

(* Behind the administrators' routes the caller is an administrator of the *)
(* table as it is when the handler runs, through restarts, registrations   *)
(* and whatever happened since the token was signed.                       *)
AdminHandlersServeAdmins ==
    \A r \in Requests : pc[r] = "handling" /\ request[r].route \in AdminRoutes =>
        /\ caller[r].userId < Len(users)
        /\ users[caller[r].userId + 1].role = "ADMIN"

(* A user who is no administrator reads no profile but their own, with a   *)
(* token of this process, however the id is written: the policy and the    *)
(* pipe read the text in two ways.                                         *)
OwnProfileOnly ==
    [][\A r \in Requests :
          /\ pc[r] = "handling" /\ pc'[r] = "served"
          /\ request[r].route \in {"me", "user"}
          /\ bearer[r].life = life /\ bearer[r].role = "USER"
          => profile'[r] = bearer[r].person]_vars

(* With CSRF protection on, nothing but a request that sent the token, and *)
(* no origin outside the list, changes the user table or obtains a token.  *)
ChangesCarryCsrfToken ==
    [][config.csrf /\ life' = life =>
        (users' # users \/ accessTokens' # accessTokens =>
            \E r \in Requests :
                /\ pc[r] = "handling" /\ pc'[r] = "served"
                /\ config.csrfToken /\ request[r].headers.csrf
                /\ request[r].headers.origin = "foreign" => ~config.origins)]_vars
==============================================================================

# TLA+ models of shield-auth-api

These modules specify the parts of shield-auth-api that keep state: the
authentication service, the user table, the invite service and the audit
trail, alone and in one process, and the way of a request through middleware
and guards to its handler. TLC checks them on small instances, TLAPS proves
their invariants and action properties for every instance. All paths are
relative to the repository.

## 1. Inventory

The program is one NestJS process. Everything it knows is in memory
(`README.md:9`); a restart brings back two seeded users and nothing else.
Handlers are `async` methods on one event loop, so a method runs without
interruption from one `await` to the next, and any other handler may run at an
`await`. That is the only concurrency, and most of what is hard here comes from
it: checks made before an `await` and acted upon after it.

| Part | State | Operations | Correct when |
|---|---|---|---|
| `AuthService` (`src/auth/application/services/auth.service.ts`) | refresh sessions, their id counter, reset tokens, two maps of login attempts | login, signUp, refresh, logout, forgotPassword, resetPassword, changePassword | a lock holds; a spent JWT or token stays spent; a new password ends old sessions; every call is answered |
| `UsersService` | array of users | findByEmail, findOne, create, updatePassword | emails and ids are unique, references stay valid |
| `InviteUserService` | array of invites | invite, resend, validate, cancel, complete | an invite registers one invited user, once; a cancelled one nobody |
| `AuditInterceptor`, audit repository | ring of events, counter | intercept, record, list | one event per mutation, the newest are kept, listed in order |
| `PasswordCryptoService`, `AwsSesService` | none | hash, verify, send | answer or fail |
| guards (JWT, roles and policies, API key, OAuth2), CSRF middleware, rate limit | what clients hold: access tokens of one hour | decide on a request | what was decided on still holds when the handler runs, and no way leads round a filter |
| health, metrics, tracing, logging, Sentry, bootstrap | wiring | probes, shutdown | |

Interaction: controllers call the services; both services share the user table;
both await argon2 and SES; the audit interceptor wraps every handler and sees
its answer; guards and middleware run before it. What clients hold (refresh
JWTs without expiry, access tokens of one hour, mailed tokens) outlives the
process.

What is hard to test, with the line where it bites, is listed in
`PROJECT.json` under `hazards`.

## 2. Modules

    Clock, Clients
      UsersService
        LoginAttempts, RefreshTokens, PasswordResetTokens     Authorization
          AuthService --> OneTimeTokens                         RequestFilters
        InviteUserService --> OneTimeTokens                       RequestPipeline
    AuditEvents
      AuditInterceptor
    ShieldAuth = AuthService + InviteUserService + AuditEvents

A module extends those it is indented under; `-->` is an implementation shown
by a refinement mapping; `RequestPipeline` has the `Clock` as well.

* `Clock`: `Date.now()`, monotone, one tick per distinguishable delay.
* `Clients`: what callers send. `Canonical` is `normalizeEmail`.
* `UsersService`: the array of users. A reference to a user is an index.
* `LoginAttempts`, `RefreshTokens`, `PasswordResetTokens`: the three stores of
  `AuthService`, each with the private methods that write it.
* `AuthService`: the seven public methods. `pc[r]` says at which `await` call
  `r` is suspended, or what it was answered; `user`, `session`, `admitted` and
  `verifying` are the locals that survive an `await`. Each action is the code
  from one `await` to the next: `LoginStart` is lines 186-194, `LoginLookup` the
  end of the sleep and the lookup, and so on; `PROJECT.json` (`map`) gives the
  lines of every definition.
* `InviteUserService`: the five methods on invites, in the same manner.
* `OneTimeTokens`: the abstract promise of mailed tokens. Tokens are issued,
  superseding those of the same subject, withdrawn for good, or all lost. Both
  services are checked to implement it.
* `AuditEvents`: the ring buffer. `AuditInterceptor`: requests around it. The
  handlers it wraps return, or throw an `HttpException` or an error without a
  status. The status recorded is what `extractStatusCode` reads off the error,
  the status answered what the exception filter makes of its class. An error
  that has a `status` and is no `HttpException`
  (`src/audit/audit.interceptor.spec.ts:117-146`) would be recorded with it and
  answered 500; nothing in the program throws one.
* `ShieldAuth`: both services on one user table, clock and process. A request
  goes to one of the two controllers; when its handler returns or throws, the
  global interceptor records it in the trail with the status Nest answers. The
  actions are those of the services, conjoined with the interceptor.
* `Authorization`: roles, permissions, what the decorators of every route ask
  for, and the decision of `AuthorizationGuard`. `RequestFilters`: the decisions
  that need no user (CSRF, rate limit skip, API key or OAuth2 token) over the
  process's configuration and the headers they tell apart.
* `RequestPipeline`: a request on its way. `pc[r]` is where it is: the rate
  limit, the `await` of `JwtAuthGuard`, the handler. Other requests, the clock
  and restarts come between. Clients hold access tokens, across restarts too.
  The handlers are reduced to what they do to the user table and to access
  tokens, so its user table has persons and roles instead of passwords.
* `MC*`: the calls TLC chooses from. Definitions marked "Mutant" are plausible
  bugs that no specification uses; each is there to show that a property fails
  when the code has that bug.
* `*_proofs`: theorems, see section 5.

Choices that matter:

* An `await` of an already resolved promise (`UsersService`) is a step of its
  own as well: its continuation is a microtask, and continuations of other
  handlers may run before it.
* argon2 (`VerifyOutcomes`, `CryptoFails`) answers the truth about the stored
  string it was given, or throws; a legacy plain text is compared without it.
  SES answers or fails. A token of 32 random bytes is never guessed: it is named
  by its index, and 0 stands for any other text.
* A JWT is the session it was signed for and the process lifetime in which that
  was done; `Retrieve` looks it up by its id only, as the code does.
  `Session.basis` is history: the stored password that was proved.
* In `AuthService` the access token changePassword needs is reduced to "this
  user id was signed once", which outlives the process; `RequestPipeline` has
  access tokens with their hour of life, role and permissions.
* The `:id` of `GET /users/:id` is three things: what `Number()` reads in it,
  which the policy uses, what `parseInt` reads, which the handler is given, and
  whether `ParseIntPipe` lets it through. The two readings agree on decimals
  and may differ elsewhere: "0x2" is 2 to one and 0 to the other, "2abc" `NaN`
  and 2.
* `Slice` is the array's `slice`, `slice(-0)` included, which is the whole array.
* The throttler's counters are those of `@nestjs/throttler`: it may find any
  request that is not skipped over its limit.
* A restart may come at any time: it drops all stores and the calls in flight,
  and reads the configuration again.
* Names, roles, departments, mail texts, messages and log lines are left out.
  So are `createdAt` and `updatedAt`, which nothing reads.

## 3. Runs

The instances of the services have two addresses at most, one agent and up to
five emails, one of them in two spellings. `Requests` bounds how many calls a
behaviour makes, `MaxInFlight` how many overlap, `MaxLives` the restarts,
`MaxTime` the clock (it goes on while a login sleeps). In `RequestPipeline`
`Requests` are connections, each of which may make any number of requests, and
`MaxUsers` and `MaxTokens` bound the table and the tokens clients hold.
Requests are symmetric except in the run with a liveness property. Deadlock is
checked in `Pipeline`. Elsewhere the environment makes finitely many calls and
then rightly stops; `EveryRequestAnswered` says that nothing else stops.

| Run | Bounds | Shows |
|---|---|---|
| `AuthLockout` | 4 calls, 3 at a time, 3 attempts | no login starts under a lock; locks and counters are bounded; a lock goes early only by a login admitted before it |
| `AuthStores` | 3 calls of all 7 methods, all at a time, 1 restart | types, owners; overlapping refreshes add no sessions; JWTs resolve to their own session or to none; spent ones stay dead; reset tokens implement `OneTimeTokens`, only the newest can be active, and a redeemed one is not accepted again |
| `AuthAlone` | 4 calls, one at a time | locks stand, emails are unique, a reset token works once, a new password ends every session |
| `Invites` | 4 calls, 2 at a time, 1 restart | `OneTimeTokens` is implemented; the registered were invited; completions spend their invite; settled invites let nobody in |
| `Audit` | 5 requests, ring of 3, listings of 2, 1 restart | the trail is the newest of what was recorded; every mutation is recorded with the status answered; a listing is the newest run of the trail and no longer than allowed |
| `ShieldAuth` | 3 requests to both services, 2 at a time, 1 restart | the trail accounts for every user beyond the seed; references hold with two writers of the table; every accepted request is answered |
| `Pipeline` | 2 connections, 3 users, 1 token, 2 configurations, 1 restart that may switch them | rights in tokens are current; administrators' handlers serve administrators; users read no profile but their own; protected changes carried the CSRF token |
| `AuthDuplicateEmail`, `AuthSessionOutlivesPassword`, `AuthLogoutRestart`, `InviteUsedTwice`, `LoginAnswers201` | | violations, see below |

Why the bounds suffice: a lock needs three failures and a success beside them; a
spent JWT needs the call that opened the session, the one that spent it and one
to overlap both; superseding needs two issues, with a reset or a change beside
them; reuse of ids needs two lifetimes. A session more than was logged in needs a
login and two refreshes that overlap. The ring overflows at the fourth event,
which leaves one request to list it, and a listing may hold less than the ring,
so one that is not bounded shows. An invite is issued, settled and presented
again, with one call to overlap. A token that meets the wrong user needs one
newcomer before a restart and another after it, and one token held across. The
proofs remove the bounds for what they cover.

### What the violations show

Each quotes its source in `PROJECT.json` (`findings`).

* `AuthDuplicateEmail`: two signUps of one email overlap. Both look it up, both
  find it free, both create it. `findByEmail` then finds only the first.
* `AuthSessionOutlivesPassword`: a login is at `verifyPassword` while
  changePassword updates and revokes. It then opens a session proved with the
  old password. A refresh in flight has the same effect.
* `AuthLogoutRestart`: log out, restart, let anybody log in: the old JWT
  resolves to the new session, whose id is 0 again.
* `InviteUsedTwice`: two completions of one invite overlap and both register.
* `LoginAnswers201`: login returns `undefined` on bad credentials, as refresh
  does. The handler returns it, so the answer is 201 and the trail records a
  success, where `auth.controller.ts:57` and `:73` document 401.

`AuthAlone` checks the properties of the first two without overlap, where they
hold. `ResetTokenUsedOnce` and `LockStands` also fail as soon as calls overlap
(set `MaxInFlight` to 2 there): the same pattern of a check before an `await`
and its use after it. What remains true under overlap is stated and proved:
`LockLiftedOnlyByEarlierLogin` for locks, `SpentResetStaysSpent` and
`SettledInvitesStaySettled` for tokens. A second use has to be past its check
before the first is answered.

What holds without overlap is proved too, for one call at a time and any number
of users, tokens and calls: the overlap is the only way to lose it.

Some overlaps are the code's behaviour and contradict no text, so they are no
findings; the properties say how far they go. A refresh in flight undoes a
logout, in that it opens a new session after it: the JWT logged out stays dead
(`SpentJwtStaysDead`), and the device has no more sessions than logins
(`SessionsComeFromLogins`). A second reset already past its check sets its
password too, and a completion past its check registers its user after the
invite is cancelled; calls that come later are refused.

Two limits of what holds. `RegisteredWereInvited` is about `InviteUserService`;
in the process anybody may sign up. `OwnProfileOnly` is about one process
lifetime: ids are given out again after a restart, so a token from before it
reads the profile of whoever registered next under its id. It is no more than a
profile: `RoleOfTokenIsCurrent` shows that such a token has the rights of the
user it now stands for, because the seed comes first and everybody else is a
`USER`.

## 4. Fairness

`WF(Proceed(r))` for every call, in either service, and for `CallProceeds(r)`
in `ShieldAuth`: the event loop runs every continuation that is ready; argon2
and SES settle their promises one way or the other. `WF(TimePasses)`
(`ClockTicks`): timers fire, so a sleeping login goes on. Nothing obliges
clients to call or the process to restart. `AuditInterceptor` and
`RequestPipeline` are specified without fairness and have safety properties
only.

## 5. Proofs

| Theorem | Says, for every value of the constants |
|---|---|
| `TypeCorrect` (`AuthService_proofs`) | `TypeOK` |
| `LocksHold`, `LocksBounded`, `LocksLifted` (`AuthService_proofs`) | `AdmittedBeforeLock`, `LockBounded`, `LockLiftedOnlyByEarlierLogin` |
| `LatestResetOnly`, `ResetTokensRefine` (`Credentials_proofs`) | only the newest reset token of a user can be active; `AuthService` implements `OneTimeTokens` |
| `OwnersAreThere`, `SpentResets` (`Credentials_proofs`) | `OwnersExist`; `SpentResetStaysSpent` |
| `JwtsResolve`, `SessionsHold` (`Credentials_proofs`) | `JwtResolvesToItsSession`; `SpentJwtStaysDead` |
| `EmailsStayUnique`, `ResetTokensUsedOnce`, `LocksStand`, `SessionsAreCurrent` (`AuthAlone_proofs`) | where `MaxInFlight = 1`: `EmailsUnique`, `ResetTokenUsedOnce`, `LockStands`, `SessionsProveCurrentPassword` |
| `InvitesTyped`, `NewcomersWereInvited`, `CompletionsSpend`, `SettledForGood` (`InviteUserService_proofs`) | `TypeOK`, `RegisteredWereInvited`, `CompletionSpendsInvite`, `SettledInvitesStaySettled` |
| `InvitesRefine` (`InviteUserService_proofs`) | `InviteUserService` implements `OneTimeTokens` |
| `RolesStayCurrent`, `AdminsOnly`, `OwnProfiles` (`RequestPipeline_proofs`) | `RoleOfTokenIsCurrent`, `AdminHandlersServeAdmins`, `OwnProfileOnly` |
| `PipelineTyped`, `ChangesCarry` (`RequestPipeline_proofs`) | `TypeOK`; `ChangesCarryCsrfToken` |
| `TrailKept`, `AnswersRecorded`, `ListingsInOrder` (`AuditInterceptor_proofs`) | `TrailIsRecent`, `MutationsRecorded`, `ListedNewestFirst`, for rings and limits of every size |
| `RegistrationsAreAccounted` (`ShieldAuth_proofs`, of `SystemSpec`) | `RegistrationsAccounted`: with both services behind one interceptor, the events of a trail that dropped nothing account for every user beyond the seed |
| `OwnersShared`, `AuthUndisturbed`, `ResetTokensRefineShared`, `SpentResetsShared`, `LocksLiftedShared` (`ShieldAuth_proofs`, of `SystemSpec`) | what `AuthService` promises alone it promises beside a second writer of the user table |
| `InvitesUndisturbed`, `InvitesRefineShared`, `CompletionsSpendShared`, `SettledForGoodShared` (`ShieldAuth_proofs`, of `SystemSpec`) | what `InviteUserService` promises alone it promises beside `AuthService`, except that whoever is in the table was invited |

The assumptions are those of the modules: the configuration the constructors
accept, the seed among the emails and secrets, a `Canonical` that is idempotent,
calls of the kinds the services have. The theorems of `AuthAlone_proofs` state
in each `ASSUME` that one call runs at a time: the violations above show that
they need it.

* `TypeInv` (`TypeOK /\ CallsOK`) is inductive by itself: `CallsOK`, defined
  beside the proof, carries the facts about locals that typing the next step needs, such as that a call at
  `loginVerify` holds the password it verifies.
* `LockInv` strengthens `AdmittedBeforeLock`, which speaks of locks in force
  only and is not inductive (a lock that expires could be forgotten and come
  back): the counter of a key that a login in flight will touch carries no lock
  beyond the moment that login was admitted, or one that was set after it.
  `LockBounded` is inductive as it stands. With `LockInv` a counter is cleared
  only by a login admitted before the lock it carries, which is `LocksLifted`.
* Reset tokens: the invariant is the property itself. Every write of the array
  deactivates all tokens of a user, one token, or appends after deactivating.
  With it a withdrawal removes at most one active token of the user, which is
  the abstract `Withdraw` or a stutter.
* `SessionInv` says that ids of this lifetime are below the counter and were
  signed once, that every session in the store was signed in this lifetime, that
  the session a refresh holds was too and has the id its JWT names, and that the
  id a finished logout or refresh presented is no longer in the store.
* `OwnersExist` is inductive over the types: the table only grows, ids are
  positions, and what is issued is issued for a user that was looked up.
* `ResetCalls` is what each resetPassword knows of its token: once accepted, it
  is a token of the user the call writes, so that the withdrawal at the end
  reaches it; once answered, it is inactive. Tokens never become active again.
* `InviteInv` does the same for invites. That an email of the table beyond the
  seed has an invite (`NewcomersInvited`) is kept apart from it: it holds of the
  service alone, while `InviteInv` holds in the process too.
* `PipelineInv` says why tokens are never out of date: in every process the role
  of an id is the same (`RoleById`: id 0 is the administrator of the seed,
  `create` makes users), so a table that was lost and grown again agrees with
  every token on roles; and that a caller past a guard is what its token says.
* `CsrfInv` says that a request on its way would pass the CSRF middleware still:
  the request does not change after it was let through, and the configuration
  only with the process, which no request on its way survives.
* `OwnProfileOnly` follows step by step from the types: of a text `ParseIntPipe`
  lets through, the policy and the handler read one number.
* `TrailInv` is `TrailIsRecent` with the types of the two sequences. With it an
  event's number follows from its place, which orders a listing, as
  `SliceIsSuffix` says what a slice keeps. By `StatusesAgree` interceptor and
  exception filter read one status off every error of `Error`. `TrailHistory`
  adds that an event belongs to a request that was answered: a request that is
  not audited therefore finds no event of its own at the end of the trail.
* One call at a time (`AuthAlone_proofs`): `Alone` says that at most one call is
  in flight, so the call that takes a step still finds what its own checks
  found. `EmailInv` adds that the email of a signUp past its lookup is free,
  `OnceInv` that the token a resetPassword accepted is still active, which by
  `ResetCalls` those of answered calls are not, `LockFree` that the counters of a
  login past `assertNotLocked` carry no lock in force, `PasswordInv` that what a
  call is about to open a session with is current: the password a login
  verifies, the one a signUp stored, the session a refresh found.
* `SystemInv` is the composition's: the invariants above, and the types of the
  invites' half. Its key lemma, `SystemSteps`, says that a step of the process
  is one of `AuthService` with the invites at rest, or an `InviteStep`, which to
  `AuthService` is at most one user more at the end of the table. So references,
  positions and lookups that `AuthService` holds survive it. `InviteSystemSteps`
  is the same seen from the other side: to `InviteUserService`, whose proofs
  `Own` instantiates, the rest of the process lets the table grow and takes no
  email from it (`Beside`), which keeps `InviteInv`.
* `AccountInv` relates the trail to the table. `MethodOK` says that the route of
  a request fits the service and the place it stands at, and `OneService` that
  it is in one service only. `Accounted` compares the cardinality of the set of
  signUp and completion events with the length of the table, as long as the ring
  has dropped none. The step that needs care is the answer of a registration: its
  event is new, because the events of the trail are of requests that were
  answered, and this one was not. A restart empties both sides.

`UsersService_proofs` has the lemmas on lookups these rest on.

Model-checked only:

* liveness under fairness (`EveryRequestAnswered`), and `ENABLED`, which are out
  of the prover's reach, as is whatever needs induction over data;
* `SessionsComeFromLogins`, which compares two cardinalities that every login
  and refresh may change;
* the properties of the five violation runs, which are false.

## 6. Not modelled

* Observability and bootstrap: wiring of libraries that the program does not
  read back.
* The results of the readiness checks: they are the host's memory, disk and
  event loop. The probe's reading of the lag histogram resets it for the next
  prober; no text says over which time the lag is meant.
* The throttler's counters and windows (`@nestjs/throttler`), argon2 and SES
  beyond how they settle, the parsing of headers and the validation of bodies:
  a header or a body is what a decision tells apart.
* Default role and permissions in `JwtStrategy.validate`: every token this code
  signs carries both.
* The clock is monotone; a host clock that is set back is out of scope.
  Integers are unbounded: counters that would take 2^53 steps to overflow are
  not of interest.
* `PROJECT.json` (`components`) gives the reasons part by part.

## 7. Order of work

The modules were written in this order, the most important first, each checked
and then proved before the next: `AuthService` with its three stores,
`InviteUserService`, `AuditInterceptor`, `ShieldAuth`, `RequestPipeline` with
`Authorization` and `RequestFilters`. What would add most from here: a second pipeline
token in the instance of `Pipeline`, and the routes of `RequestPipeline` over
the services of `ShieldAuth` in place of its own small user table.

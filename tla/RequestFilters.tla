---------------------------- MODULE RequestFilters ----------------------------
(***************************************************************************)
(* The filters that need no user: CsrfProtectionMiddleware, the skip rule  *)
(* of the rate limit, and ApiKeyOrOAuth2Guard with SecurityAuthService.    *)
(* Each decides on headers against the configuration of the process, read  *)
(* from the environment.  A header is what the decision tells apart.       *)
(***************************************************************************)
EXTENDS Authorization

\* CSRF_ENABLED, CSRF_TOKEN, CSRF_ALLOWED_ORIGINS, API_KEYS,
\* OAUTH2_ACCESS_TOKENS: switched on, respectively set.
Config == [csrf : BOOLEAN, csrfToken : BOOLEAN, origins : BOOLEAN,
           apiKeys : BOOLEAN, oauthTokens : BOOLEAN]

\* origin: not sent, one of the list, or another; csrf and apiKey: the
\* header has the configured value.
Headers == [origin : {"none", "listed", "foreign"}, csrf : BOOLEAN, apiKey : BOOLEAN]

\* Mutant: a request without an origin needs no token.
CsrfPassesSameOrigin(config, route, headers) ==
    \/ ~config.csrf \/ route \notin Mutations
    \/ headers.origin = "none"
    \/ /\ config.csrfToken
       /\ config.origins => headers.origin # "foreign"
       /\ headers.csrf

(* CsrfProtectionMiddleware.use.  The probes, which it names, are GETs and *)
(* pass as safe methods already.                                           *)
CsrfPasses(config, route, headers) ==
    \/ ~config.csrf
    \/ route \notin Mutations
    \/ /\ config.csrfToken
       /\ config.origins => headers.origin # "foreign"
       /\ headers.csrf

(* skipIf: an access token that verifies, on any route, or a probe. *)
SkipRateLimit(route, signedIn) == signedIn \/ route \in ProbeRoutes

(* ApiKeyOrOAuth2Guard.canActivate: a list that is not set admits nobody.  *)
IntegrationAdmits(config, headers, opaque) ==
    \/ config.apiKeys /\ headers.apiKey
    \/ config.oauthTokens /\ opaque
==============================================================================

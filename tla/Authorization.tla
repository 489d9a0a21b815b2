---------------------------- MODULE Authorization ----------------------------
(***************************************************************************)
(* src/auth/authorization/: what roles may do, and what the decorators of  *)
(* the controllers' routes ask for.  A caller is what JwtStrategy.validate *)
(* makes of an access token: a user id, a role and permissions.            *)
(***************************************************************************)
EXTENDS Integers

Roles == {"ADMIN", "USER"}

Permissions == {"users:read:self", "users:read:any", "invites:manage", "audit:read"}

GetPermissionsByRole(role) ==
    IF role = "ADMIN" THEN Permissions ELSE {"users:read:self"}

(* The routes of the controllers, by what they ask for. *)
InviteAdmin  == {"invite", "resend", "cancel"}
AdminRoutes  == InviteAdmin \cup {"events"}
ProbeRoutes  == {"live", "ready"}
OpenRoutes   == {"sign-up", "login", "refresh", "logout", "forgot-password",
                 "reset-password", "validate", "complete-sign-up"} \cup ProbeRoutes

\* @UseGuards(JwtAuthGuard, AuthorizationGuard)
Authorized   == AdminRoutes \cup {"me", "user"}
\* @UseGuards(JwtAuthGuard), alone or with the other
Authenticated == Authorized \cup {"change-password"}
\* @UseGuards(ApiKeyOrOAuth2Guard)
Integrations == {"status"}

Routes == OpenRoutes \cup Authenticated \cup Integrations

\* The routes that are no GET.
Mutations == (OpenRoutes \ ProbeRoutes) \cup InviteAdmin \cup {"change-password"}

RequiredRoles(route) == IF route \in AdminRoutes THEN {"ADMIN"} ELSE {}

RequiredPermissions(route) ==
    CASE route \in InviteAdmin -> {"invites:manage"}
      [] route = "events"      -> {"audit:read"}
      [] route = "me"          -> {"users:read:self"}
      [] OTHER                 -> {}

\* Number(text) or parseInt(text, 10), as far as a lookup of ids tells them
\* apart; what can be no id, NaN included, is -1.
Number == Nat \cup {-1}

(* The :id of GET /users/:id as it is written: what Number() makes of it,  *)
(* what parseInt() makes of it, and whether it is the optional minus and   *)
(* the digits that ParseIntPipe asks for.  In such a text the two read the *)
(* same decimal; in others they differ: "0x2" is 2 and 0, "2abc" NaN and   *)
(* 2, "2e1" 20 and 2.                                                      *)
IdText == {text \in [number : Number, parsed : Number, decimal : BOOLEAN] :
              text.decimal => text.number = text.parsed}

\* @CheckPolicies of GET /users/:id
Policy(route, caller, id) ==
    route = "user" => caller.role = "ADMIN" \/ caller.userId = id.number

\* AuthorizationGuard.canActivate, for a caller that JwtAuthGuard let in.
CanActivate(route, caller, id) ==
    /\ RequiredRoles(route) # {} => caller.role \in RequiredRoles(route)
    /\ RequiredPermissions(route) \subseteq caller.permissions
    /\ Policy(route, caller, id)
==============================================================================

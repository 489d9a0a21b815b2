---------------------------- MODULE RefreshTokens ----------------------------
(***************************************************************************)
(* The refresh sessions of AuthService and the JWTs clients hold for them. *)
(*                                                                         *)
(* A session is one element of the refreshTokens array.  Its id comes from *)
(* refreshTokenSequence, which lives in memory.  The client gets the       *)
(* session signed as a JWT without expiry; the service looks a presented   *)
(* JWT up by its `id` claim only.  basis and life are history: the stored  *)
(* password the owner proved to open the session, and the process lifetime *)
(* in which the JWT was signed.                                            *)
(***************************************************************************)
EXTENDS Clients, UsersService

VARIABLES refreshTokens, refreshTokenSequence, signed
sessionVars == <<refreshTokens, refreshTokenSequence, signed>>

Session == [id : Nat, userId : Nat, ip : IPs, ua : UserAgents, basis : Password]
Jwt     == [life : Nat, session : Session]

NoSession == [id |-> "none"]                        \* null
NoJwt     == [life |-> 0, session |-> NoSession]    \* a string verify() refuses

SessionsInit == /\ refreshTokens = {}
                /\ refreshTokenSequence = 0
                /\ signed = {}

\* retrieveRefreshToken: find(token => token.id === decoded.id).
Retrieve(jwt) ==
    IF jwt # NoJwt /\ \E s \in refreshTokens : s.id = jwt.session.id
    THEN CHOOSE s \in refreshTokens : s.id = jwt.session.id
    ELSE NoSession

SameDevice(s, t) == s.userId = t.userId /\ s.ip = t.ip /\ s.ua = t.ua

\* Mutant: the next id is the number of sessions kept.
OpenSessionByLength(kept, userId, ip, ua, basis, life) ==
    LET s == [id |-> Cardinality(kept), userId |-> userId,
              ip |-> ip, ua |-> ua, basis |-> basis]
    IN  /\ refreshTokens' = kept \cup {s}
        /\ refreshTokenSequence' = refreshTokenSequence + 1
        /\ signed' = signed \cup {[life |-> life, session |-> s]}

\* Push a session with the next id into `kept` and hand its JWT out.
OpenSession(kept, userId, ip, ua, basis, life) ==
    LET s == [id |-> refreshTokenSequence, userId |-> userId,
              ip |-> ip, ua |-> ua, basis |-> basis]
    IN  /\ refreshTokens' = kept \cup {s}
        /\ refreshTokenSequence' = refreshTokenSequence + 1
        /\ signed' = signed \cup {[life |-> life, session |-> s]}

\* newRefreshAndAccessToken: sessions of the same device stay.
NewRefreshAndAccessToken(userId, ip, ua, basis, life) ==
    OpenSession(refreshTokens, userId, ip, ua, basis, life)

\* Mutant: the exchanged session stays.
RotateKeeping(old, life) ==
    OpenSession(refreshTokens, old.userId, old.ip, old.ua, old.basis, life)

\* Mutant: of the device's sessions only the exchanged one goes.
RotateExchanged(old, life) ==
    OpenSession(refreshTokens \ {old}, old.userId, old.ip, old.ua, old.basis, life)

\* rotateRefreshTokenForDevice: every session of the device goes.
RotateForDevice(old, life) ==
    OpenSession({s \in refreshTokens : ~SameDevice(s, old)},
                old.userId, old.ip, old.ua, old.basis, life)

\* Mutant: nothing is revoked.
RevokeNone(userId) == UNCHANGED sessionVars

\* revokeAllUserRefreshTokens
RevokeAllUserRefreshTokens(userId) ==
    /\ refreshTokens' = {s \in refreshTokens : s.userId # userId}
    /\ UNCHANGED <<refreshTokenSequence, signed>>

SessionsTypeOK == /\ refreshTokens \subseteq Session
                  /\ refreshTokenSequence \in Nat
                  /\ signed \subseteq Jwt
==============================================================================

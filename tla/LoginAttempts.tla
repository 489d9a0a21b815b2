---------------------------- MODULE LoginAttempts ----------------------------
(***************************************************************************)
(* The login throttling of AuthService                                     *)
(* (src/auth/application/services/auth.service.ts): two maps from a key,   *)
(* the normalised email and the IP address, to a failure counter and the   *)
(* end of the lock it led to.  A key that is absent from its map behaves   *)
(* as NoAttempts: the code reads it with `?? 0`.                           *)
(***************************************************************************)
EXTENDS Clients, Clock

CONSTANTS
    MaxLoginAttempts,   \* AUTH_MAX_LOGIN_ATTEMPTS
    Lockout,            \* AUTH_LOCKOUT_MINUTES, in ticks
    BackoffUnit,        \* the 100 ms of calculateBackoffMs, in ticks
    MaxBackoff          \* AUTH_LOGIN_BACKOFF_MAX_MS, in ticks

\* The constructor refuses any other configuration.
ASSUME ConfigAssumption ==
    /\ MaxLoginAttempts \in Nat \ {0}
    /\ Lockout \in Nat \ {0}
    /\ BackoffUnit \in Nat
    /\ MaxBackoff \in Nat

VARIABLES emailLoginAttempts, ipLoginAttempts
attemptVars == <<emailLoginAttempts, ipLoginAttempts>>

AttemptState == [failCount : Nat, lockedUntil : Nat]
NoAttempts   == [failCount |-> 0, lockedUntil |-> 0]

AttemptsInit == /\ emailLoginAttempts = [e \in Emails |-> NoAttempts]
                /\ ipLoginAttempts    = [i \in IPs |-> NoAttempts]

LargerOf(a, b)  == IF a >= b THEN a ELSE b
SmallerOf(a, b) == IF a <= b THEN a ELSE b

\* Mutant: only the email's lock is asked for.
LoginLockedByEmail(email, ip) == emailLoginAttempts[email].lockedUntil > now

\* assertLoginNotLocked throws 429 when this holds.
LoginLocked(email, ip) ==
    LargerOf(emailLoginAttempts[email].lockedUntil,
             ipLoginAttempts[ip].lockedUntil) > now

\* Mutant: the lock comes one failure late.
BumpLate(previous) ==
    IF previous.failCount + 1 > MaxLoginAttempts
    THEN [failCount |-> 0, lockedUntil |-> now + Lockout]
    ELSE [previous EXCEPT !.failCount = @ + 1]

\* Mutant: a lower count is stored without the lock that was there.
BumpForgetting(previous) ==
    IF previous.failCount + 1 >= MaxLoginAttempts
    THEN [failCount |-> 0, lockedUntil |-> now + Lockout]
    ELSE [failCount |-> previous.failCount + 1, lockedUntil |-> 0]

\* bumpAttemptState: the lock replaces the counter, a lower count keeps
\* whatever lockedUntil was there.
Bump(previous) ==
    IF previous.failCount + 1 >= MaxLoginAttempts
    THEN [failCount |-> 0, lockedUntil |-> now + Lockout]
    ELSE [previous EXCEPT !.failCount = @ + 1]

RegisterFailedLogin(email, ip) ==
    /\ emailLoginAttempts' = [emailLoginAttempts EXCEPT ![email] = Bump(@)]
    /\ ipLoginAttempts'    = [ipLoginAttempts EXCEPT ![ip] = Bump(@)]

\* Map.delete on both maps, whatever their entries hold.
ClearLoginAttempts(email, ip) ==
    /\ emailLoginAttempts' = [emailLoginAttempts EXCEPT ![email] = NoAttempts]
    /\ ipLoginAttempts'    = [ipLoginAttempts EXCEPT ![ip] = NoAttempts]

WorstFailCount(email, ip) ==
    LargerOf(emailLoginAttempts[email].failCount, ipLoginAttempts[ip].failCount)

\* calculateBackoffMs
Backoff(failCount) ==
    IF failCount <= 1 \/ MaxBackoff = 0 THEN 0
    ELSE SmallerOf(BackoffUnit * 2 ^ (failCount - 1), MaxBackoff)

AttemptsTypeOK == /\ emailLoginAttempts \in [Emails -> AttemptState]
                  /\ ipLoginAttempts \in [IPs -> AttemptState]
==============================================================================

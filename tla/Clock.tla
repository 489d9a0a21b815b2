-------------------------------- MODULE Clock --------------------------------
(***************************************************************************)
(* The clock the services read with Date.now() and new Date().  One tick   *)
(* stands for the smallest delay the properties tell apart; every timeout  *)
(* of the code (lockout, back-off, token lifetimes) is a number of ticks.  *)
(* Time 0 is the epoch: the process starts at 1, so a timestamp of 0 is    *)
(* always in the past, as `?? 0` makes it in assertLoginNotLocked.         *)
(***************************************************************************)
EXTENDS Naturals

CONSTANT MaxTime    \* bound: the clock stops here unless a timer is pending

ASSUME MaxTimeAssumption == MaxTime \in Nat \ {0}

VARIABLE now

ClockInit == now = 1

\* The clock is monotone; pending tells whether a timer still needs it.
Tick(pending) == /\ now < MaxTime \/ pending
                 /\ now' = now + 1
==============================================================================

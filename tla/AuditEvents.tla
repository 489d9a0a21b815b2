----------------------------- MODULE AuditEvents -----------------------------
(***************************************************************************)
(* src/audit/infrastructure/repositories/                                  *)
(*     in-memory-audit-event.repository.ts                                 *)
(*                                                                         *)
(* The audit trail: an array of the newest AUDIT_MAX_EVENTS events, each   *)
(* numbered by a counter that outlives the events it numbered.  What an    *)
(* event says is its `input`; its timestamp adds nothing to the order of   *)
(* the ids and is left out.                                                *)
(***************************************************************************)
EXTENDS Integers, SequencesExt

CONSTANTS
    MaxEvents,      \* AUDIT_MAX_EVENTS
    MaxListed       \* the 200 of ListAuditEventsUseCase

\* The constructor refuses an AUDIT_MAX_EVENTS that is no positive integer.
ASSUME AuditAssumption == MaxEvents \in Nat \ {0} /\ MaxListed \in Nat \ {0}

VARIABLES events, sequence
trailVars == <<events, sequence>>

TrailInit == events = <<>> /\ sequence = 0

\* Array.slice(start): what is left of the end from `start` on, counted from
\* the end if it is negative; from 0, or from -0, it is the whole array.
Slice(s, start) ==
    LET from == IF start >= 0 THEN start
                ELSE IF Len(s) + start > 0 THEN Len(s) + start ELSE 0
    IN  SubSeq(s, from + 1, Len(s))

\* splice(0, length - maxEvents), if that many are too many.
CutToMaximum(s) ==
    IF Len(s) > MaxEvents THEN Slice(s, Len(s) - MaxEvents) ELSE s

\* Mutant: the trail is cut before the new event is added.
SaveLate(input) ==
    /\ events' = Append(CutToMaximum(events), [id |-> sequence, input |-> input])
    /\ sequence' = sequence + 1

Save(input) ==
    /\ events' = CutToMaximum(Append(events, [id |-> sequence, input |-> input]))
    /\ sequence' = sequence + 1

\* Mutant: the limit is not kept above zero, and slice(-0) is everything.
ListFromZero(limit) ==
    LET bounded == IF limit > MaxListed THEN MaxListed ELSE limit
    IN  Reverse(Slice(events, -bounded))

\* ListAuditEventsUseCase.execute and list: at least one, at most 200.
List(limit) ==
    LET bounded == CASE limit < 1 -> 1
                     [] limit > MaxListed -> MaxListed
                     [] OTHER -> limit
    IN  Reverse(Slice(events, -bounded))
==============================================================================

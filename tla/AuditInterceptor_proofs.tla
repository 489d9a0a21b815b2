----------------------- MODULE AuditInterceptor_proofs -----------------------
(***************************************************************************)
(* The audit trail is the newest of what was recorded, answers leave their *)
(* events in it and listings show it in order: for a ring of any size, any *)
(* number of requests and any order of their answers.                      *)
(***************************************************************************)
EXTENDS AuditInterceptor, SequenceTheorems, TLAPS

(* What clients are answered and events say of the handlers. *)
Answered == HandlerStatuses \cup {"500", "200", "201"}

Event == [request : Requests, status : Answered, success : BOOLEAN]

Entry == [id : Nat, input : Event]

(* TrailIsRecent is inductive once the two sequences are known to be ones. *)
TrailInv == /\ events \in Seq(Entry)
            /\ recorded \in Seq(Event)
            /\ TrailIsRecent

(* slice(-n) for a positive n is the end of s, of at most n elements. *)
LEMMA SliceIsSuffix ==
    ASSUME NEW S, NEW s \in Seq(S), NEW n \in Nat \ {0}
    PROVE  /\ Slice(s, -n) \in Seq(S)
           /\ Len(Slice(s, -n)) = IF Len(s) <= n THEN Len(s) ELSE n
           /\ \A i \in 1 .. Len(Slice(s, -n)) :
                 Slice(s, -n)[i] = s[Len(s) - Len(Slice(s, -n)) + i]
  <1>1. /\ Len(s) \in Nat /\ ~(-n >= 0) /\ Len(s) + (-n) = Len(s) - n
        /\ Len(s) - n > 0 <=> ~(Len(s) <= n)
    BY LenProperties
  <1>2. CASE Len(s) <= n
    <2>1. Slice(s, -n) = SubSeq(s, 0 + 1, Len(s))
      BY <1>1, <1>2 DEF Slice
    <2>2. SubSeq(s, 1, Len(s)) = s
      BY <1>1
    <2>3. QED
      BY <1>1, <1>2, <2>1, <2>2
  <1>3. CASE ~(Len(s) <= n)
    <2> DEFINE m == Len(s) - n + 1
    <2>1. m \in 1 .. Len(s) + 1 /\ Slice(s, -n) = SubSeq(s, m, Len(s))
      <3>1. m \in 1 .. Len(s) + 1
        BY <1>1, <1>3
      <3>2. Len(s) + (-n) > 0 /\ (Len(s) + (-n)) + 1 = m
        BY <1>1, <1>3
      <3>3. Slice(s, -n) = SubSeq(s, (Len(s) + (-n)) + 1, Len(s))
        BY <1>1, <3>2 DEF Slice
      <3>4. QED
        BY <3>1, <3>2, <3>3
    <2>2. SubSeq(s, m, Len(s)) \in Seq(S) /\ Len(SubSeq(s, m, Len(s))) = n
      BY <2>1, <1>1, <1>3, SubSeqProperties
    <2>3. \A i \in 1 .. n : SubSeq(s, m, Len(s))[i] = s[m + i - 1]
      BY <2>1, <1>1, <1>3, SubSeqProperties
    <2>4. \A i \in 1 .. n : m + i - 1 = Len(s) - n + i
      BY <1>1
    <2> HIDE DEF m
    <2>5. Len(Slice(s, -n)) = n
      BY <2>1, <2>2
    <2>6. \A i \in 1 .. n : Slice(s, -n)[i] = s[Len(s) - n + i]
      BY <2>1, <2>3, <2>4
    <2>7. QED
      BY <2>1, <2>2, <2>5, <2>6, <1>3
  <1>4. QED
    BY <1>2, <1>3

(* What the trail is cut to is its last AUDIT_MAX_EVENTS. *)
LEMMA CutIsSlice ==
    ASSUME NEW S, NEW s \in Seq(S)
    PROVE  CutToMaximum(s) = Slice(s, -MaxEvents)
  <1> DEFINE n == MaxEvents
  <1>1. n \in Nat \ {0}
    BY AuditAssumption
  <1> HIDE DEF n
  <1>2. /\ Len(s) \in Nat /\ ~(-n >= 0) /\ Len(s) + (-n) = Len(s) - n
        /\ Len(s) > n <=> Len(s) - n > 0
    BY <1>1, LenProperties
  <1>3. CASE Len(s) > n
    <2>1. Slice(s, -n) = SubSeq(s, Len(s) - n + 1, Len(s))
      BY <1>2, <1>3 DEF Slice
    <2>2. Slice(s, Len(s) - n) = SubSeq(s, Len(s) - n + 1, Len(s))
      <3>1. Len(s) - n \in Nat
        BY <1>1, <1>2, <1>3
      <3>2. \A k \in Nat : Slice(s, k) = SubSeq(s, k + 1, Len(s))
        BY DEF Slice
      <3>3. QED
        BY <3>1, <3>2
    <2>3. CutToMaximum(s) = Slice(s, Len(s) - n)
      BY <1>3 DEF CutToMaximum, n
    <2>4. QED
      BY <2>1, <2>2, <2>3 DEF n
  <1>4. CASE ~(Len(s) > n)
    <2>1. Slice(s, -n) = SubSeq(s, 0 + 1, Len(s))
      BY <1>2, <1>4 DEF Slice
    <2>2. SubSeq(s, 1, Len(s)) = s
      BY <1>2
    <2>3. QED
      BY <1>4, <2>1, <2>2 DEF CutToMaximum, n
  <1>5. QED
    BY <1>3, <1>4

(* Recording an answer keeps the trail. *)
LEMMA RecordKeeps ==
    ASSUME TrailInv, NEW r \in Requests, NEW success \in BOOLEAN,
           NEW status \in Answered,
           Record(r, status, success)
    PROVE  TrailInv'
  <1> DEFINE e == [request |-> r, status |-> status, success |-> success]
             all == Append(events, [id |-> sequence, input |-> e])
  <1>1. e \in Event /\ sequence = Len(recorded) /\ sequence \in Nat
    BY LenProperties DEF Event, TrailInv, TrailIsRecent
  <1>3. [id |-> sequence, input |-> e] \in Entry
    BY <1>1 DEF Entry
  <1>4. recorded \in Seq(Event) /\ events \in Seq(Entry)
    BY DEF TrailInv
  <1>2. /\ recorded' = Append(recorded, e)
        /\ events' = Slice(all, -MaxEvents)
        /\ sequence' = sequence + 1
    <2>1. all \in Seq(Entry)
      BY <1>3, <1>4, AppendProperties
    <2>2. QED
      BY <2>1, CutIsSlice DEF Record, Save
  <1> HIDE DEF e
  <1>5. /\ recorded' \in Seq(Event)
        /\ Len(recorded') = Len(recorded) + 1
        /\ recorded'[Len(recorded) + 1] = e
        /\ \A i \in 1 .. Len(recorded) : recorded'[i] = recorded[i]
    BY <1>1, <1>2, <1>4, AppendProperties
  <1>6. /\ all \in Seq(Entry)
        /\ Len(all) = Len(events) + 1
        /\ all[Len(events) + 1] = [id |-> sequence, input |-> e]
        /\ \A i \in 1 .. Len(events) : all[i] = events[i]
    BY <1>3, <1>4, AppendProperties
  <1> HIDE DEF all
  <1>0. MaxEvents \in Nat \ {0}
    BY AuditAssumption
  <1>7. /\ events' \in Seq(Entry)
        /\ Len(events') = IF Len(all) <= MaxEvents THEN Len(all) ELSE MaxEvents
        /\ \A i \in 1 .. Len(events') : events'[i] = all[Len(all) - Len(events') + i]
    <2>1. all \in Seq(Entry)
      BY <1>6
    <2>2. /\ Slice(all, -MaxEvents) \in Seq(Entry)
          /\ Len(Slice(all, -MaxEvents)) = IF Len(all) <= MaxEvents THEN Len(all) ELSE MaxEvents
          /\ \A i \in 1 .. Len(Slice(all, -MaxEvents)) :
                Slice(all, -MaxEvents)[i] = all[Len(all) - Len(Slice(all, -MaxEvents)) + i]
      BY <1>0, <2>1, SliceIsSuffix
    <2>3. QED
      BY <1>2, <2>2
  <1>8. Len(events) = IF sequence < MaxEvents THEN sequence ELSE MaxEvents
    BY DEF TrailInv, TrailIsRecent
  <1>9. Len(events') = IF sequence' < MaxEvents THEN sequence' ELSE MaxEvents
    BY <1>1, <1>2, <1>6, <1>7, <1>8, AuditAssumption
  <1>10. ASSUME NEW k \in 1 .. Len(events)
         PROVE  /\ events[k].id = sequence - Len(events) + k - 1
                /\ events[k].input = recorded[sequence - Len(events) + k]
    <2>1. k \in DOMAIN events /\ k \in Nat /\ Len(events) \in Nat
      BY <1>4, LenProperties
    <2>2. /\ events[k].id = sequence - Len(events) + k - 1
          /\ events[k].input = recorded[events[k].id + 1]
      BY <2>1 DEF TrailInv, TrailIsRecent
    <2>3. events[k].id + 1 = sequence - Len(events) + k
      BY <2>1, <2>2, <1>1
    <2>4. QED
      BY <2>2, <2>3
  <1>11. ASSUME NEW i \in 1 .. Len(events')
         PROVE  /\ events'[i].id = sequence' - Len(events') + i - 1
                /\ events'[i].input = recorded'[events'[i].id + 1]
    <2> DEFINE k == Len(all) - Len(events') + i
    <2>1. Len(events) \in Nat /\ Len(events') \in Nat /\ i \in Nat /\ i >= 1
      BY <1>4, <1>7, LenProperties
    <2>2. Len(all) = Len(events) + 1 /\ sequence' = sequence + 1 /\ sequence \in Nat
      BY <1>1, <1>2, <1>6
    <2>3. Len(events') <= Len(all) /\ i <= Len(events')
      BY <2>1, <2>2, <1>0, <1>7
    <2>4. /\ k \in 1 .. Len(events) + 1
          /\ sequence' - Len(events') + i - 1 = sequence - Len(events) + k - 1
      BY <2>1, <2>2, <2>3
    <2>5. events'[i] = all[k]
      BY <1>7
    <2> HIDE DEF k
    <2>6. CASE k = Len(events) + 1
      <3>1. events'[i].id = sequence /\ events'[i].input = e
        BY <2>5, <2>6, <1>6
      <3>2. sequence - Len(events) + k - 1 = sequence
        BY <2>1, <2>2, <2>6
      <3>3. QED
        BY <3>1, <3>2, <2>4, <1>1, <1>5
    <2>7. CASE k \in 1 .. Len(events)
      <3>1. events'[i] = events[k]
        BY <2>5, <2>7, <1>6
      <3>2. events[k].id = sequence - Len(events) + k - 1
        BY <2>7, <1>10
      <3>3. events[k].input = recorded[sequence - Len(events) + k]
        BY <2>7, <1>10
      <3>4. sequence - Len(events) + k \in 1 .. Len(recorded)
        BY <2>1, <2>2, <2>7, <1>1, <1>8, <1>0
      <3>5. recorded'[sequence - Len(events) + k] = recorded[sequence - Len(events) + k]
        BY <3>4, <1>5
      <3>6. events[k].id + 1 = sequence - Len(events) + k
        BY <3>2, <2>1, <2>2, <2>7
      <3>7. QED
        BY <3>1, <3>2, <3>3, <3>5, <3>6, <2>4
    <2>8. QED
      BY <2>1, <2>4, <2>6, <2>7
  <1>12. sequence' = Len(recorded')
    BY <1>1, <1>2, <1>5
  <1>13. DOMAIN events' = 1 .. Len(events')
    BY <1>7, LenProperties
  <1>14. TrailIsRecent'
    BY <1>9, <1>11, <1>12, <1>13 DEF TrailIsRecent
  <1>15. QED
    BY <1>5, <1>7, <1>14 DEF TrailInv

(* A step that leaves the trail alone keeps it. *)
LEMMA IdleKeeps ==
    ASSUME TrailInv, UNCHANGED <<trailVars, recorded>>
    PROVE  TrailInv'
  BY DEF TrailInv, TrailIsRecent, trailVars

(* Interceptor and exception filter find the same status in an error:      *)
(* those that have one are HttpExceptions.                                 *)
LEMMA StatusesAgree ==
    ASSUME NEW error \in Thrown
    PROVE  FilterStatus(error) = ExtractStatusCode(error) /\ FilterStatus(error) \in Answered
  <1>1. \/ error.http = TRUE /\ error.status \in HandlerStatuses
        \/ error.http = FALSE /\ error.status = "none"
    BY InterceptorAssumption DEF Error
  <1>2. QED
    BY <1>1 DEF FilterStatus, ExtractStatusCode, Answered, HandlerStatuses

(* So a handler's answer is recorded with the status its client gets. *)
LEMMA HandlersRespond ==
    ASSUME NEW r \in Requests, HandlerReturns(r) \/ HandlerThrows(r)
    PROVE  \E success \in BOOLEAN, status \in Answered :
              Respond(r, status, status, success)
  <1>1. CASE HandlerReturns(r)
    BY <1>1 DEF HandlerReturns, ReturnStatus, Answered
  <1>2. CASE HandlerThrows(r)
    <2>1. PICK error \in Thrown :
              Respond(r, FilterStatus(error), ExtractStatusCode(error), FALSE)
      BY <1>2 DEF HandlerThrows
    <2>2. QED
      BY <2>1, StatusesAgree
  <1>3. QED
    BY <1>1, <1>2

(* Every step keeps the trail: answers record or leave it, a restart       *)
(* empties it.                                                             *)
LEMMA TrailInvStep == TrailInv /\ [Next]_vars => TrailInv'
  <1> SUFFICES ASSUME TrailInv, [Next]_vars
               PROVE  TrailInv'
    OBVIOUS
  <1>1. ASSUME NEW r \in Requests, NEW success \in BOOLEAN,
               NEW status \in Answered,
               Respond(r, status, status, success)
        PROVE  TrailInv'
    BY <1>1, RecordKeeps, IdleKeeps DEF Respond
  <1>2. ASSUME NEW r \in Requests, HandlerReturns(r)
        PROVE  TrailInv'
    BY <1>1, <1>2, HandlersRespond
  <1>3. ASSUME NEW r \in Requests, HandlerThrows(r)
        PROVE  TrailInv'
    BY <1>1, <1>3, HandlersRespond
  <1>4. ASSUME NEW r \in Requests, Refuse(r) \/ \E q \in Request : Handle(r, q)
        PROVE  TrailInv'
    BY <1>4, IdleKeeps DEF Refuse, Handle
  <1>5. ASSUME NEW r \in Requests, NEW limit \in Limits, ListEvents(r, limit)
        PROVE  TrailInv'
    BY <1>5, IdleKeeps DEF ListEvents
  <1>6. CASE Restart
    BY <1>6, AuditAssumption DEF Restart, TrailInv, TrailIsRecent
  <1>7. CASE UNCHANGED vars
    BY <1>7, IdleKeeps DEF vars
  <1>8. QED
    BY <1>2, <1>3, <1>4, <1>5, <1>6, <1>7 DEF Next

(* Whatever the size of the ring and the order of the answers, the trail   *)
(* is the newest of what the process recorded.                             *)
THEOREM TrailKept == Spec => []TrailIsRecent
  <1>1. Init => TrailInv
    BY AuditAssumption DEF Init, TrailInit, TrailInv, TrailIsRecent
  <1>2. TrailInv /\ [Next]_vars => TrailInv'
    BY TrailInvStep
  <1>3. TrailInv => TrailIsRecent
    BY DEF TrailInv
  <1>4. QED
    BY <1>1, <1>2, <1>3, PTL DEF Spec
------------------------------------------------------------------------------
(* MutationsRecorded and ListedNewestFirst *)

(* In a trail that is recent an event's number follows from its place.     *)
LEMMA IdsOfTrail ==
    ASSUME TrailInv
    PROVE  /\ Len(events) \in Nat /\ DOMAIN events = 1 .. Len(events) /\ sequence \in Nat
           /\ \A k \in 1 .. Len(events) : events[k].id = sequence - Len(events) + k - 1
  <1>1. Len(events) \in Nat /\ DOMAIN events = 1 .. Len(events) /\ Len(recorded) \in Nat
    BY LenProperties DEF TrailInv
  <1>2. QED
    BY <1>1 DEF TrailInv, TrailIsRecent

(* Events name requests there are.                                        *)
LEMMA EventsOfRequests ==
    ASSUME TrailInv
    PROVE  \A i \in DOMAIN events : events[i].input.request \in Requests
  <1>1. \A i \in DOMAIN events : events[i] \in Entry
    BY ElementOfSeq, LenProperties DEF TrailInv
  <1>2. QED
    BY <1>1 DEF Entry, Event

(* What a listing with any limit answers. *)
LEMMA ListIsNewestFirst ==
    ASSUME TrailInv, NEW limit \in Int
    PROVE  /\ Len(List(limit)) \in Nat /\ Len(List(limit)) <= MaxListed
           /\ DOMAIN List(limit) = 1 .. Len(List(limit))
           /\ events # <<>> => List(limit) # <<>>
           /\ \A i \in 1 .. Len(List(limit)) : List(limit)[i].id = sequence - i
  <1>1. PICK n \in Nat \ {0} : n <= MaxListed /\ List(limit) = Reverse(Slice(events, -n))
    <2>1. CASE limit < 1
      BY <2>1, AuditAssumption DEF List
    <2>2. CASE limit > MaxListed
      BY <2>2, AuditAssumption DEF List
    <2>3. CASE ~(limit < 1) /\ ~(limit > MaxListed)
      BY <2>3, AuditAssumption DEF List
    <2>4. QED
      BY <2>1, <2>2, <2>3
  <1> DEFINE N == Slice(events, -n)
  <1>2. /\ N \in Seq(Entry)
        /\ Len(N) = IF Len(events) <= n THEN Len(events) ELSE n
        /\ \A i \in 1 .. Len(N) : N[i] = events[Len(events) - Len(N) + i]
    BY SliceIsSuffix DEF TrailInv
  <1>3. Len(N) \in Nat /\ Len(N) <= n /\ Len(N) <= Len(events)
    BY <1>2, IdsOfTrail
  <1> HIDE DEF N
  <1>4. List(limit) = [i \in 1 .. Len(N) |-> N[(Len(N) - i) + 1]]
    BY <1>1 DEF Reverse, N
  <1>5. Len(List(limit)) = Len(N) /\ DOMAIN List(limit) = 1 .. Len(N)
    BY <1>3, <1>4
  <1>6. ASSUME NEW i \in 1 .. Len(N)
        PROVE  List(limit)[i].id = sequence - i
    <2>1. List(limit)[i] = N[(Len(N) - i) + 1] /\ (Len(N) - i) + 1 \in 1 .. Len(N)
      BY <1>3, <1>4
    <2>2. N[(Len(N) - i) + 1] = events[Len(events) - i + 1]
      <3>1. Len(events) - Len(N) + ((Len(N) - i) + 1) = Len(events) - i + 1
        BY <1>3, IdsOfTrail
      <3>2. QED
        BY <1>2, <2>1, <3>1
    <2>3. Len(events) - i + 1 \in 1 .. Len(events)
      BY <1>3, IdsOfTrail
    <2>4. QED
      BY <2>1, <2>2, <2>3, IdsOfTrail
  <1>7. events # <<>> => List(limit) # <<>>
    <2>1. ASSUME events # <<>>
          PROVE  Len(events) >= 1
      BY <2>1, EmptySeq, IdsOfTrail DEF TrailInv
    <2>2. ASSUME events # <<>>
          PROVE  Len(N) >= 1
      BY <1>2, <2>1, <2>2, IdsOfTrail
    <2>3. QED
      BY <1>5, <2>2
  <1>8. QED
    BY <1>1, <1>3, <1>5, <1>6, <1>7, AuditAssumption

(* The tables of the requests have their domains, and a request in its     *)
(* handler is one; an event is of a request that was answered.             *)
RequestsInv ==
    /\ DOMAIN pc = Requests /\ DOMAIN request = Requests /\ DOMAIN listed = Requests
    /\ \A r \in Requests : pc[r] = "handling" => request[r] \in Request
    /\ \A i \in DOMAIN events : pc[events[i].input.request] \notin {"idle", "handling"}
    /\ life \in Nat

TrailHistory == TrailInv /\ RequestsInv

(* The event that is recorded is the last, and what the ring keeps of the  *)
(* others was there before.                                                *)
LEMMA RecordAtEnd ==
    ASSUME TrailInv, NEW r \in Requests, NEW success \in BOOLEAN,
           NEW status \in Answered,
           Record(r, status, success)
    PROVE  /\ DOMAIN events' = 1 .. Len(events') /\ Len(events') \in Nat \ {0}
           /\ events'[Len(events')].input.request = r
           /\ events'[Len(events')].input.status = status
           /\ \A i \in DOMAIN events' : \/ events'[i].input.request = r
                                        \/ \E k \in DOMAIN events : events'[i] = events[k]
  <1> DEFINE e == [request |-> r, status |-> status, success |-> success]
             all == Append(events, [id |-> sequence, input |-> e])
  <1>1. e \in Event /\ e.request = r /\ e.status = status
    BY DEF Event
  <1>2. sequence \in Nat /\ events \in Seq(Entry) /\ MaxEvents \in Nat \ {0}
    BY IdsOfTrail, AuditAssumption DEF TrailInv
  <1> HIDE DEF e
  <1>4. [id |-> sequence, input |-> e] \in Entry
    BY <1>1, <1>2 DEF Entry
  <1>3. events' = Slice(all, -MaxEvents)
    <2>1. all \in Seq(Entry)
      BY <1>2, <1>4, AppendProperties
    <2>2. QED
      BY <2>1, CutIsSlice DEF Record, Save, e
  <1>5. /\ all \in Seq(Entry) /\ Len(all) = Len(events) + 1
        /\ all[Len(events) + 1].input = e
        /\ \A k \in 1 .. Len(events) : all[k] = events[k]
    BY <1>2, <1>4, AppendProperties
  <1> HIDE DEF all
  <1>6. /\ events' \in Seq(Entry)
        /\ Len(events') = IF Len(all) <= MaxEvents THEN Len(all) ELSE MaxEvents
        /\ \A i \in 1 .. Len(events') : events'[i] = all[Len(all) - Len(events') + i]
    <2>1. /\ Slice(all, -MaxEvents) \in Seq(Entry)
          /\ Len(Slice(all, -MaxEvents)) = IF Len(all) <= MaxEvents THEN Len(all) ELSE MaxEvents
          /\ \A i \in 1 .. Len(Slice(all, -MaxEvents)) :
                Slice(all, -MaxEvents)[i] = all[Len(all) - Len(Slice(all, -MaxEvents)) + i]
      <3>1. all \in Seq(Entry) /\ MaxEvents \in Nat \ {0}
        BY <1>2, <1>5
      <3>2. QED
        BY <3>1, SliceIsSuffix
    <2>2. QED
      BY <1>3, <2>1
  <1>7. /\ DOMAIN events' = 1 .. Len(events') /\ Len(events') \in Nat \ {0}
        /\ Len(events') <= Len(all) /\ Len(all) \in Nat
    BY <1>2, <1>5, <1>6, IdsOfTrail, LenProperties
  <1>8. events'[Len(events')] = all[Len(all)]
    BY <1>6, <1>7
  <1>9. ASSUME NEW i \in 1 .. Len(events')
        PROVE  \/ events'[i].input = e
               \/ \E k \in DOMAIN events : events'[i] = events[k]
    <2> DEFINE k == Len(all) - Len(events') + i
    <2>1. Len(events) \in Nat /\ Len(all) = Len(events) + 1
      BY <1>5, IdsOfTrail
    <2>2. k \in 1 .. Len(events) + 1 /\ events'[i] = all[k]
      BY <1>6, <1>7, <2>1
    <2> HIDE DEF k
    <2>3. CASE k = Len(events) + 1
      BY <1>5, <2>2, <2>3
    <2>4. CASE k \in 1 .. Len(events)
      BY <1>5, <2>2, <2>4, IdsOfTrail
    <2>5. QED
      BY <2>1, <2>2, <2>3, <2>4
  <1>10. QED
    BY <1>1, <1>5, <1>7, <1>8, <1>9

(* An answer of r, whether it is recorded or not. *)
LEMMA RespondKeeps ==
    ASSUME TrailHistory, NEW r \in Requests, NEW success \in BOOLEAN,
           NEW status \in Answered,
           Respond(r, status, status, success)
    PROVE  RequestsInv'
  <1>1. /\ pc' = [pc EXCEPT ![r] = status] /\ status \notin {"idle", "handling"}
        /\ request' = [request EXCEPT ![r] = NoRequest]
        /\ UNCHANGED <<listed, life>> /\ pc'[r] = status
    BY DEF Respond, Answered, HandlerStatuses, TrailHistory, RequestsInv
  <1>2. \A q \in Requests : pc'[q] = IF q = r THEN status ELSE pc[q]
    BY <1>1 DEF TrailHistory, RequestsInv
  <1>3. \A i \in DOMAIN events : events[i].input.request \in Requests
    BY EventsOfRequests DEF TrailHistory
  <1>4. \A i \in DOMAIN events' : \/ events'[i].input.request = r
                                  \/ \E k \in DOMAIN events : events'[i] = events[k]
    <2>1. CASE Record(r, status, success)
      BY <2>1, RecordAtEnd DEF TrailHistory
    <2>2. CASE events' = events
      BY <2>2
    <2>3. QED
      BY <2>1, <2>2 DEF Respond, trailVars
  <1>5. \A i \in DOMAIN events' : pc'[events'[i].input.request] \notin {"idle", "handling"}
    BY <1>1, <1>2, <1>3, <1>4 DEF TrailHistory, RequestsInv
  <1>6. QED
    BY <1>1, <1>2, <1>5 DEF TrailHistory, RequestsInv

(* Handlers record, everything else leaves the trail or empties it.        *)
LEMMA TrailHistoryStep ==
    ASSUME TrailHistory, [Next]_vars
    PROVE  TrailHistory'
  <1>1. TrailInv'
    BY TrailInvStep DEF TrailHistory
  <1>2. ASSUME NEW r \in Requests, HandlerReturns(r) \/ HandlerThrows(r)
        PROVE  RequestsInv'
    BY <1>2, HandlersRespond, RespondKeeps
  <1>3. ASSUME NEW r \in Requests, Refuse(r) \/ \E q \in Request : Handle(r, q)
        PROVE  RequestsInv'
    <2>1. /\ \A s \in Requests : s # r => pc'[s] = pc[s] /\ request'[s] = request[s]
          /\ pc[r] = "idle" /\ pc'[r] \in {"401", "403", "429", "handling"}
          /\ pc'[r] = "handling" => request'[r] \in Request
          /\ UNCHANGED <<events, listed, life>>
          /\ DOMAIN pc' = Requests /\ DOMAIN request' = Requests
      BY <1>3 DEF Refuse, Handle, trailVars, TrailHistory, RequestsInv
    <2>2. \A i \in DOMAIN events : events[i].input.request \in Requests
      BY EventsOfRequests DEF TrailHistory
    <2>3. QED
      BY <2>1, <2>2 DEF TrailHistory, RequestsInv
  <1>4. ASSUME NEW r \in Requests, NEW limit \in Limits, ListEvents(r, limit)
        PROVE  RequestsInv'
    <2>1. /\ \A s \in Requests : s # r => pc'[s] = pc[s] /\ request'[s] = request[s]
          /\ pc[r] = "idle" /\ pc'[r] = "listed" /\ UNCHANGED <<events, life>>
          /\ DOMAIN pc' = Requests /\ DOMAIN request' = Requests /\ DOMAIN listed' = Requests
      BY <1>4 DEF ListEvents, trailVars, TrailHistory, RequestsInv
    <2>2. \A i \in DOMAIN events : events[i].input.request \in Requests
      BY EventsOfRequests DEF TrailHistory
    <2>3. QED
      BY <2>1, <2>2 DEF TrailHistory, RequestsInv
  <1>5. ASSUME Restart
        PROVE  RequestsInv'
    BY <1>5 DEF Restart, TrailHistory, RequestsInv
  <1>6. ASSUME UNCHANGED vars
        PROVE  RequestsInv'
    BY <1>6 DEF vars, trailVars, TrailHistory, RequestsInv
  <1>7. QED
    BY <1>1, <1>2, <1>3, <1>4, <1>5, <1>6 DEF Next, TrailHistory

(* TrailHistory holds throughout.                                          *)
LEMMA TrailHistoryHolds == Spec => []TrailHistory
  <1>1. Init => TrailHistory
    BY AuditAssumption DEF Init, TrailInit, TrailHistory, RequestsInv, TrailInv, TrailIsRecent
  <1>2. TrailHistory /\ [Next]_vars => TrailHistory'
    BY TrailHistoryStep
  <1>3. QED
    BY <1>1, <1>2, PTL DEF Spec

(* For any limit a client asks for: a listing is a gapless run of the      *)
(* trail, newest first, never empty without reason and never too long.     *)
THEOREM ListingsInOrder == Spec => ListedNewestFirst
  <1>1. ASSUME TrailHistory, [Next]_vars, NEW r \in Requests,
               pc[r] # "listed", pc'[r] = "listed"
        PROVE  /\ Len(listed'[r]) <= MaxListed
               /\ events # <<>> => listed'[r] # <<>>
               /\ \A i \in DOMAIN listed'[r] : listed'[r][i].id = sequence - i
    <2>1. PICK limit \in Limits : ListEvents(r, limit)
      <3>1. \A q \in Requests : ~HandlerReturns(q) /\ ~HandlerThrows(q)
        <4>1. ASSUME NEW q \in Requests, NEW success \in BOOLEAN,
                     NEW status \in Answered,
                     Respond(q, status, status, success)
              PROVE  FALSE
          BY <1>1, <4>1 DEF Respond, Answered, HandlerStatuses, TrailHistory, RequestsInv
        <4>2. QED
          BY <4>1, HandlersRespond
      <3>2. \A q \in Requests : ~Refuse(q) /\ \A x \in Request : ~Handle(q, x)
        BY <1>1 DEF Refuse, Handle, TrailHistory, RequestsInv
      <3>3. ~Restart /\ ~UNCHANGED vars
        BY <1>1 DEF Restart, vars
      <3>4. PICK q \in Requests : \E limit \in Limits : ListEvents(q, limit)
        BY <1>1, <3>1, <3>2, <3>3 DEF Next
      <3>5. q = r
        BY <1>1, <3>4 DEF ListEvents, TrailHistory, RequestsInv
      <3>6. QED
        BY <3>4, <3>5
    <2>2. listed'[r] = List(limit) /\ limit \in Int
      BY <2>1, <1>1, InterceptorAssumption DEF ListEvents, TrailHistory, RequestsInv
    <2>3. QED
      BY <1>1, <2>2, ListIsNewestFirst DEF TrailHistory
  <1>2. TrailHistory /\ [Next]_vars =>
            [\A r \in Requests : pc[r] # "listed" /\ pc'[r] = "listed" =>
                /\ Len(listed'[r]) <= MaxListed
                /\ events # <<>> => listed'[r] # <<>>
                /\ \A i \in DOMAIN listed'[r] : listed'[r][i].id = sequence - i]_vars
    BY <1>1
  <1>3. QED
    BY <1>2, TrailHistoryHolds, PTL DEF Spec, ListedNewestFirst

(* For any ring and any order of the answers: the trail ends with the      *)
(* event of a mutation as its client is answered, and a request that is    *)
(* none leaves no event.                                                   *)
THEOREM AnswersRecorded == Spec => MutationsRecorded
  <1> DEFINE Mutation == [method : {"POST", "DELETE"}, path : {"/api/"}]
             Recorded(r) == \E i \in DOMAIN events' :
                               /\ i = Len(events')
                               /\ events'[i].input.request = r
                               /\ events'[i].input.status = pc'[r]
  <1>1. ASSUME TrailHistory, [Next]_vars, life' = life, NEW r \in Requests,
               pc[r] = "handling", pc'[r] # "handling"
        PROVE  request[r] \in Mutation <=> Recorded(r)
    <2>1. PICK success \in BOOLEAN, status \in Answered :
              Respond(r, status, status, success)
      <3>1. ~Restart /\ ~UNCHANGED vars
        BY <1>1 DEF Restart, vars, TrailHistory, RequestsInv
      <3>2. \A q \in Requests : ~Refuse(q) /\ \A x \in Request : ~Handle(q, x)
        BY <1>1 DEF Refuse, Handle, TrailHistory, RequestsInv
      <3>3. \A q \in Requests, limit \in Limits : ~ListEvents(q, limit)
        BY <1>1 DEF ListEvents, TrailHistory, RequestsInv
      <3>4. PICK q \in Requests : HandlerReturns(q) \/ HandlerThrows(q)
        BY <1>1, <3>1, <3>2, <3>3 DEF Next
      <3>5. PICK success \in BOOLEAN, status \in Answered :
                Respond(q, status, status, success)
        BY <3>4, HandlersRespond
      <3>6. q = r
        BY <1>1, <3>5 DEF Respond, TrailHistory, RequestsInv
      <3>7. QED
        BY <3>5, <3>6
    <2>2. pc'[r] = status
      BY <1>1, <2>1 DEF Respond, TrailHistory, RequestsInv
    <2>3. request[r] \in Request
      BY <1>1 DEF TrailHistory, RequestsInv
    <2>4. request[r] \in Mutation <=> ShouldAuditRequest(request[r])
      BY <2>3 DEF Request, Methods, ShouldAuditRequest
    <2>5. CASE ShouldAuditRequest(request[r])
      <3>1. Record(r, status, success)
        BY <2>1, <2>5 DEF Respond
      <3>2. /\ DOMAIN events' = 1 .. Len(events') /\ Len(events') \in Nat \ {0}
            /\ events'[Len(events')].input.request = r
            /\ events'[Len(events')].input.status = status
        BY <1>1, <3>1, RecordAtEnd DEF TrailHistory
      <3>3. QED
        BY <2>2, <2>4, <2>5, <3>2
    <2>6. CASE ~ShouldAuditRequest(request[r])
      <3>1. events' = events
        BY <2>1, <2>6 DEF Respond, trailVars
      <3>2. \A i \in DOMAIN events : events[i].input.request # r
        BY <1>1 DEF TrailHistory, RequestsInv
      <3>3. QED
        BY <2>4, <2>6, <3>1, <3>2
    <2>7. QED
      BY <2>5, <2>6
  <1>2. TrailHistory /\ [Next]_vars =>
            [life' = life =>
                \A r \in Requests : pc[r] = "handling" /\ pc'[r] # "handling" =>
                    (request[r] \in Mutation <=> Recorded(r))]_vars
    BY <1>1
  <1>3. QED
    BY <1>2, TrailHistoryHolds, PTL DEF Spec, MutationsRecorded
==============================================================================

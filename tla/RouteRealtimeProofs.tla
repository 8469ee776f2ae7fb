-------------------------- MODULE RouteRealtimeProofs --------------------------
(***************************************************************************)
(* Proofs about the real-time node, for any map, any reports and any       *)
(* threshold.                                                              *)
(***************************************************************************)
EXTENDS RouteRealtime, TLAPS

-----------------------------------------------------------------------------
(* Rejection                                                               *)

(* A route that is rejected somewhere is not clear, and it is rejected at  *)
(* one report only.                                                        *)
LEMMA HitIsUnique ==
  ASSUME TypeOK, NEW r \in Routes, NEW s \in Reports, FirstHit(r, s)
  PROVE  ~Clear(r) /\ Over(s) /\ \A t \in Reports : FirstHit(r, t) => t = s
<1>1. PICK i \in DOMAIN meets[r] :
        meets[r][i] = s /\ Over(s) /\ \A j \in DOMAIN meets[r] : j < i => ~Over(meets[r][j])
  BY DEF FirstHit
<1>2. DOMAIN meets[r] \subseteq Nat
  BY RealtimeAssumption DEF TypeOK
<1>3. ASSUME NEW t \in Reports, FirstHit(r, t) PROVE t = s
  <2>1. PICK k \in DOMAIN meets[r] :
          meets[r][k] = t /\ Over(t) /\ \A j \in DOMAIN meets[r] : j < k => ~Over(meets[r][j])
    BY <1>3 DEF FirstHit
  <2>2. ~(i < k) /\ ~(k < i)
    BY <1>1, <2>1
  <2>3. i = k
    BY <1>2, <2>2
  <2>4. QED
    BY <1>1, <2>1, <2>3
<1>4. QED
  BY <1>1, <1>3 DEF Clear

-----------------------------------------------------------------------------
(* Type correctness                                                        *)

(* The buffer stays within its limit when an incident is appended.         *)
LEMMA BufferStep ==
  ASSUME TypeOK, NEW e \in Incidents
  PROVE  Append(Trimmed, e) \in Seq(Incidents) /\ Len(Append(Trimmed, e)) <= MaxBuffer
<1>1. Trimmed \in Seq(Incidents) /\ Len(Trimmed) < MaxBuffer
  <2>1. CASE Len(buffer) >= MaxBuffer
    <3>1. Len(buffer) >= 1 /\ Len(buffer) \in Nat /\ Trimmed = Tail(buffer)
      BY <2>1, RealtimeAssumption DEF TypeOK, Trimmed
    <3>2. buffer # <<>>
      BY <3>1
    <3>3. Tail(buffer) \in Seq(Incidents) /\ Len(Tail(buffer)) = Len(buffer) - 1
      BY <3>1, <3>2 DEF TypeOK
    <3>4. QED
      BY <3>1, <3>3, RealtimeAssumption DEF TypeOK
  <2>2. CASE ~(Len(buffer) >= MaxBuffer)
    BY <2>2, RealtimeAssumption DEF TypeOK, Trimmed
  <2>3. QED
    BY <2>1, <2>2
<1>2. QED
  BY <1>1, RealtimeAssumption

(* What may be marked is an incident.                                      *)
LEMMA PreviousType ==
  ASSUME TypeOK, buffer # <<>>
  PROVE  \E i \in DOMAIN buffer : Previous = buffer[i] /\ buffer[i] \in Incidents
<1>1. Len(buffer) \in Nat /\ Len(buffer) >= 1 /\ DOMAIN buffer = 1 .. Len(buffer)
  BY DEF TypeOK
<1>2. CASE Len(buffer) > 1
  <2>1. Len(buffer) - 1 \in DOMAIN buffer
    BY <1>1, <1>2
  <2>2. QED
    BY <1>2, <2>1 DEF Previous, TypeOK
<1>3. CASE ~(Len(buffer) > 1)
  BY <1>1, <1>3 DEF Previous, TypeOK
<1>4. QED
  BY <1>2, <1>3

(* Any first state is typed, and every step keeps it so.                   *)
LEMMA TypeInit == Init => TypeOK
BY RealtimeAssumption DEF Init, TypeOK

(* One action at a time: only the incident marked and its buffer need work.*)
LEMMA TypeStep == TypeOK /\ [Next]_vars => TypeOK'
<1> SUFFICES ASSUME TypeOK, [Next]_vars PROVE TypeOK'
  OBVIOUS
<1>1. CASE Cycle
  BY <1>1, RealtimeAssumption DEF TypeOK, Cycle, IsShortest, Allowed, ResetBuffer, map
<1>2. ASSUME NEW r \in Routes, ExamineClear(r) PROVE TypeOK'
  BY <1>2 DEF TypeOK, ExamineClear, DropSubOptimal, map
<1>3. ASSUME NEW r \in Routes, NEW s \in Reports, ExamineCongested(r, s) PROVE TypeOK'
  <2>1. live' \in Incidents
    BY <1>3 DEF ExamineCongested, Incidents
  <2>2. buffer' \in Seq(Incidents) /\ Len(buffer') <= MaxBuffer
    BY <1>3, <2>1, BufferStep DEF ExamineCongested
  <2>3. sub' \in Routes \cup {NoRoute} /\ subDensity' \in 0 .. MaxDensity
    BY <1>3 DEF TypeOK, ExamineCongested
  <2>4. QED
    BY <1>3, <2>1, <2>2, <2>3 DEF TypeOK, ExamineCongested, Rejected, map
<1>4. CASE NoMoreRoutes
  <2>1. live' \in Incidents \cup {NoIncident}
    BY <1>4, PreviousType DEF TypeOK, NoMoreRoutes
  <2>2. QED
    BY <1>4, <2>1 DEF TypeOK, NoMoreRoutes, map
<1>5. CASE UNCHANGED vars
  BY <1>5 DEF TypeOK, vars, map
<1>6. QED
  BY <1>1, <1>2, <1>3, <1>4, <1>5 DEF Next, Search

(* Every variable keeps its type and the buffer its limit.                 *)
THEOREM TypeCorrect == Spec => []TypeOK
BY TypeInit, TypeStep, PTL DEF Spec

-----------------------------------------------------------------------------
(* The search                                                              *)

(* The loop has a reason for every route it left behind, and remembers the *)
(* least congested of them.                                                *)
Behind == noFly \ ignored
Reasons ==
  /\ \A r \in Behind : \E s \in Reports : FirstHit(r, s) /\ subDensity <= density[s]
  /\ sub = NoRoute => Behind = {}
  /\ sub # NoRoute => sub \in Behind /\ \E s \in Reports : FirstHit(sub, s) /\ density[s] = subDensity

SearchInv ==
  /\ pc # "idle" => ignored \subseteq noFly /\ Allowed # {}
  /\ pc = "search" => Reasons
  /\ pc = "done" /\ sub = NoRoute =>
       /\ chosen \in Available /\ Clear(chosen)
       /\ \A r \in Available : Length[chosen] <= Length[r]
       /\ \A r \in Behind : \E s \in Reports : FirstHit(r, s)
  /\ pc = "done" /\ sub # NoRoute => Reasons /\ Available = {} /\ chosen = sub

RealtimeInv == TypeOK /\ SearchInv

(* A step that leaves the map and the reports alone leaves every verdict   *)
(* on a route alone.                                                       *)
LEMMA SameVerdicts ==
  ASSUME UNCHANGED <<meets, density>>
  PROVE  \A r, s : (FirstHit(r, s))' = FirstHit(r, s) /\ (Clear(r))' = Clear(r)
BY DEF FirstHit, Clear, Over

(* Examining one more route keeps the reasons.                             *)
LEMMA ReasonsStep ==
  ASSUME RealtimeInv, NEW r \in Routes, NEW s \in Reports, ExamineCongested(r, s)
  PROVE  Reasons'
<1>1. /\ pc = "search" /\ r \in Available /\ FirstHit(r, s) /\ Reasons
      /\ noFly' = noFly \cup {r} /\ UNCHANGED <<ignored, meets, density>>
      /\ ignored \subseteq noFly
  BY DEF RealtimeInv, SearchInv, ExamineCongested, Rejected, map, IsShortest
<1>2. \A q, t : (FirstHit(q, t))' = FirstHit(q, t)
  BY <1>1, SameVerdicts
<1>3. Behind' = Behind \cup {r} /\ r \notin Behind
  BY <1>1 DEF Behind, Available
<1>4. density[s] \in Nat /\ subDensity \in Nat /\ \A t \in Reports : density[t] \in Nat
  BY DEF RealtimeInv, TypeOK
<1>5. CASE LessCongested(density[s]) /\ sub' = r /\ subDensity' = density[s]
  <2>1. \A q \in Behind : \E t \in Reports : FirstHit(q, t) /\ density[s] <= density[t]
    <3> TAKE q \in Behind
    <3>1. PICK t \in Reports : FirstHit(q, t) /\ subDensity <= density[t]
      BY <1>1 DEF Reasons
    <3>2. sub # NoRoute
      BY <1>1 DEF Reasons
    <3>3. density[s] <= density[t]
      BY <1>4, <1>5, <3>1, <3>2 DEF LessCongested
    <3>4. QED
      BY <3>1, <3>3
  <2>2. r # NoRoute
    BY RealtimeAssumption
  <2>3. QED
    BY <1>1, <1>2, <1>3, <1>4, <1>5, <2>1, <2>2 DEF Reasons
<1>6. CASE ~LessCongested(density[s]) /\ UNCHANGED <<sub, subDensity>>
  <2>1. sub # NoRoute /\ subDensity <= density[s]
    BY <1>4, <1>6 DEF LessCongested
  <2>2. QED
    BY <1>1, <1>2, <1>3, <1>6, <2>1 DEF Reasons
<1>7. QED
  BY <1>5, <1>6 DEF ExamineCongested

(* Every step keeps the search's invariant; the route it starts with is    *)
(* what makes the loop find a sub-optimal one when no route is clear.      *)
LEMMA SearchStep == RealtimeInv /\ [Next]_vars => SearchInv'
<1> SUFFICES ASSUME RealtimeInv, [Next]_vars PROVE SearchInv'
  OBVIOUS
<1>1. CASE Cycle
  <2>1. pc' = "search" /\ noFly' = ignored /\ ignored' = ignored /\ sub' = NoRoute
    BY <1>1 DEF Cycle, map
  <2>2. Allowed' # {}
    BY <1>1, <2>1 DEF Cycle, IsShortest, Allowed
  <2>3. QED
    BY <2>1, <2>2 DEF SearchInv, Reasons, Behind
<1>2. ASSUME NEW r \in Routes, ExamineClear(r) PROVE SearchInv'
  <2>1. /\ pc' = "done" /\ sub' = NoRoute /\ chosen' = r
        /\ r \in Available /\ Clear(r) /\ \A q \in Available : Length[r] <= Length[q]
        /\ UNCHANGED <<ignored, meets, density, noFly>>
    BY <1>2 DEF ExamineClear, DropSubOptimal, IsShortest, map
  <2>2. \A q, t : (FirstHit(q, t))' = FirstHit(q, t) /\ (Clear(q))' = Clear(q)
    BY <2>1, SameVerdicts
  <2>3. ignored \subseteq noFly /\ Allowed # {} /\ \A q \in Behind : \E t \in Reports : FirstHit(q, t)
    BY <1>2 DEF ExamineClear, RealtimeInv, SearchInv, Reasons
  <2>4. Available' = Available /\ Behind' = Behind /\ Allowed' = Allowed
    BY <2>1 DEF Available, Behind, Allowed
  <2>5. QED
    BY <2>1, <2>2, <2>3, <2>4 DEF SearchInv
<1>3. ASSUME NEW r \in Routes, NEW s \in Reports, ExamineCongested(r, s) PROVE SearchInv'
  <2>1. Reasons'
    BY <1>3, ReasonsStep
  <2>2. pc' = "search" /\ Allowed' # {} /\ ignored' \subseteq noFly'
    BY <1>3 DEF RealtimeInv, SearchInv, ExamineCongested, Rejected, Allowed, map
  <2>3. QED
    BY <2>1, <2>2 DEF SearchInv
<1>4. CASE NoMoreRoutes
  <2>1. /\ pc = "search" /\ pc' = "done" /\ Available = {} /\ Reasons
        /\ ignored \subseteq noFly /\ Allowed # {}
        /\ UNCHANGED <<ignored, meets, density, noFly, sub, subDensity>>
    BY <1>4 DEF RealtimeInv, SearchInv, NoMoreRoutes, map
  <2>2. Behind # {}
    BY <2>1 DEF Available, Allowed, Behind
  <2>3. sub # NoRoute /\ chosen' = sub
    BY <1>4, <2>1, <2>2 DEF Reasons, NoMoreRoutes
  <2>4. \A q, t : (FirstHit(q, t))' = FirstHit(q, t)
    BY <2>1, SameVerdicts
  <2>5. Behind' = Behind /\ Available' = {} /\ Allowed' = Allowed
    BY <2>1 DEF Behind, Available, Allowed
  <2>6. Reasons'
    BY <2>1, <2>4, <2>5 DEF Reasons
  <2>7. QED
    BY <2>1, <2>3, <2>5, <2>6 DEF SearchInv
<1>5. CASE UNCHANGED vars
  BY <1>5 DEF vars, map, RealtimeInv, SearchInv, Reasons, Behind, Available, Allowed, FirstHit, Clear, Over
<1>6. QED
  BY <1>1, <1>2, <1>3, <1>4, <1>5 DEF Next, Search

(* What the search leaves behind is what its promises say.                 *)
LEMMA SearchPromises == RealtimeInv => PicksShortestClear /\ PicksLeastCongested
<1> SUFFICES ASSUME RealtimeInv PROVE PicksShortestClear /\ PicksLeastCongested
  OBVIOUS
<1>1. PicksShortestClear
  <2> SUFFICES ASSUME pc = "done", sub = NoRoute
               PROVE  /\ chosen \in Allowed /\ Clear(chosen)
                      /\ \A r \in Allowed : Clear(r) => Length[chosen] <= Length[r]
    BY DEF PicksShortestClear
  <2>1. /\ ignored \subseteq noFly /\ chosen \in Available /\ Clear(chosen)
        /\ \A r \in Available : Length[chosen] <= Length[r]
        /\ \A r \in Behind : \E s \in Reports : FirstHit(r, s)
    BY DEF RealtimeInv, SearchInv
  <2>2. ASSUME NEW r \in Allowed, Clear(r) PROVE r \in Available
    BY <2>1, <2>2, HitIsUnique DEF RealtimeInv, Behind, Allowed, Available
  <2>3. QED
    BY <2>1, <2>2 DEF Allowed, Available
<1>2. PicksLeastCongested
  <2> SUFFICES ASSUME pc = "done", sub # NoRoute
               PROVE  /\ chosen \in Allowed
                      /\ \A r \in Allowed : ~Clear(r)
                      /\ \A r \in Allowed, s, t \in Reports :
                           FirstHit(chosen, s) /\ FirstHit(r, t) => density[s] <= density[t]
    BY DEF PicksLeastCongested
  <2>1. Reasons /\ Available = {} /\ chosen = sub /\ TypeOK
    BY DEF RealtimeInv, SearchInv
  <2>2. Allowed \subseteq Behind
    BY <2>1 DEF Allowed, Behind, Available
  <2>3. chosen \in Allowed
    BY <2>1 DEF Reasons, Behind, Allowed, TypeOK
  <2>4. ASSUME NEW r \in Allowed, NEW s \in Reports, NEW t \in Reports, FirstHit(chosen, s), FirstHit(r, t)
        PROVE  density[s] <= density[t]
    <3>1. r \in Routes /\ chosen \in Routes /\ r \in Behind
      BY <2>2, <2>3 DEF Allowed
    <3>2. density[s] = subDensity
      BY <2>1, <2>4, <3>1, HitIsUnique DEF Reasons
    <3>3. subDensity <= density[t]
      BY <2>1, <2>4, <3>1, HitIsUnique DEF Reasons
    <3>4. QED
      BY <3>2, <3>3
  <2>5. ASSUME NEW r \in Allowed PROVE ~Clear(r)
    BY <2>1, <2>2, HitIsUnique DEF Reasons, Allowed
  <2>6. QED
    BY <2>3, <2>4, <2>5
<1>3. QED
  BY <1>1, <1>2

(* The search's invariant, from which both promises follow.                *)
LEMMA SearchInvariant == Spec => []RealtimeInv
<1>1. Init => RealtimeInv
  BY TypeInit DEF Init, RealtimeInv, SearchInv
<1>2. RealtimeInv /\ [Next]_vars => RealtimeInv'
  BY TypeStep, SearchStep DEF RealtimeInv
<1>3. QED
  BY <1>1, <1>2, PTL DEF Spec

(* A route chosen as optimal is the shortest of the clear allowed routes.  *)
THEOREM ShortestClearIsPicked == Spec => []PicksShortestClear
BY SearchInvariant, SearchPromises, PTL

(* A route chosen as sub-optimal is the least congested allowed route, and *)
(* no allowed route is clear.                                              *)
THEOREM LeastCongestedIsPicked == Spec => []PicksLeastCongested
BY SearchInvariant, SearchPromises, PTL

-----------------------------------------------------------------------------
(* The incident marked                                                     *)

MarkerInv ==
  /\ live # NoIncident => Over(live.report)
  /\ \A i \in DOMAIN buffer : Over(buffer[i].report)

(* What the buffer holds after an incident is appended.                    *)
LEMMA BufferHolds ==
  ASSUME TypeOK, NEW e \in Incidents, NEW i \in DOMAIN Append(Trimmed, e)
  PROVE  Append(Trimmed, e)[i] = e \/ \E j \in DOMAIN buffer : Append(Trimmed, e)[i] = buffer[j]
<1>1. CASE Len(buffer) >= MaxBuffer
  <2>1. buffer \in Seq(Incidents) /\ Len(buffer) \in Nat /\ buffer # <<>> /\ Trimmed = Tail(buffer)
    BY <1>1, RealtimeAssumption DEF TypeOK, Trimmed
  <2>2. Tail(buffer) \in Seq(Incidents) /\ Len(Tail(buffer)) = Len(buffer) - 1
    BY <2>1
  <2>3. CASE i = Len(buffer)
    BY <2>1, <2>2, <2>3
  <2>4. CASE i # Len(buffer)
    <3>1. i \in 1 .. Len(Tail(buffer))
      BY <2>1, <2>2, <2>4
    <3>2. Append(Trimmed, e)[i] = Tail(buffer)[i]
      BY <2>1, <2>2, <3>1
    <3>3. Tail(buffer)[i] = buffer[i + 1] /\ i + 1 \in DOMAIN buffer
      BY <2>1, <2>2, <3>1
    <3>4. QED
      BY <3>2, <3>3
  <2>5. QED
    BY <2>3, <2>4
<1>2. CASE ~(Len(buffer) >= MaxBuffer)
  BY <1>2 DEF TypeOK, Trimmed
<1>3. QED
  BY <1>1, <1>2

(* Every step keeps what is marked, or may be, current: a new cycle brings *)
(* new reports and empties the buffer.                                     *)
LEMMA MarkerStep == TypeOK /\ MarkerInv /\ [Next]_vars => MarkerInv'
<1> SUFFICES ASSUME TypeOK, MarkerInv, [Next]_vars PROVE MarkerInv'
  OBVIOUS
<1>1. CASE Cycle
  <2>1. live' = NoIncident /\ buffer' = <<>>
    BY <1>1 DEF Cycle, ResetBuffer
  <2>2. NoIncident' = NoIncident /\ DOMAIN buffer' = {}
    BY <2>1 DEF NoIncident
  <2>3. QED
    BY <2>1, <2>2 DEF MarkerInv
<1>2. ASSUME NEW r \in Routes, ExamineClear(r) PROVE MarkerInv'
  BY <1>2 DEF ExamineClear, MarkerInv, Over, NoIncident
<1>3. ASSUME NEW r \in Routes, NEW s \in Reports, ExamineCongested(r, s) PROVE MarkerInv'
  <2>1. /\ live' = [route |-> r, report |-> s] /\ live' \in Incidents
        /\ buffer' = Append(Trimmed, live') /\ density' = density /\ FirstHit(r, s)
    BY <1>3 DEF ExamineCongested, Incidents
  <2>2. Over(live'.report)
    BY <2>1, HitIsUnique
  <2>3. \A i \in DOMAIN buffer' : Over(buffer'[i].report)
    BY <2>1, <2>2, BufferHolds DEF MarkerInv
  <2>4. \A t : (Over(t))' = Over(t)
    BY <2>1 DEF Over
  <2>5. QED
    BY <2>2, <2>3, <2>1 DEF MarkerInv, Over
<1>4. CASE NoMoreRoutes
  <2>1. density' = density /\ buffer' = buffer
    BY <1>4 DEF NoMoreRoutes
  <2>2. CASE ~(sub # NoRoute /\ buffer # <<>> /\ live.route = sub)
    <3>1. live' = live
      BY <1>4, <2>2 DEF NoMoreRoutes
    <3>2. QED
      BY <2>1, <3>1 DEF MarkerInv, Over, NoIncident
  <2>3. CASE sub # NoRoute /\ buffer # <<>> /\ live.route = sub
    <3>0. live' = Previous
      BY <1>4, <2>3 DEF NoMoreRoutes
    <3>1. PICK i \in DOMAIN buffer : live' = buffer[i]
      BY <2>3, <3>0, PreviousType
    <3>2. QED
      BY <2>1, <3>1 DEF MarkerInv, Over
  <2>4. QED
    BY <2>2, <2>3
<1>5. CASE UNCHANGED vars
  BY <1>5 DEF vars, MarkerInv, Over, NoIncident
<1>6. QED
  BY <1>1, <1>2, <1>3, <1>4, <1>5 DEF Next, Search

(* The incident marked is over the threshold in this very cycle: none is   *)
(* carried over from an earlier one through the buffer.                    *)
THEOREM MarkedIncidentIsCurrent == Spec => []MarkerIsCurrent
<1>1. Init => MarkerInv
  BY DEF Init, MarkerInv
<1>2. MarkerInv => MarkerIsCurrent
  BY DEF MarkerInv, MarkerIsCurrent
<1>3. QED
  BY <1>1, <1>2, MarkerStep, TypeCorrect, PTL DEF Spec
=============================================================================

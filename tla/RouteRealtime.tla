---------------------------- MODULE RouteRealtime ----------------------------
(***************************************************************************)
(* The real-time node of the route planner, as the planner service runs it *)
(* in every cycle (agents/route_planner.py update_optimal_route_realtime,  *)
(* scripts/planner_service.py main).  It examines the allowed routes from  *)
(* the shortest on; a route is rejected at the first report over the       *)
(* threshold met on its way.  The first route with none is chosen; if      *)
(* there is none, the least congested one, as sub-optimal.  One incident   *)
(* is marked: the last one met, or, if that is on the route chosen, the    *)
(* one before it in a buffer that lives across calls.                      *)
(***************************************************************************)
EXTENDS Naturals, Sequences

CONSTANTS
  Routes,      \* the route files from the source to the destination
  Length,      \* of each route file; no two are equally long
  Ignorable,   \* the values IGNORED_ROUTES may have
  Reports,     \* live traffic reports, each of one intersection
  Ways,        \* the reports a route may meet, in the order it meets them
  MaxDensity,  \* bound: the densities reported
  Threshold,   \* TRAFFIC_DENSITY_THRESHOLD
  MaxBuffer,   \* MAX_TRAFFIC_STATUS_BUFFER
  NoRoute, NoReport

ASSUME RealtimeAssumption ==
  /\ Length \in [Routes -> Nat \ {0}] /\ \A r, q \in Routes : r # q => Length[r] # Length[q]
  /\ Ignorable \subseteq SUBSET Routes /\ Ways \subseteq Seq(Reports)
  /\ NoRoute \notin Routes /\ NoReport \notin Reports
  /\ MaxDensity \in Nat /\ Threshold \in Nat
  /\ MaxBuffer \in Nat \ {0}

VARIABLES
  ignored,     \* IGNORED_ROUTES
  meets,       \* the reports on each route's way
  density,     \* what each report says: it changes from call to call
  pc,          \* "idle", "search" (the while loop) or "done"
  noFly,       \* local_no_fly_list
  sub,         \* sub_optimal_route
  subDensity,  \* sub_optimal_density
  live,        \* live_traffic_state
  buffer,      \* self.live_traffic_status_list
  chosen       \* optimal_route

map == <<ignored, meets>>
vars == <<map, density, pc, noFly, sub, subDensity, live, buffer, chosen>>

Incidents == [route : Routes, report : Reports]
NoIncident == [route |-> NoRoute, report |-> NoReport]

(* Every variable keeps its type; the buffer stays within its limit.       *)
TypeOK ==
  /\ ignored \in Ignorable /\ meets \in [Routes -> Ways]
  /\ density \in [Reports -> 0 .. MaxDensity]
  /\ pc \in {"idle", "search", "done"}
  /\ noFly \subseteq Routes
  /\ sub \in Routes \cup {NoRoute} /\ subDensity \in 0 .. MaxDensity
  /\ live \in Incidents \cup {NoIncident}
  /\ buffer \in Seq(Incidents) /\ Len(buffer) <= MaxBuffer
  /\ chosen \in Routes \cup {NoRoute}

(* Any map.                                                                *)
Init ==
  /\ ignored \in Ignorable /\ meets \in [Routes -> Ways]
  /\ density \in [Reports -> 0 .. MaxDensity]
  /\ pc = "idle" /\ noFly = {} /\ sub = NoRoute /\ subDensity = 0
  /\ live = NoIncident /\ buffer = <<>> /\ chosen = NoRoute
-----------------------------------------------------------------------------
(* The routes _find_new_shortest_available_route has to choose from.       *)
Allowed == Routes \ ignored
Available == Routes \ noFly
IsLongest(r, set) == r \in set /\ \A q \in set : Length[r] >= Length[q]
IsShortest(r, set) == r \in set /\ \A q \in set : Length[r] <= Length[q]

Over(s) == density[s] > Threshold

(* The report at which route r is rejected.                                *)
FirstHit(r, s) ==
  \E i \in DOMAIN meets[r] :
    /\ meets[r][i] = s /\ Over(s)
    /\ \A j \in DOMAIN meets[r] : j < i => ~Over(meets[r][j])
Clear(r) == \A i \in DOMAIN meets[r] : ~Over(meets[r][i])

KeepBuffer == UNCHANGED buffer
ResetBuffer == buffer' = <<>>

(* The next cycle: new reports, and the node is called afresh.  With no    *)
(* route between the two places the cycle is skipped.                      *)
Cycle ==
  /\ pc # "search"
  /\ \E r \in Routes : IsShortest(r, Allowed) /\ chosen' = r
  /\ density' \in [Reports -> 0 .. MaxDensity]
  /\ noFly' = ignored /\ sub' = NoRoute /\ subDensity' = 0 /\ live' = NoIncident
  /\ ResetBuffer
  /\ pc' = "search"
  /\ UNCHANGED map

DropSubOptimal == sub' = NoRoute

(* The shortest available route meets no report over the threshold.        *)
ExamineClear(r) ==
  /\ pc = "search" /\ IsShortest(r, Available) /\ Clear(r)
  /\ DropSubOptimal
  /\ chosen' = IF sub' = NoRoute THEN r ELSE sub
  /\ pc' = "done"
  /\ UNCHANGED <<map, density, noFly, subDensity, live, buffer>>

FirstIsKept(d) == sub = NoRoute
LessCongested(d) == sub = NoRoute \/ subDensity > d

Trimmed == IF Len(buffer) >= MaxBuffer THEN Tail(buffer) ELSE buffer

NotRejected(r) == noFly
Rejected(r) == noFly \cup {r}

(* It is rejected at s.                                                    *)
ExamineCongested(r, s) ==
  /\ pc = "search" /\ IsShortest(r, Available) /\ FirstHit(r, s)
  /\ \/ LessCongested(density[s]) /\ sub' = r /\ subDensity' = density[s]
     \/ ~LessCongested(density[s]) /\ UNCHANGED <<sub, subDensity>>
  /\ live' = [route |-> r, report |-> s]
  /\ buffer' = Append(Trimmed, live')
  /\ noFly' = Rejected(r)
  /\ UNCHANGED <<map, density, pc, chosen>>

(* Python's buffer[len - 2]: of a single entry, that entry.                *)
Previous == IF Len(buffer) > 1 THEN buffer[Len(buffer) - 1] ELSE buffer[Len(buffer)]

NoMoreRoutes ==
  /\ pc = "search" /\ Available = {}
  /\ chosen' = IF sub # NoRoute THEN sub ELSE chosen
  /\ live' = IF sub # NoRoute /\ buffer # <<>> /\ live.route = sub THEN Previous ELSE live
  /\ pc' = "done"
  /\ UNCHANGED <<map, density, noFly, sub, subDensity, buffer>>

Search ==
  \/ \E r \in Routes : ExamineClear(r)
  \/ \E r \in Routes, s \in Reports : ExamineCongested(r, s)
  \/ NoMoreRoutes

Next == Cycle \/ Search

Spec == Init /\ [][Next]_vars
FairSpec == Spec /\ WF_vars(Search)
-----------------------------------------------------------------------------
(* What the node promises                                                  *)

(* A route chosen as optimal is free of reports over the threshold, and    *)
(* every shorter allowed one is not.                                       *)
PicksShortestClear ==
  pc = "done" /\ sub = NoRoute =>
    /\ chosen \in Allowed /\ Clear(chosen)
    /\ \A r \in Allowed : Clear(r) => Length[chosen] <= Length[r]

(* A route is chosen as sub-optimal only when no allowed one is free, and  *)
(* then none is rejected at a lower density.                               *)
PicksLeastCongested ==
  pc = "done" /\ sub # NoRoute =>
    /\ chosen \in Allowed
    /\ \A r \in Allowed : ~Clear(r)
    /\ \A r \in Allowed, s, t \in Reports :
         FirstHit(chosen, s) /\ FirstHit(r, t) => density[s] <= density[t]

(* "Each cycle reflects only the current cache": the incident marked is    *)
(* one that is being reported now.                                         *)
MarkerIsCurrent == pc = "done" /\ live # NoIncident => Over(live.report)

(* The while loop ends.                                                    *)
SearchEnds == pc = "search" ~> pc = "done"
=============================================================================

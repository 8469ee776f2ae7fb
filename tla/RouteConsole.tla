----------------------------- MODULE RouteConsole -----------------------------
(***************************************************************************)
(* The route console (main.py).  An agent thread sleeps, calls the         *)
(* RouteService (services/route_service.py), hands the map to the page and *)
(* starts over while `optimization_active`.  The service invokes the       *)
(* graph (agents/route_planner.py) on the state of the last call: START    *)
(* goes to DIRECT while no direct route is known, to OPTIMAL while static  *)
(* optimizers are left, to REALTIME from then on.                          *)
(*                                                                         *)
(* A stop waits 2 s for a thread that sleeps for 12, and goes on without   *)
(* it: after a resume two agents may share the flag, the iteration counter *)
(* and the one service.  A graph that raises leaves the state of the last  *)
(* call -- but an optimizer popped from the list it shares with that state *)
(* stays popped.                                                           *)
(***************************************************************************)
EXTENDS Naturals, Sequences, SequencesExt, FiniteSetsExt

CONSTANTS
  Agents,   \* bound: the threads that may be started, 1, 2, ...
  Routes,   \* the route files from the source to the destination
  Length,   \* of each; no two are equally long
  Ignored,  \* IGNORED_ROUTES
  Way,      \* of each route: where its track points are, in units of 0.0005 degrees
  Stack,    \* STATIC_ROUTE_OPTIMIZER_STACK: the last one is used first
  Caches,   \* what the cache may hold of each kind of condition, in order of insertion
  Errors,   \* may a call raise?
  NoRoute

ASSUME ConsoleAssumption ==
  /\ Agents \subseteq Nat \ {0} /\ IsFiniteSet(Agents)
  /\ Length \in [Routes -> Nat \ {0}] /\ \A r, q \in Routes : r # q => Length[r] # Length[q]
  /\ Ignored \subseteq Routes /\ NoRoute \notin Routes
  /\ Way \in [Routes -> SUBSET Nat]
  /\ Stack \in Seq({"planned_events", "weather_conditions", "traffic_trend"})
  /\ Errors \in BOOLEAN

VARIABLES
  (* main.py *)
  active,     \* optimization_active
  current,    \* optimization_thread, 0 before the first
  handler,    \* the handler holding thread_lock: "none", "start" or "stop"
  iteration,  \* curr_agent_iteration: "first" or "later"
  pc,         \* where each agent thread is
  call,       \* the iteration a call is for; like the next three, blank between calls
  raised,     \* its plan_route() raised
  work,       \* its graph's state
  chosen,     \* alternate_route_name, between the lookup and the append
  (* RouteService *)
  known,      \* route_state is set
  state,      \* route_state
  lists,      \* static_optimizers: the list each agent's DIRECT node made
  alternate,  \* alternate_route
  names,      \* alternate_route_names
  tracks,     \* alt_route_trackpoints, named for their routes
  idx,        \* new_alt_route_idx, from 1
  (* history *)
  overlapped  \* an agent was started while another was alive

page == <<active, current, handler, iteration, overlapped>>
agent == <<pc, call, raised, work, chosen>>
graph == <<known, state, lists>>
drawing == <<alternate, names, tracks, idx>>
vars == <<page, agent, graph, drawing>>

Maybe == Routes \cup {NoRoute}
RouteState == [direct : Maybe, optimal : Maybe, noFly : SUBSET Routes, list : Agents]
Blank(t) == [direct |-> NoRoute, optimal |-> NoRoute, noFly |-> {}, list |-> t]

Where == {"new", "check", "sleep", "direct", "graph", "optimal", "load", "append", "draw",
          "put", "leave", "ended"}
Alive(t) == pc[t] \notin {"new", "ended"}

PageOK ==
  /\ active \in BOOLEAN /\ overlapped \in BOOLEAN
  /\ current \in Agents \cup {0} /\ handler \in {"none", "start", "stop"}
  /\ iteration \in {"first", "later"}
AgentOK ==
  /\ pc \in [Agents -> Where] /\ raised \in [Agents -> BOOLEAN]
  /\ call \in [Agents -> {"first", "later"}] /\ work \in [Agents -> RouteState]
  /\ chosen \in [Agents -> Maybe] /\ \A t \in Agents : pc[t] = "append" => chosen[t] # NoRoute
GraphOK == known \in BOOLEAN /\ state \in RouteState /\ lists \in [Agents -> Prefixes(Stack)]
DrawingOK ==
  /\ alternate \in Maybe /\ idx \in Nat
  /\ names \in Seq(Routes) /\ tracks \in Seq(Routes)

(* Every variable keeps its type.                                          *)
TypeOK == PageOK /\ AgentOK /\ GraphOK /\ DrawingOK

Init ==
  /\ active = FALSE /\ current = 0 /\ handler = "none" /\ iteration = "first"
  /\ overlapped = FALSE
  /\ pc = [t \in Agents |-> "new"] /\ call = [t \in Agents |-> "first"]
  /\ raised = [t \in Agents |-> FALSE] /\ work = [t \in Agents |-> Blank(t)]
  /\ chosen = [t \in Agents |-> NoRoute]
  /\ known = FALSE /\ state \in {Blank(t) : t \in Agents} /\ lists = [t \in Agents |-> <<>>]
  /\ alternate = NoRoute /\ names = <<>> /\ tracks = <<>> /\ idx = 1
-----------------------------------------------------------------------------
(* The page: start_agent and stop_agent, one at a time under thread_lock   *)

Goto(t, to) == pc' = [pc EXCEPT ![t] = to]
Working == active /\ current # 0 /\ Alive(current)

(* Both tell a thread that is running to stop; stop_agent does no more     *)
(* than that.                                                              *)
Tell(h) ==
  /\ handler = "none" /\ h \in {"start", "stop"}
  /\ h = "start" => \E t \in Agents : pc[t] = "new"
  /\ handler' = h
  /\ active' = IF Working THEN FALSE ELSE active
  /\ UNCHANGED <<current, iteration, overlapped, agent, graph, drawing>>

(* join(timeout=2.0) returns whether the thread has ended or not.          *)
StopReturns ==
  /\ handler = "stop"
  /\ handler' = "none"
  /\ UNCHANGED <<active, current, iteration, overlapped, agent, graph, drawing>>

Launch(t) ==
  /\ handler = "start"
  /\ pc[t] = "new" /\ \A u \in Agents : u < t => pc[u] # "new"
  /\ active' = TRUE /\ current' = t
  /\ Goto(t, "check")
  /\ handler' = "none"
  /\ overlapped' = (overlapped \/ \E u \in Agents : Alive(u))
  /\ UNCHANGED <<iteration, call, raised, work, chosen, graph, drawing>>
-----------------------------------------------------------------------------
(* planner_agent_thread                                                    *)

NeverStops == TRUE
GoesOn == active

CheckActive(t) ==
  /\ pc[t] = "check"
  /\ Goto(t, IF GoesOn THEN "sleep" ELSE "leave")
  /\ UNCHANGED <<page, call, raised, work, chosen, graph, drawing>>

(* The iteration is looked at after the sleep.  get_direct_route plans     *)
(* afresh, get_optimal_route from the state of the last call.              *)
Wake(t) ==
  /\ pc[t] = "sleep"
  /\ Goto(t, IF iteration = "later" /\ known THEN "graph" ELSE "direct")
  /\ call' = [call EXCEPT ![t] = iteration]
  /\ work' = [work EXCEPT ![t] = IF iteration = "later" /\ known THEN state ELSE Blank(t)]
  /\ UNCHANGED <<page, raised, chosen, graph, drawing>>

Put(t) ==
  /\ pc[t] = "put"
  /\ iteration' = "later"
  /\ Goto(t, "check")
  /\ UNCHANGED <<active, current, handler, overlapped, call, raised, work, chosen, graph, drawing>>

Leave(t) ==
  /\ pc[t] = "leave"
  /\ active' = FALSE
  /\ Goto(t, "ended")
  /\ UNCHANGED <<current, handler, iteration, overlapped, call, raised, work, chosen, graph, drawing>>
-----------------------------------------------------------------------------
(* The graph                                                               *)

(* _find_new_shortest_available_route                                      *)
Shortest(r, set) ==
  \/ r = NoRoute /\ set = {}
  \/ r \in set /\ \A q \in set : Length[r] <= Length[q]

Optimizers(t) == lists[work[t].list]

(* The call's result becomes route_state.                                  *)
EndGraph(t, w) ==
  /\ Goto(t, "load")
  /\ known' = TRUE /\ state' = w
  /\ work' = [work EXCEPT ![t] = Blank(t)]

NothingIgnored == {}
FirstNoFly == Ignored

(* The routes DIRECT may settle on.  The default of                        *)
(* state.get("no_fly_list", IGNORED_ROUTES) is LangGraph's business: its   *)
(* reducer may have put an empty list there before.                        *)
DirectRoutes == {r \in Maybe : \E seen \in {{}, Ignored} : Shortest(r, Routes \ seen)}

Direct(t) ==
  /\ pc[t] = "direct"
  /\ \E r \in DirectRoutes :
       EndGraph(t, [direct |-> r, optimal |-> r, noFly |-> FirstNoFly, list |-> t])
  /\ lists' = [lists EXCEPT ![t] = Stack]
  /\ UNCHANGED <<page, call, raised, chosen, drawing>>

(* static_optimizers.pop(), in place.                                      *)
Pop(t) == lists' = [lists EXCEPT ![work[t].list] = Front(@)]
OptimalTurn(t) == pc[t] \in {"graph", "optimal"} /\ Optimizers(t) # <<>>

(* cache.find_condition: of the reports close enough, the one that was     *)
(* inserted first, so that a clear one may hide an adverse one.            *)
Near(a, b, proximity) == a <= b + proximity /\ b <= a + proximity
FindCondition(reports, point, proximity) ==
  LET near == {i \in DOMAIN reports : Near(reports[i].at, point, proximity)}
  IN  {reports[i].status : i \in {j \in near : j = Min(near)}}

(* The controllers: a store of the cache and how far they look in it.      *)
PlannedEvents(cache, point) == FindCondition(cache.planned_events, point, 20)
WeatherReport(cache, point) == FindCondition(cache.weather, point, 10)
TrafficTrends(cache, point) == FindCondition(cache.traffic_trends, point, 1)

(* StaticRouteOptimizerFactory                                             *)
Fetch(optimizer, cache, point) ==
  [planned_events     |-> PlannedEvents(cache, point),
   weather_conditions |-> WeatherReport(cache, point),
   traffic_trend      |-> TrafficTrends(cache, point)][optimizer]

AdverseWeather == {"FOG", "RAINY", "STORMY", "SNOWY", "FIRE", "FLOOD"}
Adverse == AdverseWeather \cup {"HIGH", "SEVERE"}

(* One static optimizer.  An adverse condition on the current route makes  *)
(* the shortest one not in no_fly the optimal one, and that may well be    *)
(* the current one again; the outcome goes into no_fly either way.  With   *)
(* no current route there is only an error line.                           *)
Optimized(w, optimizer, cache) ==
  IF w.optimal = NoRoute THEN {w}
  ELSE LET clear == \A point \in Way[w.optimal] : Fetch(optimizer, cache, point) \cap Adverse = {}
       IN  {[w EXCEPT !.optimal = r, !.noFly = @ \cup ({r} \ {NoRoute})] :
              r \in {q \in Maybe : IF clear THEN q = w.optimal ELSE Shortest(q, Routes \ w.noFly)}}

(* With optimizers left, the edge whose path_map is a set of names for a   *)
(* boolean may lead back here or end the call.                             *)
Optimal(t) ==
  /\ OptimalTurn(t)
  /\ Pop(t)
  /\ \E cache \in Caches : \E w \in Optimized(work[t], Last(Optimizers(t)), cache) :
       \/ EndGraph(t, w)
       \/ /\ lists'[work[t].list] # <<>> /\ Goto(t, "optimal")
          /\ work' = [work EXCEPT ![t] = w] /\ UNCHANGED <<known, state>>
  /\ UNCHANGED <<page, call, raised, chosen, drawing>>

(* The real-time node, by what RouteRealtime shows of its search: of the   *)
(* routes not in no_fly any may be the shortest without an incident, or    *)
(* the least congested.                                                    *)
Realtime(t) ==
  /\ pc[t] = "graph" /\ Optimizers(t) = <<>>
  /\ LET left == Routes \ work[t].noFly
     IN  \/ \E r \in left : EndGraph(t, [work[t] EXCEPT !.optimal = r])
         \/ left = {} /\ EndGraph(t, work[t])
  /\ UNCHANGED <<lists, page, call, raised, chosen, drawing>>

PoppedAtTheEnd(t) == UNCHANGED lists
PoppedAlready(t) == IF OptimalTurn(t) THEN Pop(t) ELSE UNCHANGED lists

(* A node raises and the call has no result.                               *)
GraphRaises(t) ==
  /\ Errors /\ pc[t] \in {"direct", "graph", "optimal"}
  /\ PoppedAlready(t)
  /\ Goto(t, "load") /\ raised' = [raised EXCEPT ![t] = TRUE]
  /\ work' = [work EXCEPT ![t] = Blank(t)]
  /\ UNCHANGED <<page, call, chosen, known, state, drawing>>

(* Another agent took the last optimizer before this one's pop(): the node *)
(* only logs that there is none.                                           *)
NothingToPop(t) ==
  /\ pc[t] = "optimal" /\ Optimizers(t) = <<>>
  /\ EndGraph(t, work[t])
  /\ UNCHANGED <<page, call, raised, chosen, lists, drawing>>
-----------------------------------------------------------------------------
(* The service                                                             *)

(* The route has been named by the time its file turns out unreadable.     *)
ReadFile(r) ==
  \/ alternate' = r
  \/ Errors /\ alternate' = NoRoute

NeverListed(r) == FALSE
Listed(r) == \E i \in DOMAIN names : names[i] = r

(* list.index: the first place that holds it.                              *)
Found(r) == {i \in DOMAIN names : names[i] = r /\ \A j \in DOMAIN names : j < i => names[j] # r}

(* _load_alternate_route after plan_route(); route_state may be another    *)
(* agent's by now.  The first iteration only loads the direct route.  The  *)
(* lookup and the append are two steps, under no lock; what comes with     *)
(* either matters to no property unless one agent runs alone.              *)
Load(t) ==
  /\ pc[t] = "load"
  /\ LET r == state.optimal
     IN  \/ /\ call[t] = "first" \/ raised[t] \/ r = NoRoute
            /\ alternate' = IF call[t] = "first" THEN alternate ELSE NoRoute
            /\ Goto(t, "draw") /\ UNCHANGED <<chosen, idx>>
         \/ /\ call[t] = "later" /\ ~raised[t]
            /\ idx' \in Found(r) /\ ReadFile(r)
            /\ Goto(t, "draw") /\ UNCHANGED chosen
         \/ /\ call[t] = "later" /\ ~raised[t] /\ r # NoRoute
            /\ ~Listed(r) /\ alternate' = NoRoute
            /\ Goto(t, "append") /\ chosen' = [chosen EXCEPT ![t] = r] /\ UNCHANGED idx
  /\ UNCHANGED <<page, call, raised, work, graph, names, tracks>>

AppendName(t) ==
  /\ pc[t] = "append"
  /\ names' = Append(names, chosen[t]) /\ idx' = Len(names')
  /\ ReadFile(chosen[t])
  /\ Goto(t, "draw") /\ chosen' = [chosen EXCEPT ![t] = NoRoute]
  /\ UNCHANGED <<page, call, raised, work, graph, tracks>>

KeepLists == UNCHANGED <<names, tracks>>
ResetLists == names' = <<>> /\ tracks' = <<>>

(* create_route_map.  With an alternative, lists that differ in length     *)
(* mean a track is missing, and lists another agent has emptied have no    *)
(* last one.  Whatever else raises in it comes after the lists, and ends   *)
(* the thread.  One step: every property of the tracks speaks of an agent  *)
(* that runs alone.                                                        *)
Draw(t) ==
  /\ pc[t] = "draw"
  /\ \/ /\ alternate # NoRoute /\ known
        /\ tracks' = IF Len(tracks) # Len(names) THEN Append(tracks, alternate) ELSE tracks
        /\ UNCHANGED names
        /\ \/ tracks' # <<>> /\ Goto(t, "put")
           \/ (Errors \/ tracks' = <<>>) /\ Goto(t, "leave")
     \/ /\ ~(alternate # NoRoute /\ known)
        /\ ResetLists
        /\ \/ Goto(t, "put")
           \/ Errors /\ Goto(t, "leave")
  /\ call' = [call EXCEPT ![t] = "first"] /\ raised' = [raised EXCEPT ![t] = FALSE]
  /\ UNCHANGED <<page, work, chosen, graph, alternate, idx>>
-----------------------------------------------------------------------------
Step(t) ==
  \/ CheckActive(t) \/ Wake(t) \/ Put(t) \/ Leave(t)
  \/ Direct(t) \/ Optimal(t) \/ NothingToPop(t) \/ GraphRaises(t)
  \/ Realtime(t) \/ Load(t) \/ AppendName(t) \/ Draw(t)
Handle == StopReturns \/ \E t \in Agents : Launch(t)

Next ==
  \/ \E h \in {"start", "stop"} : Tell(h)
  \/ Handle
  \/ \E t \in Agents : Step(t)

(* Every thread is scheduled and a handler returns.                        *)
Spec == Init /\ [][Next]_vars
FairSpec == Spec /\ WF_vars(Handle) /\ \A t \in Agents : WF_vars(Step(t))
-----------------------------------------------------------------------------
(* What the console promises                                               *)

(* "Push the new route name to list if not already present": names stay    *)
(* unique for as long as one agent runs at a time; with several, a route   *)
(* is named at most once by each, however often they are started.          *)
ListedOnce ==
  /\ ~overlapped => IsInjective(names)
  /\ \A r \in Routes : Cardinality({i \in DOMAIN names : names[i] = r}) <= Cardinality(Agents)

(* For as long as one agent runs at a time, the route drawn in the colour  *)
(* of the optimal one is the one proposed, and the lists of names and of   *)
(* tracks agree, whatever raised before.                                   *)
HighlightIsOptimal ==
  \A t \in Agents : pc[t] = "put" /\ ~overlapped /\ tracks # <<>> =>
    names = tracks /\ idx \in DOMAIN tracks /\ tracks[idx] = state.optimal

(* A route the configuration ignores is proposed only as the direct route, *)
(* before any condition was looked at, never as a way around one -- also   *)
(* with two agents.                                                        *)
IgnoredOnlyAsDirect == known /\ state.optimal \in Ignored => state.optimal = state.direct

(* "Re-run static route optimizers until optimizer stack is empty": an     *)
(* agent left running uses every optimizer up, though it may raise each    *)
(* time, and looks at the live traffic from then on.                       *)
OptimizersRunOut == <>[]active /\ <>known => <>[](lists[state.list] = <<>>)

(* "Stops the agent runner thread": once the flag stays down no thread is  *)
(* left, those that no join waited for included.                           *)
AgentsStop == <>[]~active => <>[](\A t \in Agents : ~Alive(t))
=============================================================================

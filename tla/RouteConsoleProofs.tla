-------------------------- MODULE RouteConsoleProofs --------------------------
(***************************************************************************)
(* Proofs about the route console: for any number of agents, any routes,   *)
(* any optimizer stack, any cache and any schedule of starts, stops and    *)
(* failures.                                                               *)
(***************************************************************************)
EXTENDS RouteConsole, SequenceTheorems, FiniteSetTheorems, TLAPS

-----------------------------------------------------------------------------
(* The operators the graph is built from                                   *)

(* pop() leaves a prefix of the stack a prefix of the stack.               *)
LEMMA PoppedPrefix ==
  ASSUME NEW list \in Prefixes(Stack), list # <<>>
  PROVE  Front(list) \in Prefixes(Stack)
<1>1. PICK n \in 0 .. Len(Stack) : list = SubSeq(Stack, 1, n)
  BY DEF Prefixes
<1>2. Stack \in Seq({"planned_events", "weather_conditions", "traffic_trend"})
  BY ConsoleAssumption
<1>3. n # 0
  BY <1>1, <1>2, SubSeqEmpty
<1>4. Len(list) = n
  BY <1>1, <1>2, <1>3, SubSeqProperties
<1>5. Front(list) = SubSeq(Stack, 1, n - 1)
  BY <1>1, <1>2, <1>3, <1>4, SubSeqOfSubSeq DEF Front
<1>6. QED
  BY <1>3, <1>5 DEF Prefixes

(* The full stack and the empty list are prefixes of it.                   *)
LEMMA StackPrefixes == Stack \in Prefixes(Stack) /\ <<>> \in Prefixes(Stack)
<1>1. Stack \in Seq({"planned_events", "weather_conditions", "traffic_trend"})
  BY ConsoleAssumption
<1>2. SubSeq(Stack, 1, Len(Stack)) = Stack
  BY <1>1, SubSeqFull
<1>3. SubSeq(Stack, 1, 0) = <<>>
  BY <1>1, SubSeqEmpty
<1>4. Len(Stack) \in 0 .. Len(Stack) /\ 0 \in 0 .. Len(Stack)
  BY <1>1
<1>5. \E n \in 0 .. Len(Stack) : Stack = SubSeq(Stack, 1, n)
  BY <1>2, <1>4, Zenon
<1>6. \E n \in 0 .. Len(Stack) : <<>> = SubSeq(Stack, 1, n)
  BY <1>3, <1>4, Zenon
<1>7. QED
  BY <1>5, <1>6, Zenon DEF Prefixes

(* The route a graph's state may speak of without speaking of an ignored   *)
(* one: none is left to choose, and one in use is the direct one.          *)
Avoids(w) == Ignored \subseteq w.noFly /\ (w.optimal \in Ignored => w.optimal = w.direct)

(* What _find_new_shortest_available_route returns.                        *)
LEMMA ShortestIsAvailable ==
  ASSUME NEW set \in SUBSET Routes, NEW r, Shortest(r, set)
  PROVE  r \in Maybe /\ (r \notin set => r = NoRoute)
BY DEF Shortest, Maybe

(* A static optimizer turns a state into a state, with the list it had; it *)
(* never turns to an ignored route.                                        *)
LEMMA OptimizedState ==
  ASSUME NEW w \in RouteState, NEW optimizer, NEW cache, NEW q \in Optimized(w, optimizer, cache)
  PROVE  q \in RouteState /\ (Avoids(w) => Avoids(q))
<1>1. CASE w.optimal = NoRoute
  BY <1>1 DEF Optimized
<1>2. CASE w.optimal # NoRoute
  <2> DEFINE clear == \A point \in Way[w.optimal] : Fetch(optimizer, cache, point) \cap Adverse = {}
  <2>1. PICK r \in Maybe :
          /\ IF clear THEN r = w.optimal ELSE Shortest(r, Routes \ w.noFly)
          /\ q = [w EXCEPT !.optimal = r, !.noFly = @ \cup ({r} \ {NoRoute})]
    BY <1>2, Zenon DEF Optimized
  <2>2. r = w.optimal \/ r = NoRoute \/ r \in Routes \ w.noFly
    BY <2>1 DEF Shortest
  <2>3. q \in RouteState /\ q.optimal = r /\ q.direct = w.direct /\ w.noFly \subseteq q.noFly
    BY <2>1 DEF RouteState, Maybe
  <2>4. ASSUME Avoids(w) PROVE Avoids(q)
    BY <2>2, <2>3, <2>4, ConsoleAssumption DEF Avoids
  <2>5. QED
    BY <2>3, <2>4
<1>3. QED
  BY <1>1, <1>2
-----------------------------------------------------------------------------
(* Type correctness                                                        *)

USE DEF page, agent, graph, drawing

(* Initially everything is typed: no list has been made.                   *)
LEMMA TypeInit == Init => TypeOK
<1> SUFFICES ASSUME Init PROVE TypeOK
  OBVIOUS
<1> USE DEF Init
<1>1. \A t \in Agents : Blank(t) \in RouteState
  BY DEF Blank, RouteState, Maybe
<1>2. PageOK
  BY DEF PageOK
<1>3. AgentOK
  BY <1>1 DEF AgentOK, Where, Maybe
<1>4. GraphOK
  BY <1>1, StackPrefixes DEF GraphOK
<1>5. DrawingOK
  BY DEF DrawingOK, Maybe
<1>6. QED
  BY <1>2, <1>3, <1>4, <1>5 DEF TypeOK

(* EndGraph with a typed outcome keeps the agents and the state typed.     *)
LEMMA EndGraphType ==
  ASSUME TypeOK, NEW t \in Agents, NEW w \in RouteState, EndGraph(t, w)
  PROVE  /\ pc' = [pc EXCEPT ![t] = "load"]
         /\ pc' \in [Agents -> Where] /\ work' \in [Agents -> RouteState]
         /\ known' \in BOOLEAN /\ state' \in RouteState
<1>1. Blank(t) \in RouteState
  BY DEF Blank, RouteState, Maybe
<1>2. QED
  BY <1>1 DEF EndGraph, Goto, TypeOK, AgentOK, Where

(* Only the list of the agent's own state is popped.                       *)
LEMMA PopType ==
  ASSUME TypeOK, NEW t \in Agents, Optimizers(t) # <<>>, Pop(t)
  PROVE  lists' \in [Agents -> Prefixes(Stack)]
<1>1. work[t].list \in Agents
  BY DEF TypeOK, AgentOK, RouteState
<1>2. lists[work[t].list] \in Prefixes(Stack)
  BY <1>1 DEF TypeOK, GraphOK
<1>3. Front(lists[work[t].list]) \in Prefixes(Stack)
  BY <1>2, PoppedPrefix DEF Optimizers
<1>4. QED
  BY <1>1, <1>3 DEF Pop, TypeOK, GraphOK

(* A step of the page's keeps the types.                                   *)
LEMMA PageTypeStep ==
  ASSUME TypeOK, \/ \E h \in {"start", "stop"} : Tell(h)
                 \/ StopReturns
                 \/ \E t \in Agents : Launch(t)
  PROVE  TypeOK'
<1>1. ASSUME NEW h \in {"start", "stop"}, Tell(h) PROVE TypeOK'
  BY <1>1 DEF Tell, TypeOK, PageOK, AgentOK, GraphOK, DrawingOK
<1>2. CASE StopReturns
  BY <1>2 DEF StopReturns, TypeOK, PageOK, AgentOK, GraphOK, DrawingOK
<1>3. ASSUME NEW t \in Agents, Launch(t) PROVE TypeOK'
  <2>1. PageOK'
    BY <1>3 DEF Launch, TypeOK, PageOK
  <2>2. AgentOK'
    BY <1>3 DEF Launch, Goto, Where, TypeOK, AgentOK
  <2>3. GraphOK' /\ DrawingOK'
    BY <1>3 DEF Launch, TypeOK, GraphOK, DrawingOK
  <2>4. QED
    BY <2>1, <2>2, <2>3 DEF TypeOK
<1>4. QED
  BY <1>1, <1>2, <1>3

(* A step of an agent's own loop keeps the types.                          *)
LEMMA LoopTypeStep ==
  ASSUME TypeOK, NEW t \in Agents, CheckActive(t) \/ Wake(t) \/ Put(t) \/ Leave(t)
  PROVE  TypeOK'
<1>1. CASE CheckActive(t)
  BY <1>1 DEF CheckActive, Goto, Where, TypeOK, PageOK, AgentOK, GraphOK, DrawingOK
<1>2. CASE Wake(t)
  <2>1. Blank(t) \in RouteState
    BY DEF Blank, RouteState, Maybe
  <2>2. AgentOK'
    BY <1>2, <2>1 DEF Wake, Goto, Where, TypeOK, PageOK, AgentOK, GraphOK
  <2>3. PageOK' /\ GraphOK' /\ DrawingOK'
    BY <1>2 DEF Wake, TypeOK, PageOK, GraphOK, DrawingOK
  <2>4. QED
    BY <2>2, <2>3 DEF TypeOK
<1>3. CASE Put(t)
  BY <1>3 DEF Put, Goto, Where, TypeOK, PageOK, AgentOK, GraphOK, DrawingOK
<1>4. CASE Leave(t)
  BY <1>4 DEF Leave, Goto, Where, TypeOK, PageOK, AgentOK, GraphOK, DrawingOK
<1>5. QED
  BY <1>1, <1>2, <1>3, <1>4

(* What each step of the graph does to an agent's state: it ends the call  *)
(* with an outcome w, hands w on to the next optimizer, or raises.         *)
GraphEnds(t, w) == EndGraph(t, w) /\ UNCHANGED raised
GraphGoesOn(t, w) ==
  Goto(t, "optimal") /\ work' = [work EXCEPT ![t] = w] /\ UNCHANGED <<known, state, raised>>
GraphFails(t) ==
  /\ Goto(t, "load") /\ raised' = [raised EXCEPT ![t] = TRUE]
  /\ work' = [work EXCEPT ![t] = Blank(t)] /\ UNCHANGED <<known, state>>

GraphStep(t) ==
  Direct(t) \/ Optimal(t) \/ NothingToPop(t) \/ GraphRaises(t) \/ Realtime(t)

(* The outcome w is a state, and avoids the ignored routes if what the     *)
(* agent started from does.                                                *)
LEMMA GraphOutcome ==
  ASSUME TypeOK, NEW t \in Agents, GraphStep(t)
  PROVE  /\ pc[t] \in {"direct", "graph", "optimal"}
         /\ UNCHANGED <<page, call, chosen, drawing>>
         /\ \/ GraphFails(t)
            \/ \E w \in RouteState :
                 /\ (pc[t] \in {"graph", "optimal"} => Avoids(work[t])) => Avoids(w)
                 /\ GraphEnds(t, w) \/ GraphGoesOn(t, w)
<1>0. work[t] \in RouteState
  BY DEF TypeOK, AgentOK
<1>1. CASE Direct(t)
  <2>1. PICK r \in Maybe :
          EndGraph(t, [direct |-> r, optimal |-> r, noFly |-> FirstNoFly, list |-> t])
    BY <1>1 DEF Direct, DirectRoutes
  <2> DEFINE w == [direct |-> r, optimal |-> r, noFly |-> FirstNoFly, list |-> t]
  <2>2. w \in RouteState /\ Avoids(w)
    BY ConsoleAssumption DEF RouteState, FirstNoFly, Avoids
  <2>3. GraphEnds(t, w)
    BY <1>1, <2>1 DEF Direct, GraphEnds
  <2>4. QED
    BY <1>1, <2>2, <2>3 DEF Direct
<1>2. CASE Optimal(t)
  <2>0. PICK cache \in Caches : \E w \in Optimized(work[t], Last(Optimizers(t)), cache) :
          \/ EndGraph(t, w)
          \/ /\ Goto(t, "optimal")
             /\ work' = [work EXCEPT ![t] = w] /\ UNCHANGED <<known, state>>
    BY <1>2 DEF Optimal
  <2>1. PICK w \in Optimized(work[t], Last(Optimizers(t)), cache) :
          \/ EndGraph(t, w)
          \/ /\ Goto(t, "optimal")
             /\ work' = [work EXCEPT ![t] = w] /\ UNCHANGED <<known, state>>
    BY <2>0
  <2>2. pc[t] \in {"graph", "optimal"} /\ UNCHANGED <<page, call, raised, chosen, drawing>>
    BY <1>2 DEF Optimal, OptimalTurn
  <2>3. w \in RouteState /\ (Avoids(work[t]) => Avoids(w))
    BY <1>0, OptimizedState
  <2>4. GraphEnds(t, w) \/ GraphGoesOn(t, w)
    BY <2>1, <2>2 DEF GraphEnds, GraphGoesOn
  <2>5. QED
    BY <2>2, <2>3, <2>4
<1>3. CASE NothingToPop(t)
  BY <1>0, <1>3 DEF NothingToPop, GraphEnds
<1>4. CASE GraphRaises(t)
  BY <1>4 DEF GraphRaises, GraphFails
<1>5. CASE Realtime(t)
  <2>1. pc[t] = "graph" /\ UNCHANGED <<page, call, raised, chosen, drawing>>
    BY <1>5 DEF Realtime
  <2>2. CASE EndGraph(t, work[t])
    BY <1>0, <2>1, <2>2 DEF GraphEnds
  <2>3. ASSUME NEW r \in Routes \ work[t].noFly, EndGraph(t, [work[t] EXCEPT !.optimal = r])
        PROVE  \E w \in RouteState : (Avoids(work[t]) => Avoids(w)) /\ GraphEnds(t, w)
    <3> DEFINE w == [work[t] EXCEPT !.optimal = r]
    <3>1. w \in RouteState /\ w.optimal = r /\ w.noFly = work[t].noFly
      BY <1>0 DEF RouteState, Maybe
    <3>2. Avoids(work[t]) => Avoids(w)
      BY <3>1 DEF Avoids
    <3>3. GraphEnds(t, w)
      BY <2>1, <2>3 DEF GraphEnds
    <3>4. QED
      BY <3>1, <3>2, <3>3
  <2>4. QED
    BY <1>5, <2>1, <2>2, <2>3 DEF Realtime
<1>6. QED
  BY <1>1, <1>2, <1>3, <1>4, <1>5 DEF GraphStep

(* A step of the graph keeps the types.                                    *)
LEMMA GraphTypeStep == ASSUME TypeOK, NEW t \in Agents, GraphStep(t) PROVE TypeOK'
<1>0. Blank(t) \in RouteState
  BY DEF Blank, RouteState, Maybe
<1>1. PageOK' /\ DrawingOK' /\ UNCHANGED <<call, chosen>>
  BY GraphOutcome DEF TypeOK, PageOK, DrawingOK
<1>2. lists' \in [Agents -> Prefixes(Stack)]
  <2>1. CASE Direct(t)
    BY <2>1, StackPrefixes DEF Direct, TypeOK, GraphOK
  <2>2. CASE Optimal(t)
    BY <2>2, PopType DEF Optimal, OptimalTurn
  <2>3. CASE GraphRaises(t)
    BY <2>3, PopType DEF GraphRaises, PoppedAlready, OptimalTurn, TypeOK, GraphOK
  <2>4. CASE NothingToPop(t) \/ Realtime(t)
    BY <2>4 DEF NothingToPop, Realtime, TypeOK, GraphOK
  <2>5. QED
    BY <2>1, <2>2, <2>3, <2>4 DEF GraphStep
<1>3. CASE GraphFails(t)
  <2>1. AgentOK'
    BY <1>0, <1>1, <1>3 DEF GraphFails, Goto, Where, TypeOK, AgentOK
  <2>2. GraphOK'
    BY <1>2, <1>3 DEF GraphFails, TypeOK, GraphOK
  <2>3. QED
    BY <1>1, <2>1, <2>2 DEF TypeOK
<1>4. ASSUME NEW w \in RouteState, GraphEnds(t, w) PROVE TypeOK'
  <2>1. AgentOK' /\ GraphOK'
    BY <1>1, <1>2, <1>4, EndGraphType DEF GraphEnds, TypeOK, AgentOK, GraphOK
  <2>2. QED
    BY <1>1, <2>1 DEF TypeOK
<1>5. ASSUME NEW w \in RouteState, GraphGoesOn(t, w) PROVE TypeOK'
  <2>1. AgentOK'
    BY <1>1, <1>5 DEF GraphGoesOn, Goto, Where, TypeOK, AgentOK
  <2>2. GraphOK'
    BY <1>2, <1>5 DEF GraphGoesOn, TypeOK, GraphOK
  <2>3. QED
    BY <1>1, <2>1, <2>2 DEF TypeOK
<1>6. QED
  BY <1>3, <1>4, <1>5, GraphOutcome

(* A name that is looked up is found where it is.                          *)
LEMMA FoundPlace ==
  ASSUME names \in Seq(Routes), NEW r, NEW i \in Found(r)
  PROVE  i \in DOMAIN names /\ i \in Nat /\ names[i] = r /\ r \in Routes
<1>1. i \in DOMAIN names /\ names[i] = r
  BY DEF Found
<1>2. DOMAIN names = 1 .. Len(names)
  OBVIOUS
<1>3. QED
  BY <1>1, <1>2

(* A step of the service's keeps the types.                                *)
LEMMA ServiceTypeStep ==
  ASSUME TypeOK, NEW t \in Agents, Load(t) \/ AppendName(t) \/ Draw(t)
  PROVE  TypeOK'
<1>1. CASE Load(t)
  <2>1. PageOK' /\ GraphOK' /\ state.optimal \in Maybe /\ DrawingOK
    BY <1>1 DEF Load, TypeOK, PageOK, GraphOK, RouteState
  <2>2. AgentOK'
    BY <1>1, <2>1 DEF Load, Goto, Where, TypeOK, AgentOK
  <2>3. alternate' \in Maybe
    BY <1>1, <2>1 DEF Load, ReadFile, DrawingOK, Maybe
  <2>4. idx' \in Nat
    <3>1. CASE UNCHANGED idx
      BY <2>1, <3>1 DEF DrawingOK
    <3>2. CASE idx' \in Found(state.optimal)
      BY <2>1, <3>2, FoundPlace DEF DrawingOK
    <3>3. QED
      BY <1>1, <3>1, <3>2 DEF Load
  <2>5. UNCHANGED <<names, tracks>>
    BY <1>1 DEF Load
  <2>6. QED
    BY <2>1, <2>2, <2>3, <2>4, <2>5 DEF TypeOK, DrawingOK
<1>2. CASE AppendName(t)
  <2>1. PageOK' /\ GraphOK' /\ DrawingOK /\ UNCHANGED tracks
    BY <1>2 DEF AppendName, TypeOK, PageOK, GraphOK
  <2>2. AgentOK'
    BY <1>2 DEF AppendName, Goto, Where, Maybe, TypeOK, AgentOK
  <2>3. chosen[t] \in Routes
    BY <1>2 DEF AppendName, TypeOK, AgentOK, Maybe
  <2>4. names' \in Seq(Routes) /\ idx' \in Nat
    BY <1>2, <2>1, <2>3 DEF AppendName, DrawingOK
  <2>5. alternate' \in Maybe
    BY <1>2, <2>3 DEF AppendName, ReadFile, Maybe
  <2>6. QED
    BY <2>1, <2>2, <2>4, <2>5 DEF TypeOK, DrawingOK
<1>3. CASE Draw(t)
  <2>1. PageOK' /\ GraphOK' /\ AgentOK'
    BY <1>3 DEF Draw, Goto, Where, TypeOK, PageOK, GraphOK, AgentOK
  <2>2. alternate' = alternate /\ idx' = idx /\ DrawingOK
    BY <1>3 DEF Draw, TypeOK
  <2>3. CASE ResetLists
    BY <2>1, <2>2, <2>3 DEF TypeOK, DrawingOK, ResetLists
  <2>4. CASE /\ alternate # NoRoute /\ UNCHANGED names
             /\ tracks' = tracks \/ tracks' = Append(tracks, alternate)
    <3>1. alternate \in Routes
      BY <2>2, <2>4 DEF DrawingOK, Maybe
    <3>2. tracks' \in Seq(Routes)
      BY <2>2, <2>4, <3>1 DEF DrawingOK
    <3>3. QED
      BY <2>1, <2>2, <2>4, <3>2 DEF TypeOK, DrawingOK
  <2>5. QED
    BY <1>3, <2>3, <2>4 DEF Draw
<1>4. QED
  BY <1>1, <1>2, <1>3

(* Every step keeps the types.                                             *)
LEMMA TypeStep == TypeOK /\ [Next]_vars => TypeOK'
<1> SUFFICES ASSUME TypeOK, [Next]_vars PROVE TypeOK'
  OBVIOUS
<1>1. CASE Next
  BY <1>1, PageTypeStep, LoopTypeStep, GraphTypeStep, ServiceTypeStep DEF Next, Handle, Step, GraphStep
<1>2. CASE UNCHANGED vars
  BY <1>2 DEF vars, TypeOK, PageOK, AgentOK, GraphOK, DrawingOK
<1>3. QED
  BY <1>1, <1>2

(* The console is always well typed: however many agents name routes,      *)
(* RouteService's lists stay within the routes, and every list of          *)
(* optimizers left is a prefix of the stack.                               *)
THEOREM TypeCorrect == Spec => []TypeOK
BY TypeInit, TypeStep, PTL DEF Spec
-----------------------------------------------------------------------------
(* An ignored route is proposed only as the direct one                     *)

(* A call that is past DIRECT starts from a state that avoids them, and    *)
(* hands on one that does; a call that raises leaves the last state.       *)
AvoidInv ==
  /\ known => Avoids(state)
  /\ \A t \in Agents : pc[t] \in {"graph", "optimal"} => Avoids(work[t])

(* Every step keeps it, also with two agents in the service.               *)
LEMMA AvoidStep == TypeOK /\ AvoidInv /\ [Next]_vars => AvoidInv'
<1> SUFFICES ASSUME TypeOK, AvoidInv, [Next]_vars PROVE AvoidInv'
  OBVIOUS
<1> USE DEF AvoidInv
<1>0. pc \in [Agents -> Where] /\ work \in [Agents -> RouteState]
  BY DEF TypeOK, AgentOK
<1>1. ASSUME UNCHANGED <<known, state, work>>,
             \A t \in Agents : pc'[t] \in {"graph", "optimal"} => pc'[t] = pc[t]
      PROVE  AvoidInv'
  BY <1>1 DEF Avoids
<1>2. ASSUME NEW h \in {"start", "stop"}, Tell(h) PROVE AvoidInv'
  BY <1>1, <1>2 DEF Tell
<1>3. CASE StopReturns \/ UNCHANGED vars
  BY <1>1, <1>3 DEF StopReturns, vars
<1>4. ASSUME NEW t \in Agents, Launch(t) \/ CheckActive(t) \/ Put(t) \/ Leave(t)
                              \/ Load(t) \/ AppendName(t) \/ Draw(t)
      PROVE  AvoidInv'
  <2>1. \E to \in Where \ {"graph", "optimal"} : pc' = [pc EXCEPT ![t] = to]
    BY <1>4 DEF Launch, CheckActive, Put, Leave, Load, AppendName, Draw, Goto, Where
  <2>2. UNCHANGED <<known, state, work>>
    BY <1>4 DEF Launch, CheckActive, Put, Leave, Load, AppendName, Draw
  <2>3. QED
    BY <1>0, <1>1, <2>1, <2>2
<1>5. ASSUME NEW t \in Agents, Wake(t) PROVE AvoidInv'
  <2>1. UNCHANGED <<known, state>>
    BY <1>5 DEF Wake
  <2>2. \A u \in Agents \ {t} : pc'[u] = pc[u] /\ work'[u] = work[u]
    BY <1>0, <1>5 DEF Wake, Goto
  <2>3. pc'[t] \in {"graph", "optimal"} => known /\ work'[t] = state
    BY <1>0, <1>5 DEF Wake, Goto
  <2>4. QED
    BY <2>1, <2>2, <2>3 DEF Avoids
<1>6. ASSUME NEW t \in Agents, GraphStep(t) PROVE AvoidInv'
  <2>1. CASE GraphFails(t)
    <3>1. UNCHANGED <<known, state>> /\ pc'[t] = "load"
          /\ \A u \in Agents \ {t} : pc'[u] = pc[u] /\ work'[u] = work[u]
      BY <1>0, <2>1 DEF GraphFails, Goto
    <3>2. QED
      BY <3>1 DEF Avoids
  <2>2. ASSUME NEW w \in RouteState, Avoids(w), GraphEnds(t, w) PROVE AvoidInv'
    <3>1. state' = w /\ pc'[t] = "load"
          /\ \A u \in Agents \ {t} : pc'[u] = pc[u] /\ work'[u] = work[u]
      BY <1>0, <2>2 DEF GraphEnds, EndGraph, Goto
    <3>2. QED
      BY <2>2, <3>1 DEF Avoids
  <2>3. ASSUME NEW w \in RouteState, Avoids(w), GraphGoesOn(t, w) PROVE AvoidInv'
    <3>1. UNCHANGED <<known, state>> /\ work'[t] = w
          /\ \A u \in Agents \ {t} : pc'[u] = pc[u] /\ work'[u] = work[u]
      BY <1>0, <2>3 DEF GraphGoesOn, Goto
    <3>2. QED
      BY <2>3, <3>1 DEF Avoids
  <2>4. QED
    BY <1>6, <2>1, <2>2, <2>3, GraphOutcome
<1>7. QED
  BY <1>2, <1>3, <1>4, <1>5, <1>6 DEF Next, Handle, Step, GraphStep

(* A route the configuration ignores is never a way around a condition,    *)
(* for any number of agents sharing the service.                           *)
THEOREM IgnoredRoutesAreAvoided == Spec => []IgnoredOnlyAsDirect
<1>1. Init => AvoidInv
  BY DEF Init, AvoidInv
<1>2. AvoidInv => IgnoredOnlyAsDirect
  BY DEF AvoidInv, Avoids, IgnoredOnlyAsDirect
<1>3. QED
  BY <1>1, <1>2, TypeCorrect, AvoidStep, PTL DEF Spec
-----------------------------------------------------------------------------
(* What is drawn as optimal is what is proposed                            *)

Calling == {"direct", "graph", "optimal", "load", "append", "draw"}

(* A drawing that has an alternative to show has the proposed route, under *)
(* its name, and its track is the only one that may still be missing.      *)
DrawsProposed ==
  alternate # NoRoute =>
    /\ known /\ alternate = state.optimal
    /\ idx \in DOMAIN names /\ names[idx] = alternate
    /\ names = tracks \/ names = Append(tracks, alternate)
ShowsProposed == tracks # <<>> => idx \in DOMAIN tracks /\ tracks[idx] = state.optimal
(* What is about to be appended is the route proposed, and not there yet.  *)
NamesProposed(t) == known /\ chosen[t] = state.optimal /\ ~Listed(chosen[t]) /\ alternate = NoRoute

(* Of one agent at a time: the call in hand is for the iteration, nothing  *)
(* is named before the first is over, no route is named twice, and only    *)
(* before Draw may the names be ahead of the tracks.                       *)
OneAgent ==
  /\ \A t, u \in Agents : Alive(t) /\ Alive(u) => t = u
  /\ \A t \in Agents : pc[t] \in Calling => call[t] = iteration
  /\ iteration = "first" => alternate = NoRoute /\ names = <<>> /\ tracks = <<>>
  /\ (\A t \in Agents : pc[t] # "draw") => names = tracks
  /\ \A t \in Agents : pc[t] = "load" /\ ~raised[t] => known
  /\ IsInjective(names)
  /\ \A t \in Agents : pc[t] = "append" => call[t] = "later" /\ NamesProposed(t)
  /\ \A t \in Agents : pc[t] = "draw" => DrawsProposed
  /\ \A t \in Agents : pc[t] = "put" => ShowsProposed

HighlightInv == ~overlapped => OneAgent

(* The step of the only agent is looked at on its own.                     *)
LEMMA OnlyAgent ==
  ASSUME TypeOK, OneAgent, NEW t \in Agents, NEW to \in Where, Alive(t), Goto(t, to),
         to \in Calling => call'[t] = iteration',
         iteration' = "first" => alternate' = NoRoute /\ names' = <<>> /\ tracks' = <<>>,
         to # "draw" => names' = tracks',
         to = "load" /\ ~raised'[t] => known',
         IsInjective(names'), to = "append" => call'[t] = "later" /\ NamesProposed(t)',
         to = "draw" => DrawsProposed',
         to = "put" => ShowsProposed'
  PROVE  OneAgent'
<1>1. pc'[t] = to
  BY DEF Goto, TypeOK, AgentOK
<1>2. \A u \in Agents \ {t} : pc'[u] \in {"new", "ended"}
  BY DEF Goto, TypeOK, AgentOK, OneAgent, Alive
<1>3. \A u, v \in Agents : Alive(u)' /\ Alive(v)' => u = v
  BY <1>2 DEF Alive
<1>4. (\A u \in Agents : pc'[u] # "draw") => names' = tracks'
  BY <1>1
<1>5. \A u \in Agents :
        /\ pc'[u] \in Calling => call'[u] = iteration'
        /\ pc'[u] = "load" /\ ~raised'[u] => known'
        /\ pc'[u] = "append" => call'[u] = "later" /\ NamesProposed(u)'
        /\ pc'[u] = "draw" => DrawsProposed'
        /\ pc'[u] = "put" => ShowsProposed'
  BY <1>1, <1>2 DEF Calling
<1>6. QED
  BY <1>3, <1>4, <1>5 DEF OneAgent

(* A lookup finds the route proposed under its name, or the agent is about *)
(* to name it.                                                             *)
LEMMA LoadStep == ASSUME TypeOK, OneAgent, NEW t \in Agents, Load(t) PROVE OneAgent'
<1>1. /\ pc[t] = "load" /\ Alive(t)
      /\ UNCHANGED <<page, call, raised, work, known, state, lists, names, tracks>>
  BY DEF Load, Alive
<1>2. names = tracks /\ call[t] = iteration /\ IsInjective(names) /\ (~raised[t] => known)
  BY <1>1 DEF OneAgent, Alive, Calling
<1>3. CASE call[t] = "first" /\ Goto(t, "draw") /\ alternate' = alternate
  <2>1. alternate' = NoRoute /\ names' = <<>> /\ tracks' = <<>>
    BY <1>1, <1>2, <1>3 DEF OneAgent
  <2>2. QED
    BY <1>1, <1>2, <1>3, <2>1, OnlyAgent DEF Where, DrawsProposed
<1>4. CASE call[t] = "later" /\ Goto(t, "draw") /\ alternate' = NoRoute
  <2>1. DrawsProposed' /\ iteration' = "later"
    BY <1>1, <1>2, <1>4 DEF DrawsProposed
  <2>2. QED
    BY <1>1, <1>2, <1>4, <2>1, OnlyAgent DEF Where
<1>5. CASE /\ call[t] = "later" /\ ~raised[t] /\ Goto(t, "draw")
           /\ idx' \in Found(state.optimal) /\ alternate' = state.optimal
  <2>1. idx' \in DOMAIN names /\ names[idx'] = state.optimal
    BY <1>5, FoundPlace DEF TypeOK, DrawingOK
  <2>2. DrawsProposed' /\ iteration' = "later"
    BY <1>1, <1>2, <1>5, <2>1 DEF DrawsProposed
  <2>3. QED
    BY <1>1, <1>2, <1>5, <2>2, OnlyAgent DEF Where
<1>6. CASE /\ call[t] = "later" /\ ~raised[t] /\ ~Listed(state.optimal) /\ alternate' = NoRoute
           /\ Goto(t, "append") /\ chosen' = [chosen EXCEPT ![t] = state.optimal]
  <2>1. chosen'[t] = state.optimal
    BY <1>6 DEF TypeOK, AgentOK
  <2>2. NamesProposed(t)' /\ iteration' = "later"
    BY <1>1, <1>2, <1>6, <2>1 DEF NamesProposed, Listed
  <2>3. QED
    BY <1>1, <1>2, <1>6, <2>2, OnlyAgent DEF Where
<1>7. call[t] \in {"first", "later"}
  BY DEF TypeOK, AgentOK
<1>8. QED
  BY <1>1, <1>3, <1>4, <1>5, <1>6, <1>7 DEF Load, ReadFile

(* A route that is not there yet is named once.                            *)
LEMMA AppendedOnce ==
  ASSUME NEW list \in Seq(Routes), IsInjective(list), NEW r \in Routes,
         ~\E i \in DOMAIN list : list[i] = r
  PROVE  IsInjective(Append(list, r))
<1> DEFINE new == Append(list, r)
<1>1. DOMAIN new = 1 .. Len(list) + 1 /\ DOMAIN list = 1 .. Len(list)
  OBVIOUS
<1>2. \A i \in 1 .. Len(list) : new[i] = list[i] /\ new[i] # r
  BY <1>1
<1>3. new[Len(list) + 1] = r
  OBVIOUS
<1>4. QED
  BY <1>1, <1>2, <1>3 DEF IsInjective

(* Naming puts the route proposed at the end of the names.                 *)
LEMMA AppendStep == ASSUME TypeOK, OneAgent, NEW t \in Agents, AppendName(t) PROVE OneAgent'
<1>1. /\ pc[t] = "append" /\ Goto(t, "draw") /\ Alive(t)
      /\ UNCHANGED <<page, call, raised, work, known, state, lists, tracks>>
  BY DEF AppendName, Alive
<1>2. /\ names = tracks /\ IsInjective(names) /\ call[t] = iteration /\ iteration = "later"
      /\ NamesProposed(t)
  BY <1>1 DEF OneAgent, Alive, Calling
<1>3. names \in Seq(Routes) /\ chosen[t] \in Routes
  BY <1>1 DEF TypeOK, DrawingOK, AgentOK, Maybe
<1>4. /\ names' = Append(names, chosen[t]) /\ idx' = Len(names')
      /\ alternate' = chosen[t] \/ alternate' = NoRoute
  BY DEF AppendName, ReadFile
<1>5. IsInjective(names')
  BY <1>2, <1>3, <1>4, AppendedOnce DEF NamesProposed, Listed
<1>6. idx' \in DOMAIN names' /\ names'[idx'] = chosen[t]
  BY <1>3, <1>4
<1>7. DrawsProposed'
  BY <1>1, <1>2, <1>4, <1>6 DEF DrawsProposed, NamesProposed
<1>8. QED
  BY <1>1, <1>2, <1>5, <1>7, OnlyAgent DEF Where

(* Drawing adds the missing track, or forgets names and tracks together.   *)
LEMMA DrawStep == ASSUME TypeOK, OneAgent, NEW t \in Agents, Draw(t) PROVE OneAgent'
<1>1. pc[t] = "draw" /\ Alive(t)
      /\ UNCHANGED <<active, current, handler, iteration, overlapped, work, known, state, lists,
                     alternate, idx>>
  BY DEF Draw, Alive
<1>2. PICK to \in {"put", "leave"} : Goto(t, to)
  BY DEF Draw
<1>3. DrawsProposed
  BY <1>1 DEF OneAgent
<1>4. CASE names' = <<>> /\ tracks' = <<>>
  <2>1. ShowsProposed'
    BY <1>4 DEF ShowsProposed
  <2>2. iteration' = "first" => alternate' = NoRoute
    BY <1>1 DEF OneAgent
  <2>3. QED
    BY <1>1, <1>2, <1>4, <2>1, <2>2, OnlyAgent DEF Where, Calling, IsInjective
<1>5. CASE /\ alternate # NoRoute
           /\ tracks' = IF Len(tracks) # Len(names) THEN Append(tracks, alternate) ELSE tracks
           /\ UNCHANGED names
  <2>1. tracks \in Seq(Routes) /\ alternate \in Routes
    BY <1>5 DEF TypeOK, DrawingOK, Maybe
  <2>2. names' = tracks'
    <3>1. CASE names = tracks
      BY <1>5, <3>1
    <3>2. CASE names = Append(tracks, alternate)
      BY <1>5, <2>1, <3>2
    <3>3. QED
      BY <1>3, <1>5, <3>1, <3>2 DEF DrawsProposed
  <2>3. ShowsProposed'
    BY <1>1, <1>3, <1>5, <2>2 DEF DrawsProposed, ShowsProposed
  <2>4. iteration' # "first"
    BY <1>1, <1>5 DEF OneAgent
  <2>5. IsInjective(names')
    BY <1>5 DEF OneAgent
  <2>6. QED
    BY <1>1, <1>2, <2>2, <2>3, <2>4, <2>5, OnlyAgent DEF Where, Calling
<1>6. QED
  BY <1>4, <1>5 DEF Draw, ResetLists

(* A step of an agent's own loop or of the graph touches neither list.     *)
LEMMA OtherAgentSteps ==
  ASSUME TypeOK, OneAgent, NEW t \in Agents,
         CheckActive(t) \/ Wake(t) \/ Put(t) \/ Leave(t) \/ GraphStep(t)
  PROVE  OneAgent'
<1>1. CASE CheckActive(t)
  <2>1. \E to \in {"sleep", "leave"} : Goto(t, to)
    BY <1>1 DEF CheckActive
  <2>2. Alive(t) /\ names = tracks /\ IsInjective(names) /\ UNCHANGED <<page, call, chosen, drawing>>
    BY <1>1 DEF CheckActive, Alive, OneAgent
  <2>3. iteration = "first" => alternate = NoRoute /\ names = <<>> /\ tracks = <<>>
    BY DEF OneAgent
  <2>4. QED
    BY <2>1, <2>2, <2>3, OnlyAgent DEF Where, Calling
<1>2. CASE Wake(t)
  <2>1. \E to \in {"graph", "direct"} : Goto(t, to)
    BY <1>2 DEF Wake
  <2>2. Alive(t) /\ names = tracks /\ IsInjective(names) /\ UNCHANGED <<page, drawing>>
    BY <1>2 DEF Wake, Alive, OneAgent
  <2>3. iteration = "first" => alternate = NoRoute /\ names = <<>> /\ tracks = <<>>
    BY DEF OneAgent
  <2>4. call'[t] = iteration
    BY <1>2 DEF Wake, TypeOK, AgentOK
  <2>5. QED
    BY <2>1, <2>2, <2>3, <2>4, OnlyAgent DEF Where
<1>3. CASE Put(t)
  <2>1. Goto(t, "check") /\ iteration' = "later"
    BY <1>3 DEF Put
  <2>2. Alive(t) /\ names = tracks /\ IsInjective(names) /\ UNCHANGED drawing
    BY <1>3 DEF Put, Alive, OneAgent
  <2>3. QED
    BY <2>1, <2>2, OnlyAgent DEF Where, Calling
<1>4. CASE Leave(t)
  <2>1. Goto(t, "ended") /\ iteration' = iteration
    BY <1>4 DEF Leave
  <2>2. Alive(t) /\ names = tracks /\ IsInjective(names) /\ UNCHANGED drawing
    BY <1>4 DEF Leave, Alive, OneAgent
  <2>3. iteration = "first" => alternate = NoRoute /\ names = <<>> /\ tracks = <<>>
    BY DEF OneAgent
  <2>4. QED
    BY <2>1, <2>2, <2>3, OnlyAgent DEF Where, Calling
<1>5. CASE GraphStep(t)
  <2>1. pc[t] \in {"direct", "graph", "optimal"} /\ UNCHANGED <<page, call, chosen, drawing>>
    BY <1>5, GraphOutcome
  <2>2. Alive(t) /\ names = tracks /\ IsInjective(names) /\ call[t] = iteration
    BY <2>1 DEF Alive, OneAgent, Calling
  <2>3. iteration = "first" => alternate = NoRoute /\ names = <<>> /\ tracks = <<>>
    BY DEF OneAgent
  <2>4. \/ Goto(t, "optimal")
        \/ Goto(t, "load") /\ (~raised'[t] => known')
    BY <1>5, GraphOutcome DEF GraphFails, GraphEnds, GraphGoesOn, EndGraph, TypeOK, AgentOK
  <2>5. QED
    BY <2>1, <2>2, <2>3, <2>4, OnlyAgent DEF Where, Calling
<1>6. QED
  BY <1>1, <1>2, <1>3, <1>4, <1>5

(* Every step keeps it: an agent that is started alone stays alone until   *)
(* another start notes the overlap.                                        *)
LEMMA HighlightStep == TypeOK /\ HighlightInv /\ [Next]_vars => HighlightInv'
<1> SUFFICES ASSUME TypeOK, HighlightInv, [Next]_vars, ~overlapped' PROVE OneAgent'
  BY DEF HighlightInv
<1> USE DEF HighlightInv
<1>1. ASSUME NEW h \in {"start", "stop"}, Tell(h) PROVE OneAgent'
  BY <1>1 DEF Tell, OneAgent, Alive, DrawsProposed, ShowsProposed, NamesProposed, Listed
<1>2. CASE StopReturns \/ UNCHANGED vars
  BY <1>2 DEF StopReturns, vars, OneAgent, Alive, DrawsProposed, ShowsProposed, NamesProposed, Listed
<1>3. ASSUME NEW t \in Agents, Launch(t) PROVE OneAgent'
  <2>1. ~overlapped /\ \A u \in Agents : ~Alive(u)
    BY <1>3 DEF Launch, TypeOK, PageOK
  <2>2. Goto(t, "check") /\ UNCHANGED <<iteration, call, raised, work, chosen, graph, drawing>>
    BY <1>3 DEF Launch
  <2>3. pc'[t] = "check" /\ \A u \in Agents \ {t} : pc'[u] \in {"new", "ended"}
    BY <2>1, <2>2 DEF Goto, Alive, TypeOK, AgentOK
  <2>4. names = tracks
    BY <2>1 DEF OneAgent, Alive
  <2>5. QED
    BY <2>1, <2>2, <2>3, <2>4 DEF OneAgent, Alive, Calling
<1>4. ASSUME NEW t \in Agents, Step(t) PROVE OneAgent'
  <2>1. overlapped' = overlapped
    BY <1>4, GraphOutcome DEF Step, GraphStep, CheckActive, Wake, Put, Leave, Load, AppendName, Draw
  <2>2. QED
    BY <1>4, <2>1, LoadStep, AppendStep, DrawStep, OtherAgentSteps DEF Step, GraphStep
<1>5. QED
  BY <1>1, <1>2, <1>3, <1>4 DEF Next, Handle

(* For as long as one agent runs at a time, the route drawn in the colour  *)
(* of the optimal one is the route proposed, and names and tracks agree.   *)
THEOREM OptimalIsHighlighted == Spec => []HighlightIsOptimal
<1>1. Init => HighlightInv
  <2> SUFFICES ASSUME Init PROVE OneAgent
    BY DEF HighlightInv
  <2>1. QED
    BY DEF Init, OneAgent, Alive, Calling, IsInjective
<1>2. TypeOK /\ HighlightInv => HighlightIsOptimal
  <2> SUFFICES ASSUME TypeOK, HighlightInv, ~overlapped, NEW t \in Agents, pc[t] = "put", tracks # <<>>
               PROVE  names = tracks /\ idx \in DOMAIN tracks /\ tracks[idx] = state.optimal
    BY DEF HighlightIsOptimal
  <2>1. \A u \in Agents : pc[u] # "draw"
    BY DEF HighlightInv, OneAgent, Alive
  <2>2. QED
    BY <2>1 DEF HighlightInv, OneAgent, ShowsProposed
<1>3. QED
  BY <1>1, <1>2, TypeCorrect, HighlightStep, PTL DEF Spec
-----------------------------------------------------------------------------
(* How often a route is named                                              *)

Places(r) == {i \in DOMAIN names : names[i] = r}
Appending(r) == {t \in Agents : pc[t] = "append" /\ chosen[t] = r}

(* An agent only comes to append a route that nobody has named yet: from   *)
(* then on the places it has and the agents about to append it are never   *)
(* more than the agents there are.                                         *)
NamesInv ==
  \A r \in Routes : Cardinality(Places(r)) + Cardinality(Appending(r)) <= Cardinality(Agents)

LEMMA FinitePlaces ==
  ASSUME names \in Seq(Routes), NEW r
  PROVE  /\ IsFiniteSet(Places(r)) /\ IsFiniteSet(Appending(r))
         /\ Cardinality(Places(r)) \in Nat /\ Cardinality(Appending(r)) \in Nat
         /\ Cardinality(Appending(r)) <= Cardinality(Agents) /\ Cardinality(Agents) \in Nat
<1>1. IsFiniteSet(1 .. Len(names))
  BY FS_Interval
<1>2. IsFiniteSet(Places(r))
  BY <1>1, FS_Subset DEF Places
<1>3. IsFiniteSet(Agents)
  BY ConsoleAssumption
<1>4. Appending(r) \subseteq Agents
  BY DEF Appending
<1>5. IsFiniteSet(Appending(r)) /\ Cardinality(Appending(r)) <= Cardinality(Agents)
  BY <1>3, <1>4, FS_Subset
<1>6. QED
  BY <1>2, <1>3, <1>5, FS_CardinalityType

(* A step that names nothing and brings no agent to append keeps it.       *)
LEMMA NamesKept ==
  ASSUME TypeOK, NamesInv, names' = names \/ names' = <<>>,
         \A t \in Agents : pc'[t] = "append" => pc[t] = "append" /\ chosen'[t] = chosen[t]
  PROVE  NamesInv'
<1> SUFFICES ASSUME NEW r \in Routes
             PROVE  Cardinality(Places(r)') + Cardinality(Appending(r)') <= Cardinality(Agents)
  BY DEF NamesInv
<1>1. Places(r)' \subseteq Places(r) /\ Appending(r)' \subseteq Appending(r)
  BY DEF Places, Appending
<1>2. names \in Seq(Routes)
  BY DEF TypeOK, DrawingOK
<1>3. Cardinality(Places(r)') <= Cardinality(Places(r)) /\ Cardinality(Places(r)') \in Nat
  BY <1>1, <1>2, FinitePlaces, FS_Subset, FS_CardinalityType
<1>4. Cardinality(Appending(r)') <= Cardinality(Appending(r)) /\ Cardinality(Appending(r)') \in Nat
  BY <1>1, <1>2, FinitePlaces, FS_Subset, FS_CardinalityType
<1>5. QED
  BY <1>2, <1>3, <1>4, FinitePlaces DEF NamesInv

(* A lookup that finds nothing: no place yet, and no more agents to append *)
(* the route than there are.                                               *)
LEMMA NamesLookedUp ==
  ASSUME TypeOK, NamesInv, NEW t \in Agents, NEW q \in Routes, ~Listed(q),
         Goto(t, "append"), chosen' = [chosen EXCEPT ![t] = q], UNCHANGED names
  PROVE  NamesInv'
<1> SUFFICES ASSUME NEW r \in Routes
             PROVE  Cardinality(Places(r)') + Cardinality(Appending(r)') <= Cardinality(Agents)
  BY DEF NamesInv
<1>1. names \in Seq(Routes) /\ names' \in Seq(Routes)
  BY DEF TypeOK, DrawingOK
<1>2. CASE r = q
  <2>1. Places(r)' = {}
    BY <1>2 DEF Places, Listed
  <2>2. Appending(r)' \subseteq Agents
    BY DEF Appending
  <2>3. Cardinality(Appending(r)') <= Cardinality(Agents) /\ Cardinality(Appending(r)') \in Nat
    BY <2>2, ConsoleAssumption, FS_Subset, FS_CardinalityType
  <2>4. QED
    BY <2>1, <2>3, <1>1, FinitePlaces, FS_EmptySet
<1>3. CASE r # q
  <2>1. Places(r)' = Places(r)
    BY DEF Places
  <2>2. Appending(r)' \subseteq Appending(r)
    BY <1>3 DEF Appending, Goto, TypeOK, AgentOK
  <2>3. Cardinality(Appending(r)') <= Cardinality(Appending(r)) /\ Cardinality(Appending(r)') \in Nat
    BY <1>1, <2>2, FinitePlaces, FS_Subset, FS_CardinalityType
  <2>4. QED
    BY <1>1, <2>1, <2>3, FinitePlaces DEF NamesInv
<1>4. QED
  BY <1>2, <1>3

(* An append turns one of the agents about to append into a place.         *)
LEMMA NamesAppended ==
  ASSUME TypeOK, NamesInv, NEW t \in Agents, AppendName(t)
  PROVE  NamesInv'
<1> SUFFICES ASSUME NEW r \in Routes
             PROVE  Cardinality(Places(r)') + Cardinality(Appending(r)') <= Cardinality(Agents)
  BY DEF NamesInv
<1>1. names \in Seq(Routes) /\ chosen[t] \in Routes /\ pc[t] = "append"
  BY DEF AppendName, TypeOK, DrawingOK, AgentOK, Maybe
<1>2. names' = Append(names, chosen[t])
  BY DEF AppendName
<1>3. Appending(r)' = Appending(r) \ {t}
  BY DEF AppendName, Appending, Goto, TypeOK, AgentOK
<1>4. CASE r = chosen[t]
  <2>1. Places(r)' = Places(r) \cup {Len(names) + 1}
    BY <1>1, <1>2, <1>4 DEF Places
  <2>2. Cardinality(Places(r)') <= Cardinality(Places(r)) + 1 /\ Cardinality(Places(r)') \in Nat
    <3>1. IsFiniteSet(Places(r)) /\ Cardinality(Places(r)) \in Nat
      BY <1>1, FinitePlaces
    <3>2. /\ IsFiniteSet(Places(r) \cup {Len(names) + 1})
          /\ Cardinality(Places(r) \cup {Len(names) + 1})
               = IF Len(names) + 1 \in Places(r) THEN Cardinality(Places(r))
                 ELSE Cardinality(Places(r)) + 1
      BY <3>1, FS_AddElement
    <3>3. QED
      BY <2>1, <3>1, <3>2
  <2>3. t \in Appending(r)
    BY <1>1, <1>4 DEF Appending
  <2>4. Cardinality(Appending(r)') = Cardinality(Appending(r)) - 1
    BY <1>1, <1>3, <2>3, FinitePlaces, FS_RemoveElement
  <2>5. QED
    BY <1>1, <2>2, <2>4, FinitePlaces DEF NamesInv
<1>5. CASE r # chosen[t]
  <2>1. Places(r)' = Places(r)
    BY <1>1, <1>2, <1>5 DEF Places
  <2>2. Cardinality(Appending(r)') <= Cardinality(Appending(r)) /\ Cardinality(Appending(r)') \in Nat
    BY <1>1, <1>3, FinitePlaces, FS_Subset, FS_CardinalityType
  <2>3. QED
    BY <1>1, <2>1, <2>2, FinitePlaces DEF NamesInv
<1>6. QED
  BY <1>4, <1>5

(* Every step keeps it.                                                    *)
LEMMA NamesStep == TypeOK /\ NamesInv /\ [Next]_vars => NamesInv'
<1> SUFFICES ASSUME TypeOK, NamesInv, [Next]_vars PROVE NamesInv'
  OBVIOUS
<1>0. pc \in [Agents -> Where]
  BY DEF TypeOK, AgentOK
<1>1. ASSUME NEW h \in {"start", "stop"}, Tell(h) PROVE NamesInv'
  BY <1>1, NamesKept DEF Tell
<1>2. CASE StopReturns \/ UNCHANGED vars
  BY <1>2, NamesKept DEF StopReturns, vars
<1>3. ASSUME NEW t \in Agents,
             Launch(t) \/ CheckActive(t) \/ Wake(t) \/ Put(t) \/ Leave(t) \/ Draw(t)
      PROVE  NamesInv'
  <2>1. \E to \in Where \ {"append"} : pc' = [pc EXCEPT ![t] = to]
    BY <1>3 DEF Launch, CheckActive, Wake, Put, Leave, Draw, Goto, Where
  <2>2. UNCHANGED chosen /\ (names' = names \/ names' = <<>>)
    BY <1>3 DEF Launch, CheckActive, Wake, Put, Leave, Draw, ResetLists
  <2>3. QED
    BY <1>0, <2>1, <2>2, NamesKept
<1>4. ASSUME NEW t \in Agents, GraphStep(t) PROVE NamesInv'
  <2>1. \E to \in Where \ {"append"} : pc' = [pc EXCEPT ![t] = to]
    BY <1>4, GraphOutcome DEF GraphFails, GraphEnds, GraphGoesOn, EndGraph, Goto, Where
  <2>2. QED
    BY <1>0, <1>4, <2>1, GraphOutcome, NamesKept
<1>5. ASSUME NEW t \in Agents, Load(t) PROVE NamesInv'
  <2>1. CASE Goto(t, "draw") /\ UNCHANGED <<chosen, names>>
    BY <1>0, <2>1, NamesKept DEF Goto
  <2>2. CASE /\ Goto(t, "append") /\ state.optimal # NoRoute /\ ~Listed(state.optimal)
             /\ chosen' = [chosen EXCEPT ![t] = state.optimal] /\ UNCHANGED names
    <3>1. state.optimal \in Routes
      BY <2>2 DEF TypeOK, GraphOK, RouteState, Maybe
    <3>2. QED
      BY <2>2, <3>1, NamesLookedUp
  <2>3. QED
    BY <1>5, <2>1, <2>2 DEF Load
<1>6. ASSUME NEW t \in Agents, AppendName(t) PROVE NamesInv'
  BY <1>6, NamesAppended
<1>7. QED
  BY <1>1, <1>2, <1>3, <1>4, <1>5, <1>6 DEF Next, Handle, Step, GraphStep

(* Names are unique while one agent runs at a time, and no race between    *)
(* any number of them names a route more often than once for each.         *)
THEOREM NamesStayFew == Spec => []ListedOnce
<1>1. Init => NamesInv
  <2> SUFFICES ASSUME Init, NEW r \in Routes
               PROVE  Cardinality(Places(r)) + Cardinality(Appending(r)) <= Cardinality(Agents)
    BY DEF NamesInv
  <2>1. Places(r) = {} /\ Appending(r) = {} /\ names \in Seq(Routes)
    BY DEF Init, Places, Appending
  <2>2. QED
    BY <2>1, FS_EmptySet, FinitePlaces
<1>2. Init => HighlightInv
  BY DEF Init, HighlightInv, OneAgent, Alive, Calling, IsInjective
<1>3. TypeOK /\ HighlightInv /\ NamesInv => ListedOnce
  <2> SUFFICES ASSUME TypeOK, HighlightInv, NamesInv PROVE ListedOnce
    OBVIOUS
  <2>1. ~overlapped => IsInjective(names)
    BY DEF HighlightInv, OneAgent
  <2>2. ASSUME NEW r \in Routes PROVE Cardinality(Places(r)) <= Cardinality(Agents)
    BY FinitePlaces DEF NamesInv, TypeOK, DrawingOK
  <2>3. QED
    BY <2>1, <2>2 DEF ListedOnce, Places
<1>4. QED
  BY <1>1, <1>2, <1>3, TypeCorrect, HighlightStep, NamesStep, PTL DEF Spec
=============================================================================

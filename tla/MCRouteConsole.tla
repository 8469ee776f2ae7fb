---------------------------- MODULE MCRouteConsole ----------------------------
(* Three routes, the second of them ignored, and the code's own stack.  Of *)
(* the caches, one is adverse to every route, and in one a clear report    *)
(* hides a flood from the first route.                                     *)
EXTENDS RouteConsole, TLC

CONSTANTS r1, r2, r3

MCAgents == {1, 2}
MCRoutes == {r1, r2, r3}
MCLength == r1 :> 1 @@ r2 :> 2 @@ r3 :> 3
MCIgnored == {r2}
MCWay == r1 :> {0, 100} @@ r2 :> {0, 200} @@ r3 :> {0, 300}
MCStack == <<"weather_conditions", "traffic_trend">>

Report(at, status) == [at |-> at, status |-> status]
Empty == [weather |-> <<>>, traffic_trends |-> <<>>, planned_events |-> <<>>]
MCCaches ==
  {Empty,
   [Empty EXCEPT !.weather = <<Report(95, "SUNNY"), Report(105, "FLOOD")>>,
                 !.traffic_trends = <<Report(102, "SEVERE"), Report(200, "MODERATE")>>],
   [weather |-> <<Report(10, "FOG")>>, traffic_trends |-> <<Report(1, "HIGH")>>,
    planned_events |-> <<Report(20, "SEVERE")>>]}
=============================================================================

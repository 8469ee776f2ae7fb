--------------------------- MODULE MCRouteRealtime ---------------------------
(* Four routes, one or three of them ignored, two intersections.           *)
EXTENDS RouteRealtime, TLC

CONSTANTS r1, r2, r3, r4, s1, s2

MCRoutes == {r1, r2, r3, r4}
MCLength == r1 :> 1 @@ r2 :> 2 @@ r3 :> 3 @@ r4 :> 4
MCIgnorable == {{r2}, {r1, r2, r4}}
MCReports == {s1, s2}
MCWays == {<<>>, <<s1>>, <<s2>>, <<s1, s2>>, <<s2, s1>>}
=============================================================================

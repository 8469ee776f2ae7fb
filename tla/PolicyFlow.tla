----------------------------- MODULE PolicyFlow -----------------------------
(***************************************************************************)
(* From the admin's decision to the routes people see: the policy engine   *)
(* and the planner, joined by the wire of policy records.  What the engine *)
(* sends to "planner" is what the planner's on_record handles; anybody     *)
(* else's policy records reach on_record too.                              *)
(***************************************************************************)
EXTENDS PolicyEngine, Planner

(* A name the engine may grant, a stray --grant one too, is among those    *)
(* that the planner may hear of.                                           *)
ASSUME FlowAssumption == Grantable \subseteq Sources

flowVars == <<vars, plannerVars>>

FlowInit == Init /\ PlannerInit

(* A policy record reaches the planner: on_record is its receiver.         *)
PlannerHears ==
  /\ Receive("planner")
  /\ OnPolicy("policy", Head(wire["planner"]))

(* Somebody else's policy record.                                          *)
PlannerHearsStranger ==
  /\ \E g \in SUBSET Sources : OnPolicy("stranger", g)
  /\ UNCHANGED vars

(* A planner that restarts has been given no set.                          *)
PlannerRestarts ==
  /\ Restart
  /\ holds' = [holds EXCEPT !["planner"] = NoSet]
  /\ UNCHANGED <<store, process, mail, wire, history>>

EngineAlone ==
  /\ \/ EngineNext
     \/ \E g \in Pushes : AdminPush(g)
     \/ Receive("mirror")
  /\ UNCHANGED plannerVars

PlannerAlone == OwnNext /\ UNCHANGED vars

FlowNext ==
  EngineAlone \/ PlannerAlone \/ PlannerHears \/ PlannerHearsStranger \/ PlannerRestarts

FlowSpec == FlowInit /\ [][FlowNext]_flowVars
FairFlowSpec == FlowSpec /\ Fairness /\ OwnFairness
-----------------------------------------------------------------------------
(* What the two promise together                                           *)

(* The planner enforces the set it was last given and nobody else's, and   *)
(* nobody before it was given one: default deny, also after a restart.     *)
EnforcesTheSetGiven == allow = holds["planner"].set /\ (allow # {} => holds["planner"].known)

(* A cycle that starts outside on_record plans from publishers granted by  *)
(* the engine's last record to reach the planner.                          *)
PlansFromTheSetGiven ==
  [][stage = "sleep" /\ stage' = "commuter" /\ purging = {} =>
       plan' \subseteq holds["planner"].set]_flowVars

(* For as long as the engine serves the planner ends up enforcing its set, *)
(* whatever sends fail and however often the planner restarts.             *)
PlannerEnforcesTheRules == <>[](Serving => allow = granted)

(* A publisher the engine holds revoked ends up behind no route shown.     *)
RevocationTakesEffect ==
  \A s \in Publishers :
    <>[](Serving /\ s \notin granted) => <>[](\A v \in Views : s \notin shows[v])
=============================================================================

---------------------------- MODULE MCPolicyFlow ----------------------------
(* One publisher, authorised at first, that the admin revokes while the    *)
(* planner plans.  Every send of the engine may be given up at its         *)
(* deadline: the worker's record is then lost, or arrives late, behind     *)
(* records sent after it.                                                  *)
EXTENDS PolicyFlow

CONSTANTS p1

MCPublishers == {p1}
MCNone == {}
MCPushes == {{}}
MCLiveOnly == {"live_traffic"}
MCPlannerOnly == {"planner"}
=============================================================================

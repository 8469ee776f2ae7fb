--------------------------- MODULE MCPolicyEngine ---------------------------
(* Constants for checking PolicyEngine with TLC.                           *)
EXTENDS PolicyEngine

CONSTANTS p1, p2, x1

MCPublishers == {p1, p2}
MCOnePublisher == {p1}
MCSeed == {p1, x1}
MCNone == {}
MCUnknown == {x1}
MCPushes == {{}, Publishers \cup Unknown}
MCAllPushes == SUBSET (Publishers \cup Unknown)
MCForeignMail == {[from |-> "stranger", ver |-> 1, grants |-> Publishers]}
MCBoth == Receivers
MCPlanner == {"planner"}
=============================================================================

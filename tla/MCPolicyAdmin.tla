---------------------------- MODULE MCPolicyAdmin -----------------------------
(* Two publishers; the times keep the order of the code's: the attempts    *)
(* run out before the 30 s do, unless a push is slow to return.            *)
EXTENDS PolicyAdmin

CONSTANTS p1, p2

MCPublishers == {p1, p2}
=============================================================================

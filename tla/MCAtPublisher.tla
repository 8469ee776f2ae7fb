--------------------------- MODULE MCAtPublisher ---------------------------
(* Two threads of one service (the policy engine's) on one publisher.      *)
EXTENDS AtPublisher

CONSTANTS c1, c2

MCCallers == {c1, c2}
=============================================================================

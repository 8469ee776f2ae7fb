--------------------------- MODULE MCAtSubscriber ---------------------------
(* A subscriber, a few notifications and a few broken connections.         *)
EXTENDS AtSubscriber
=============================================================================

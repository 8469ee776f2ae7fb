----------------------------- MODULE MCPlanner -----------------------------
(* One publisher with records of both kinds, under any policy records.     *)
EXTENDS Planner

CONSTANT s1

MCOneSource == {s1}
MCKinds == AllKinds
MCAllFaults == PushFaults
=============================================================================

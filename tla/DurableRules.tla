---------------------------- MODULE DurableRules ----------------------------
(***************************************************************************)
(* What the policy engine's rule store promises, with no threads, records  *)
(* or publishing: a set of subjects in force which, once settled, changes  *)
(* only by an administrator's change -- never by a restart.                *)
(***************************************************************************)
EXTENDS Naturals

CONSTANT Subjects

VARIABLES
  inForce,   \* the rule set decided, or the one a restart would decide
  settled,   \* the set in force can no longer be lost
  changes    \* administrator changes so far

drVars == <<inForce, settled, changes>>

Init == inForce \in SUBSET Subjects /\ settled = FALSE /\ changes = 0

Change ==
  /\ inForce' \in SUBSET Subjects
  /\ settled' = FALSE
  /\ changes' = changes + 1

Settle == settled' = TRUE /\ UNCHANGED <<inForce, changes>>

(* Before it is settled a crash may leave any mixture of old and new.      *)
Lose ==
  /\ ~settled
  /\ inForce' \in SUBSET Subjects
  /\ UNCHANGED <<settled, changes>>

Next == Change \/ Settle \/ Lose

Spec == Init /\ [][Next]_drVars
=============================================================================

--------------------------- MODULE GovernanceProofs ---------------------------
(***************************************************************************)
(* Proofs about the policy engine, the planner and the two joined by the   *)
(* wire of policy records: for any publishers, any --grant, any failures   *)
(* and any number of pushes, crashes and restarts.                         *)
(***************************************************************************)
EXTENDS PolicyFlow, FiniteSetTheorems, TLAPS

(* 1. The policy engine                                                    *)

USE DEF Threads, Receivers, Admin, Nobody

-----------------------------------------------------------------------------
(* Type correctness                                                        *)

TypeInv == TypeOK /\ IsFiniteSet(mail) /\ ThreadOrder

(* A delivered record keeps the wires typed.                               *)
LEMMA DeliverType ==
  ASSUME wire \in [Receivers -> Seq(SUBSET Grantable)],
         NEW r \in Receivers, NEW set \in SUBSET Grantable, Deliver(r, set)
  PROVE  wire' \in [Receivers -> Seq(SUBSET Grantable)]
<1>1. CASE r \notin Followed /\ UNCHANGED wire
  BY <1>1
<1>2. CASE r \in Followed /\ Len(wire[r]) < MaxQueue /\ wire' = [wire EXCEPT ![r] = Append(@, set)]
  BY <1>2
<1>3. QED
  BY <1>1, <1>2 DEF Deliver

(* Every variable keeps its type and the threads their order: the order    *)
(* gives an abandoned worker's record its type, finiteness gives a push    *)
(* its version.                                                            *)
LEMMA TypeInit == Init => TypeInv
<1> SUFFICES ASSUME Init PROVE TypeInv
  OBVIOUS
<1> USE ConstantsAssumption DEF Init, Grantable
<1>1. FlagsOK
  BY DEF FlagsOK
<1>2. RulesOK /\ CountersOK
  BY DEF RulesOK, CountersOK
<1>3. ThreadsOK
  BY DEF ThreadsOK, Where
<1>4. wire \in [Receivers -> Seq(SUBSET Grantable)]
  OBVIOUS
<1>5. holds \in [Receivers -> [known : BOOLEAN, set : SUBSET Grantable]]
  BY DEF NoSet
<1>6. QED
  BY <1>1, <1>2, <1>3, <1>4, <1>5 DEF TypeInv, TypeOK, NetworkOK, ThreadOrder

(* Every step of the engine keeps the types.                               *)
LEMMA TypeStep == TypeInv /\ [Next]_vars => TypeInv'
<1> SUFFICES ASSUME TypeInv, [Next]_vars PROVE TypeInv'
  OBVIOUS
<1> USE DEF TypeInv, TypeOK, FlagsOK, RulesOK, CountersOK, ThreadsOK, NetworkOK, Where, ThreadOrder
<1>1. CASE Boot
  BY <1>1, ConstantsAssumption DEF Boot, Up, InitialGrants, Goto, Grantable, store, network, history
<1>2. CASE StartListening
  <2>1. pc' \in [Threads -> Where] /\ \A t \in Threads : pc'[t] = "idle"
    BY <1>2 DEF StartListening
  <2>2. \A t \in Threads : lock # t
    BY <1>2, "listen" \notin Receivers, "off" \notin Receivers DEF StartListening
  <2>3. QED
    BY <1>2, <2>1, <2>2 DEF StartListening, store, network, history
<1>3. CASE Crash
  <2>1. FlagsOK' /\ RulesOK'
    BY <1>3 DEF Crash, store
  <2>2. CountersOK'
    BY <1>3, ConstantsAssumption DEF Crash
  <2>3. ThreadsOK' /\ ThreadOrder'
    BY <1>3 DEF Crash
  <2>4. NetworkOK' /\ IsFiniteSet(mail')
    BY <1>3 DEF Crash, network
  <2>5. QED
    BY <2>1, <2>2, <2>3, <2>4
<1>4. CASE Heartbeat
  BY <1>4 DEF Heartbeat, Goto, store, network, history
<1>5. CASE ApplyChange
  BY <1>5 DEF ApplyChange, Goto, Grantable, store, network, history
<1>6. ASSUME NEW t \in Threads, NEW s \in Publishers, PersistRule(t, s) PROVE TypeInv'
  BY <1>6 DEF PersistRule, Written, network, history
<1>7. ASSUME NEW t \in Threads, PersistMarker(t) PROVE TypeInv'
  BY <1>7 DEF PersistMarker, MarkerPutFails, Goto, network
<1>8. ASSUME NEW t \in Threads, Serialise(t) PROVE TypeInv'
  BY <1>8 DEF Serialise, Goto, store, network, history
<1>9. ASSUME NEW t \in Threads, AcquireSendLock(t) PROVE TypeInv'
  BY <1>9 DEF AcquireSendLock, store, network, history
<1>10. ASSUME NEW t \in Threads, SendDone(t) PROVE TypeInv'
  <2>1. pc[t] \in Receivers /\ payload[t] \in SUBSET Grantable
    BY <1>10 DEF SendDone
  <2>2. wire' \in [Receivers -> Seq(SUBSET Grantable)]
    BY <1>10, <2>1, DeliverType DEF SendDone
  <2>3. pc' \in [Threads -> Where] /\ payload' \in [Threads -> SUBSET Grantable]
    BY <1>10, <2>1 DEF SendDone, Returned, EndPublish, AfterPublish, Goto
  <2>4. lock' = Nobody /\ ThreadOrder'
    BY <1>10, <2>1 DEF SendDone, Returned, EndPublish, AfterPublish, ReleaseSendLock, Goto
  <2>5. QED
    BY <1>10, <2>2, <2>3, <2>4 DEF SendDone, store, history
<1>11. ASSUME NEW t \in Threads, SendRaises(t) PROVE TypeInv'
  <2>1. pc[t] \in Receivers /\ payload[t] \in SUBSET Grantable
    BY <1>11 DEF SendRaises
  <2>2. late' \subseteq [to : Receivers, set : SUBSET Grantable]
    BY <1>11, <2>1 DEF SendRaises, Abandon
  <2>3. wire' \in [Receivers -> Seq(SUBSET Grantable)]
    BY <1>11, <2>1, DeliverType DEF SendRaises
  <2>4. pc' \in [Threads -> Where] /\ payload' \in [Threads -> SUBSET Grantable]
    BY <1>11 DEF SendRaises, Raised, EndPublish, AfterPublish, Goto
  <2>5. lock' = Nobody
    BY <1>11 DEF SendRaises, ReleaseSendLock
  <2>6. ThreadOrder'
    BY <1>11, <2>5 DEF SendRaises, Raised, EndPublish, AfterPublish, Goto
  <2>7. QED
    BY <1>11, <2>2, <2>3, <2>4, <2>5, <2>6 DEF SendRaises, store, history
<1>12. ASSUME NEW t \in Threads, SendLockTimeout(t) PROVE TypeInv'
  BY <1>12 DEF SendLockTimeout, Raised, EndPublish, AfterPublish, Goto, store, network, history
<1>13. ASSUME NEW l \in late, LateWorkerEnds(l) PROVE TypeInv'
  <2>1. l.to \in Receivers /\ l.set \in SUBSET Grantable
    BY <1>13
  <2>2. wire' \in [Receivers -> Seq(SUBSET Grantable)]
    BY <1>13, <2>1, DeliverType DEF LateWorkerEnds
  <2>3. QED
    BY <1>13, <2>2 DEF LateWorkerEnds, store, history
<1>14. ASSUME NEW m \in mail, OnAdmin(m) PROVE TypeInv'
  <2>1. m.ver \in 0 .. MaxVersion /\ NewGrants(m) \subseteq Publishers
    BY DEF Mail, NewGrants
  <2>2. CountersOK'
    BY <1>14, <2>1 DEF OnAdmin
  <2>3. FlagsOK'
    BY <1>14 DEF OnAdmin, store
  <2>4. RulesOK'
    BY <1>14, <2>1 DEF OnAdmin, store
  <2>5. ThreadsOK' /\ ThreadOrder'
    BY <1>14 DEF OnAdmin, Goto
  <2>6. QED
    BY <1>14, <2>2, <2>3, <2>4, <2>5 DEF OnAdmin, network
<1>15. ASSUME NEW g \in Pushes, AdminPush(g) PROVE TypeInv'
  <2>1. IsFiniteSet(Pushed)
    BY FS_Subset DEF Pushed
  <2>2. Cardinality(Pushed) \in Nat
    BY <2>1, FS_CardinalityType
  <2> DEFINE m == [from |-> Admin, ver |-> Cardinality(Pushed) + 1, grants |-> g]
  <2>3. m \in Mail
    BY <1>15, <2>2, ConstantsAssumption DEF AdminPush, Mail
  <2>4. mail' = mail \cup {m}
    BY <1>15 DEF AdminPush
  <2>5. IsFiniteSet(mail')
    BY <2>4, FS_AddElement
  <2>6. QED
    BY <1>15, <2>3, <2>4, <2>5 DEF AdminPush, store, process, history
<1>16. ASSUME NEW r \in Receivers, Receive(r) PROVE TypeInv'
  BY <1>16 DEF Receive, Known, store, process, history
<1>17. CASE UNCHANGED vars
  BY <1>17 DEF vars, store, process, network, history
<1>18. ASSUME NEW t \in Threads, StoreHangs(t) PROVE TypeInv'
  <2>1. rules' \subseteq Publishers /\ marker' \in BOOLEAN
    BY <1>18 DEF StoreHangs, Written
  <2>2. pc' = [pc EXCEPT ![t] = "hung"] /\ pc[t] = "persist"
    BY <1>18 DEF StoreHangs, Goto
  <2>3. ThreadsOK' /\ ThreadOrder'
    BY <1>18, <2>2 DEF StoreHangs
  <2>4. QED
    BY <1>18, <2>1, <2>3 DEF StoreHangs, network, history
<1>19. QED
  BY <1>1, <1>2, <1>3, <1>4, <1>5, <1>6, <1>7, <1>8, <1>9, <1>10, <1>11, <1>12, <1>13, <1>14,
     <1>15, <1>16, <1>17, <1>18 DEF Next, EngineNext, Persist, Publish

(* Every variable of the engine keeps its type in every reachable state:   *)
(* whatever --grant names, records are written for known publishers only.  *)
THEOREM TypeCorrect == Spec => []TypeOK
<1>1. TypeInv => TypeOK
  BY DEF TypeInv
<1>2. QED
  BY TypeInit, TypeStep, <1>1, PTL DEF Spec

(* A dead engine has applied nothing.                                      *)
SeedInv == OnlySeedIsUnknown /\ (~Up => lastVer = 0)

(* Every step keeps it: a boot reads records or takes the seed, a change   *)
(* keeps the publishers it knows, and nothing else changes `granted`.      *)
LEMMA SeedStep == TypeInv /\ SeedInv /\ [Next]_vars => SeedInv'
<1> SUFFICES ASSUME TypeInv, SeedInv, [Next]_vars PROVE SeedInv'
  OBVIOUS
<1> USE DEF SeedInv, OnlySeedIsUnknown, Up
<1> DEFINE Same == granted' = granted /\ lastVer' = lastVer /\ (Up => Up')
<1>0. Same => SeedInv'
  OBVIOUS
<1>1. CASE Boot
  BY <1>1 DEF Boot, InitialGrants, TypeInv, TypeOK, RulesOK, ThreadsOK, Goto
<1>2. CASE Crash
  BY <1>2 DEF Crash
<1>3. ASSUME NEW m \in mail, OnAdmin(m) PROVE SeedInv'
  BY <1>3 DEF OnAdmin, TypeInv, TypeOK, ThreadsOK, ThreadOrder, Goto
<1>4. CASE ApplyChange
  BY <1>4 DEF ApplyChange, TypeInv, TypeOK, RulesOK, ThreadsOK, ThreadOrder, Goto
<1>5. CASE StartListening \/ Heartbeat
  BY <1>0, <1>5 DEF StartListening, Heartbeat, Goto, TypeInv, TypeOK, ThreadsOK
<1>6. ASSUME NEW t \in Threads, Persist(t) PROVE SeedInv'
  <2>1. granted' = granted /\ lastVer' = lastVer
    BY <1>6 DEF Persist, PersistRule, PersistMarker, StoreHangs
  <2>2. Up => Up'
    BY <1>6 DEF Persist, PersistRule, PersistMarker, StoreHangs, Goto, TypeInv, TypeOK, ThreadsOK
  <2>3. QED
    BY <1>0, <2>1, <2>2
<1>7. ASSUME NEW t \in Threads, Publish(t) PROVE SeedInv'
  <2>1. granted' = granted /\ lastVer' = lastVer
    BY <1>7 DEF Publish, Serialise, AcquireSendLock, SendDone, SendRaises, SendLockTimeout
  <2>2. Up => Up'
    BY <1>7 DEF Publish, Serialise, AcquireSendLock, SendDone, SendRaises, SendLockTimeout,
                Returned, Raised, EndPublish, AfterPublish, Goto, TypeInv, TypeOK, ThreadsOK
  <2>3. QED
    BY <1>0, <2>1, <2>2
<1>8. CASE \/ \E l \in late : LateWorkerEnds(l)
           \/ \E g \in Pushes : AdminPush(g)
           \/ \E r \in Receivers : Receive(r)
           \/ UNCHANGED vars
  BY <1>0, <1>8 DEF LateWorkerEnds, AdminPush, Receive, vars, process
<1>9. QED
  BY <1>1, <1>2, <1>3, <1>4, <1>5, <1>6, <1>7, <1>8 DEF Next, EngineNext

(* The engine holds a name that is no publisher only as part of the whole  *)
(* --grant set, taken at a first run, and only until its first change: a   *)
(* later start or an admin can never bring one in.                         *)
THEOREM UnknownOnlyFromTheSeed == Spec => []OnlySeedIsUnknown
<1>1. Init => SeedInv
  BY DEF Init, SeedInv, OnlySeedIsUnknown
<1>2. SeedInv => OnlySeedIsUnknown
  BY DEF SeedInv
<1>3. QED
  BY TypeInit, TypeStep, SeedStep, <1>1, <1>2, PTL DEF Spec
-----------------------------------------------------------------------------
(* Durability                                                              *)

DurableInv == TypeInv /\ PersistProgress /\ SettledSurvives

(* The heart of the argument: what persist() has written so far agrees     *)
(* with granted because only the persisting thread changes either, so a    *)
(* clean finish leaves the records equal to the set in force; and from     *)
(* then on the set in force, the records and what a restart would load are *)
(* the same set, whichever thread moves and whenever the engine dies.      *)
LEMMA DurableInit == Init => DurableInv
BY TypeInit DEF Init, DurableInv, PersistProgress, SettledSurvives

(* Every step keeps what makes a settled set safe.                         *)
LEMMA DurableStep == DurableInv /\ [Next]_vars => DurableInv'
<1> SUFFICES ASSUME DurableInv, [Next]_vars PROVE PersistProgress' /\ SettledSurvives'
  BY TypeStep DEF DurableInv
<1> USE DEF DurableInv, TypeInv, TypeOK, RulesOK, ThreadsOK, Where, ThreadOrder,
            PersistProgress, SettledSurvives, InForce, Up
<1>1. CASE Boot
  BY <1>1 DEF Boot, InitialGrants, Goto, store, history
<1>2. CASE StartListening
  BY <1>2 DEF StartListening, store, history
<1>3. CASE Crash
  BY <1>3 DEF Crash, InitialGrants, store
<1>4. CASE Heartbeat
  BY <1>4 DEF Heartbeat, Goto, store, history
<1>5. CASE ApplyChange
  BY <1>5 DEF ApplyChange, Goto, store, history
<1>6. ASSUME NEW t \in Threads, NEW s \in Publishers, PersistRule(t, s)
      PROVE  PersistProgress' /\ SettledSurvives'
  BY <1>6 DEF PersistRule, Written, history
<1>7. ASSUME NEW t \in Threads, PersistMarker(t) PROVE PersistProgress' /\ SettledSurvives'
  <2>1. pc[t] = "persist" /\ todo = {} /\ pc' = [pc EXCEPT ![t] = "snap"]
        /\ rules' = rules /\ granted' = granted
    BY <1>7 DEF PersistMarker, Goto
  <2>2. InForce = granted /\ InForce' = granted
    BY <2>1
  <2>3. ~failed => rules = granted \cap Publishers
    BY <2>1
  <2>4. \/ marked /\ marked' = marked /\ marker' = marker /\ settled' = (settled \/ ~failed)
        \/ marker' = TRUE /\ settled' = (settled \/ ~failed)
        \/ ~marked /\ marked' = marked /\ settled' = settled /\ marker' \in {marker, TRUE}
    BY <1>7, Zenon DEF PersistMarker, MarkerPutFails
  <2>5. marked' => marker'
    BY <2>4, Zenon
  <2>6. settled' => marker' /\ (settled \/ ~failed)
    BY <2>4, Zenon
  <2>7. SettledSurvives'
    BY <2>1, <2>2, <2>3, <2>6
  <2>8. \A u \in Threads : pc'[u] # "persist"
    BY <2>1
  <2>9. QED
    BY <2>5, <2>7, <2>8
<1>8. ASSUME NEW t \in Threads, Serialise(t) PROVE PersistProgress' /\ SettledSurvives'
  BY <1>8 DEF Serialise, Goto, store, history
<1>9. ASSUME NEW t \in Threads, AcquireSendLock(t) PROVE PersistProgress' /\ SettledSurvives'
  BY <1>9 DEF AcquireSendLock, store, history, InitialGrants
<1>10. ASSUME NEW t \in Threads, SendDone(t) PROVE PersistProgress' /\ SettledSurvives'
  BY <1>10 DEF SendDone, Returned, EndPublish, AfterPublish, Goto, store, history
<1>11. ASSUME NEW t \in Threads, SendRaises(t) PROVE PersistProgress' /\ SettledSurvives'
  BY <1>11 DEF SendRaises, Raised, EndPublish, AfterPublish, Goto, store, history
<1>12. ASSUME NEW t \in Threads, SendLockTimeout(t) PROVE PersistProgress' /\ SettledSurvives'
  BY <1>12 DEF SendLockTimeout, Raised, EndPublish, AfterPublish, Goto, store, history
<1>13. ASSUME NEW l \in late, LateWorkerEnds(l) PROVE PersistProgress' /\ SettledSurvives'
  BY <1>13 DEF LateWorkerEnds, store, history, InitialGrants
<1>14. ASSUME NEW m \in mail, OnAdmin(m) PROVE PersistProgress' /\ SettledSurvives'
  BY <1>14 DEF OnAdmin, Goto, store
<1>15. ASSUME NEW g \in Pushes, AdminPush(g)
       PROVE  PersistProgress' /\ SettledSurvives'
  BY <1>15 DEF AdminPush, store, process, history, InitialGrants
<1>16. ASSUME NEW r \in Receivers, Receive(r) PROVE PersistProgress' /\ SettledSurvives'
  BY <1>16 DEF Receive, store, process, history, InitialGrants
<1>17. CASE UNCHANGED vars
  BY <1>17 DEF vars, store, process, history, InitialGrants
<1>18. ASSUME NEW t \in Threads, StoreHangs(t) PROVE PersistProgress' /\ SettledSurvives'
  <2>1. pc[t] = "persist" /\ pc' = [pc EXCEPT ![t] = "hung"] /\ granted' = granted
        /\ settled' = settled /\ marked' = marked
    BY <1>18 DEF StoreHangs, Goto, history
  <2>2. InForce = granted /\ InForce' = granted
    BY <2>1
  <2>3. marker' = marker \/ marker' = TRUE
    BY <1>18 DEF StoreHangs
  <2>4. settled => rules' = rules
    BY <1>18, <2>2 DEF StoreHangs, Written
  <2>5. \A u \in Threads : pc'[u] # "persist"
    BY <2>1
  <2>6. QED
    BY <2>1, <2>2, <2>3, <2>4, <2>5
<1>19. QED
  BY <1>1, <1>2, <1>3, <1>4, <1>5, <1>6, <1>7, <1>8, <1>9, <1>10, <1>11, <1>12, <1>13, <1>14,
     <1>15, <1>16, <1>17, <1>18 DEF Next, EngineNext, Persist, Publish

(* A rule set persisted without a warning survives every later failure,    *)
(* crash and restart.                                                      *)
THEOREM SettledRulesSurvive == Spec => []SettledSurvives
<1>1. DurableInv => SettledSurvives
  BY DEF DurableInv
<1>2. QED
  BY DurableInit, DurableStep, <1>1, PTL DEF Spec

-----------------------------------------------------------------------------
(* Refinement                                                              *)

(* Each step of the engine is a step of DurableRules or leaves its three   *)
(* variables alone: a boot and a settled crash change nothing it can see.  *)
LEMMA EngineImplementsInit == Init => Durable!Init
BY ConstantsAssumption DEF Init, Durable!Init, InForce, Up, InitialGrants

(* Every step of the engine is one of DurableRules, or a stutter.          *)
LEMMA EngineImplementsStep ==
  ASSUME DurableInv, DurableInv', [Next]_vars
  PROVE  [Durable!Next]_(Durable!drVars)
<1> USE DEF DurableInv, TypeInv, TypeOK, RulesOK, ThreadsOK, Where, ThreadOrder, InForce, Up
<1> DEFINE Unseen == InForce' \cap Publishers = InForce \cap Publishers /\ settled' = settled /\ changes' = changes
<1>0. Unseen => [Durable!Next]_(Durable!drVars)
  BY DEF Durable!drVars
<1>1. CASE Boot
  BY <1>0, <1>1 DEF Boot, InitialGrants, Goto, store, history
<1>2. CASE StartListening
  BY <1>0, <1>2 DEF StartListening, store, history
<1>3. CASE Crash
  <2>1. settled' = settled /\ changes' = changes
    BY <1>3 DEF Crash
  <2>2. CASE settled
    BY <1>0, <1>3, <2>1, <2>2 DEF Crash, store, SettledSurvives
  <2>3. CASE ~settled
    <3>1. InForce' \cap Publishers \in SUBSET Publishers
      BY <1>3, ConstantsAssumption DEF Crash, InitialGrants, store
    <3>2. QED
      BY <2>1, <2>3, <3>1 DEF Durable!Next, Durable!Lose
  <2>4. QED
    BY <2>2, <2>3
<1>4. CASE Heartbeat
  BY <1>0, <1>4 DEF Heartbeat, Goto, store, history
<1>5. CASE ApplyChange
  BY <1>0, <1>5 DEF ApplyChange, Goto, store, history
<1>6. ASSUME NEW t \in Threads, NEW s \in Publishers, PersistRule(t, s)
      PROVE  [Durable!Next]_(Durable!drVars)
  BY <1>0, <1>6 DEF PersistRule, network, history
<1>7. ASSUME NEW t \in Threads, PersistMarker(t) PROVE [Durable!Next]_(Durable!drVars)
  <2>1. InForce' = InForce /\ changes' = changes
    BY <1>7 DEF PersistMarker, Goto
  <2>2. settled' = settled \/ settled' = TRUE
    BY <1>7 DEF PersistMarker, MarkerPutFails, FlagsOK
  <2>3. QED
    BY <1>0, <2>1, <2>2 DEF Durable!Next, Durable!Settle
<1>8. ASSUME NEW t \in Threads, Publish(t) PROVE [Durable!Next]_(Durable!drVars)
  <2>1. settled' = settled /\ changes' = changes /\ granted' = granted /\ want' = want
        /\ rules' = rules /\ marker' = marker
    BY <1>8 DEF Publish, Serialise, AcquireSendLock, SendDone, SendRaises, SendLockTimeout,
                store, history
  <2>2. (pc'["main"] = "off" <=> pc["main"] = "off")
        /\ (pc'["admin"] = "update" <=> pc["admin"] = "update")
    BY <1>8 DEF Publish, Serialise, AcquireSendLock, SendDone, SendRaises, SendLockTimeout,
                Returned, Raised, EndPublish, AfterPublish, Goto
  <2>3. QED
    BY <1>0, <2>1, <2>2 DEF InitialGrants
<1>9. ASSUME NEW l \in late, LateWorkerEnds(l) PROVE [Durable!Next]_(Durable!drVars)
  BY <1>0, <1>9 DEF LateWorkerEnds, store, history, InitialGrants
<1>10. ASSUME NEW m \in mail, OnAdmin(m) PROVE [Durable!Next]_(Durable!drVars)
  <2>1. InForce' \cap Publishers \in SUBSET Publishers
    BY <1>10 DEF OnAdmin, Goto, NewGrants
  <2>2. settled' = FALSE /\ changes' = changes + 1
    BY <1>10 DEF OnAdmin
  <2>3. QED
    BY <2>1, <2>2 DEF Durable!Next, Durable!Change
<1>11. ASSUME NEW g \in Pushes, AdminPush(g)
       PROVE  [Durable!Next]_(Durable!drVars)
  BY <1>0, <1>11 DEF AdminPush, store, process, history, InitialGrants
<1>12. ASSUME NEW r \in Receivers, Receive(r) PROVE [Durable!Next]_(Durable!drVars)
  BY <1>0, <1>12 DEF Receive, store, process, history, InitialGrants
<1>13. CASE UNCHANGED vars
  BY <1>0, <1>13 DEF vars, store, process, history, InitialGrants
<1>14. ASSUME NEW t \in Threads, StoreHangs(t) PROVE [Durable!Next]_(Durable!drVars)
  BY <1>0, <1>14 DEF StoreHangs, Goto, network, history
<1>15. QED
  BY <1>1, <1>2, <1>3, <1>4, <1>5, <1>6, <1>7, <1>8, <1>9, <1>10, <1>11, <1>12, <1>13, <1>14
     DEF Next, EngineNext, Persist

(* The engine implements the abstract durable rule set, for any number of  *)
(* publishers and any schedule of failures and crashes.                    *)
THEOREM EngineIsDurable == Spec => DurableSpec
<1>1. DurableInv /\ DurableInv' /\ [Next]_vars => [Durable!Next]_(Durable!drVars)
  BY EngineImplementsStep
<1>2. QED
  BY DurableInit, DurableStep, EngineImplementsInit, <1>1, PTL
     DEF Spec, DurableSpec, Durable!Spec

HIDE DEF Threads, Receivers, Admin, Nobody
-----------------------------------------------------------------------------
(* 2. The planner                                                          *)

USE PlannerAssumption
USE DEF Keys, Views, consumer, cache, loop

-----------------------------------------------------------------------------
(* Type correctness                                                        *)

(* Initially the planner is typed.                                         *)
LEMMA PlannerTypeInit == PlannerInit => PlannerTypeOK
BY DEF PlannerInit, PlannerTypeOK, AllKinds

(* Every step keeps every variable's type.                                 *)
LEMMA PlannerTypeStep == PlannerTypeOK /\ [PlannerNext]_plannerVars => PlannerTypeOK'
<1> SUFFICES ASSUME PlannerTypeOK, [PlannerNext]_plannerVars PROVE PlannerTypeOK'
  OBVIOUS
<1> USE DEF PlannerTypeOK
<1>1. ASSUME NEW sender, NEW g \in SUBSET Sources, OnPolicy(sender, g) PROVE PlannerTypeOK'
  BY <1>1 DEF OnPolicy, Revoked
<1>2. ASSUME NEW s \in Sources, DropSource(s) PROVE PlannerTypeOK'
  BY <1>2 DEF DropSource, ForgetAges
<1>3. ASSUME NEW s \in Sources, NEW k \in Kinds, OnData(s, k) PROVE PlannerTypeOK'
  BY <1>3 DEF OnData
<1>4. CASE Read
  <2>1. plan' \subseteq Sources
    BY <1>4 DEF Read, LiveKeys, LiveTraffic
  <2>2. QED
    BY <1>4, <2>1 DEF Read, ForgetAges
<1>5. CASE PushDone
  <2>1. stage' \in {"sleep"} \cup Views /\ plan' \subseteq Sources
        /\ (stage' = "sleep" => plan' = {})
    BY <1>5 DEF PushDone, ToSleep, AfterPush
  <2>2. shows' \in [Views -> SUBSET Sources]
    BY <1>5 DEF PushDone, Displays
  <2>3. QED
    BY <1>5, <2>1, <2>2 DEF PushDone
<1>6. CASE PushRaises
  <2>1. stage' = "sleep" /\ plan' = {}
    BY <1>6 DEF PushRaises, ToSleep
  <2>2. shows' \in [Views -> SUBSET Sources]
    BY <1>6 DEF PushRaises, Displays
  <2>3. latePushes' \subseteq [to : Views, plan : SUBSET Sources]
    BY <1>6 DEF PushRaises
  <2>4. QED
    BY <1>6, <2>1, <2>2, <2>3 DEF PushRaises
<1>7. ASSUME NEW p \in latePushes, LatePush(p) PROVE PlannerTypeOK'
  BY <1>7 DEF LatePush, Displays
<1>8. CASE Tick
  BY <1>8 DEF Tick
<1>9. CASE Restart
  BY <1>9 DEF Restart, ForgetAges
<1>10. CASE UNCHANGED plannerVars
  BY <1>10 DEF plannerVars
<1>11. QED
  BY <1>1, <1>2, <1>3, <1>4, <1>5, <1>6, <1>7, <1>8, <1>9, <1>10
     DEF PlannerNext, OwnNext, LoopNext, DataNext

(* The planner is always well typed.                                       *)
THEOREM PlannerTypeCorrect == PlannerSpec => []PlannerTypeOK
BY PlannerTypeInit, PlannerTypeStep, PTL DEF PlannerSpec
-----------------------------------------------------------------------------
(* Default deny and the purge                                              *)

(* Every step keeps the cache authorised: a record is put only for a       *)
(* granted publisher, and one that loses its grant is purged by on_record. *)
LEMMA CacheStep ==
  PlannerTypeOK /\ CacheAuthorised /\ [PlannerNext]_plannerVars => CacheAuthorised'
<1> SUFFICES ASSUME PlannerTypeOK, CacheAuthorised, [PlannerNext]_plannerVars
             PROVE  CacheAuthorised'
  OBVIOUS
<1> USE DEF PlannerTypeOK, CacheAuthorised
<1>1. ASSUME NEW sender, NEW g \in SUBSET Sources, OnPolicy(sender, g) PROVE CacheAuthorised'
  BY <1>1 DEF OnPolicy, Revoked
<1>2. ASSUME NEW s \in Sources, DropSource(s) PROVE CacheAuthorised'
  <2>1. \A k \in held : k[1] = s => k \in Dropped(s)
    BY DEF Dropped
  <2>2. QED
    BY <1>2, <2>1 DEF DropSource
<1>3. ASSUME NEW s \in Sources, NEW k \in Kinds, OnData(s, k) PROVE CacheAuthorised'
  BY <1>3 DEF OnData, Granted
<1>4. CASE Read \/ PushDone \/ PushRaises \/ \E p \in latePushes : LatePush(p)
  BY <1>4 DEF Read, PushDone, PushRaises, LatePush
<1>5. CASE Tick \/ Restart \/ UNCHANGED plannerVars
  BY <1>5 DEF Tick, Restart, plannerVars
<1>6. QED
  BY <1>1, <1>2, <1>3, <1>4, <1>5 DEF PlannerNext, OwnNext, LoopNext, DataNext

(* Nothing of a publisher that is not granted stays in the cache past      *)
(* on_record's purge (planner_service.on_record, cache.drop_source).       *)
THEOREM CacheIsAuthorised == PlannerSpec => []CacheAuthorised
<1>1. PlannerInit => CacheAuthorised
  BY DEF PlannerInit, CacheAuthorised
<1>2. QED
  BY PlannerTypeCorrect, CacheStep, <1>1, PTL DEF PlannerSpec

(* So a cycle that starts outside on_record plans from granted publishers. *)
THEOREM PlansAreAuthorised == PlannerSpec => PlansFromGranted
<1>1. PlannerTypeOK /\ CacheAuthorised /\ [PlannerNext]_plannerVars =>
        [stage = "sleep" /\ stage' = "commuter" /\ purging = {} => plan' \subseteq allow]_plannerVars
  <2> SUFFICES ASSUME PlannerTypeOK, CacheAuthorised, PlannerNext,
                      stage = "sleep", stage' = "commuter", purging = {}
               PROVE  plan' \subseteq allow
    OBVIOUS
  <2>1. Read
    BY DEF PlannerNext, OwnNext, LoopNext, DataNext, OnPolicy, DropSource, OnData, PushDone,
           PushRaises, LatePush, Tick, Restart
  <2>2. QED
    BY <2>1 DEF Read, LiveKeys, LiveTraffic, CacheAuthorised
<1>2. QED
  BY PlannerTypeCorrect, CacheIsAuthorised, <1>1, PTL DEF PlannerSpec, PlansFromGranted

(* A granted publisher's report stays for its TTL: KeptForItsTTL, from the *)
(* single places that remove anything, _purge, drop_source and a restart.  *)
THEOREM ReportsAreKept == PlannerSpec => KeptForItsTTL
<1>1. PlannerTypeOK /\ [PlannerNext]_plannerVars =>
        [\A k \in held \ held' :
           age[k] > LiveTTL \/ k[1] \in purging \/ restarts' # restarts]_plannerVars
  <2> SUFFICES ASSUME PlannerTypeOK, PlannerNext, NEW k \in held, k \notin held'
               PROVE  age[k] > LiveTTL \/ k[1] \in purging \/ restarts' # restarts
    OBVIOUS
  <2>1. CASE Read
    BY <2>1 DEF Read, LiveKeys, Expired
  <2>2. ASSUME NEW s \in Sources, DropSource(s) PROVE k[1] \in purging
    BY <2>2 DEF DropSource, Dropped
  <2>3. CASE Restart
    BY <2>3 DEF Restart, PlannerTypeOK
  <2>4. QED
    BY <2>1, <2>2, <2>3 DEF PlannerNext, OwnNext, LoopNext, DataNext, OnPolicy, OnData, PushDone,
           PushRaises, LatePush, Tick
<1>2. QED
  BY PlannerTypeCorrect, <1>1, PTL DEF PlannerSpec, KeptForItsTTL

HIDE PlannerAssumption
HIDE DEF Keys, Views, consumer, cache, loop
-----------------------------------------------------------------------------
(* 3. The two together: each keeps what was shown of it alone              *)

FlowTypeInv == TypeInv /\ PlannerTypeOK

(* Of the engine's variables a restart of the planner changes only the set *)
(* the planner holds; every other step is the engine's or leaves it alone. *)
LEMMA EngineInFlow ==
  [FlowNext]_flowVars =>
    \/ [Next]_vars
    \/ /\ holds' = [holds EXCEPT !["planner"] = NoSet]
       /\ UNCHANGED <<store, process, mail, wire, history>>
BY DEF FlowNext, flowVars, EngineAlone, PlannerAlone, PlannerHears, PlannerHearsStranger,
       PlannerRestarts, Next, Receivers

(* Each step of the whole is one of the planner's, or a stutter: what      *)
(* arrives from the engine is a set of publishers.                         *)
LEMMA PlannerInFlow == FlowTypeInv /\ [FlowNext]_flowVars => [PlannerNext]_plannerVars
<1> SUFFICES ASSUME FlowTypeInv, FlowNext PROVE [PlannerNext]_plannerVars
  BY DEF flowVars, plannerVars
<1>1. CASE EngineAlone
  BY <1>1 DEF EngineAlone
<1>2. CASE PlannerAlone
  BY <1>2 DEF PlannerAlone, PlannerNext
<1>3. CASE PlannerHears
  <2>1. wire["planner"] \in Seq(SUBSET Grantable) /\ wire["planner"] # <<>>
    BY <1>3 DEF PlannerHears, Receive, FlowTypeInv, TypeInv, TypeOK, NetworkOK, Receivers
  <2>2. Head(wire["planner"]) \in SUBSET Sources
    BY <2>1, FlowAssumption
  <2>3. QED
    BY <1>3, <2>2 DEF PlannerHears, PlannerNext
<1>4. CASE PlannerHearsStranger
  BY <1>4 DEF PlannerHearsStranger, PlannerNext
<1>5. CASE PlannerRestarts
  BY <1>5 DEF PlannerRestarts, PlannerNext
<1>6. QED
  BY <1>1, <1>2, <1>3, <1>4, <1>5 DEF FlowNext

(* A planner that forgets what it was given stays typed.                   *)
LEMMA ForgettingType ==
  ASSUME TypeInv, holds' = [holds EXCEPT !["planner"] = NoSet],
         UNCHANGED <<store, process, mail, wire, history>>
  PROVE  TypeInv'
<1>1. NoSet \in [known : BOOLEAN, set : SUBSET Grantable]
  BY DEF NoSet
<1>2. holds' \in [Receivers -> [known : BOOLEAN, set : SUBSET Grantable]]
  BY <1>1 DEF TypeInv, TypeOK, NetworkOK
<1>3. NetworkOK' /\ IsFiniteSet(mail')
  BY <1>2 DEF TypeInv, TypeOK, NetworkOK
<1>4. FlagsOK' /\ RulesOK' /\ CountersOK' /\ ThreadsOK' /\ ThreadOrder'
  BY DEF TypeInv, TypeOK, FlagsOK, RulesOK, CountersOK, ThreadsOK, ThreadOrder, store, process, history
<1>5. QED
  BY <1>3, <1>4 DEF TypeInv, TypeOK

(* Every step of the whole keeps the types of both.                        *)
LEMMA FlowTypeStep == FlowTypeInv /\ [FlowNext]_flowVars => FlowTypeInv'
<1> SUFFICES ASSUME FlowTypeInv, [FlowNext]_flowVars PROVE FlowTypeInv'
  OBVIOUS
<1>1. PlannerTypeOK'
  BY PlannerInFlow, PlannerTypeStep DEF FlowTypeInv
<1>2. TypeInv'
  BY EngineInFlow, TypeStep, ForgettingType DEF FlowTypeInv
<1>3. QED
  BY <1>1, <1>2 DEF FlowTypeInv

(* What is on the wires and what the views show stays typed in the whole.  *)
LEMMA FlowTyped == FlowSpec => []FlowTypeInv
<1>1. FlowInit => FlowTypeInv
  BY TypeInit, PlannerTypeInit DEF FlowInit, FlowTypeInv
<1>2. QED
  BY <1>1, FlowTypeStep, PTL DEF FlowSpec

(* Fed by the real engine, the planner is the planner that Planner checks  *)
(* under arbitrary policy records: all that is shown of it there holds.    *)
THEOREM FlowImplementsPlanner == FlowSpec => PlannerSpec
<1>1. FlowInit => PlannerInit
  BY DEF FlowInit
<1>2. QED
  BY <1>1, FlowTyped, PlannerInFlow, PTL DEF FlowSpec, PlannerSpec
-----------------------------------------------------------------------------
(* The planner enforces the set it was last given                          *)

(* Every step keeps it: ALLOW and the set the planner holds change only    *)
(* together, by a record of the engine's or by a restart.                  *)
LEMMA EnforceStep ==
  FlowTypeInv /\ EnforcesTheSetGiven /\ [FlowNext]_flowVars => EnforcesTheSetGiven'
<1> SUFFICES ASSUME FlowTypeInv, EnforcesTheSetGiven, [FlowNext]_flowVars
             PROVE  EnforcesTheSetGiven'
  OBVIOUS
<1>0. holds \in [Receivers -> [known : BOOLEAN, set : SUBSET Grantable]] /\ "planner" \in Receivers
  BY DEF FlowTypeInv, TypeInv, TypeOK, NetworkOK, Receivers
<1> DEFINE Same == allow' = allow /\ holds'["planner"] = holds["planner"]
<1>1. Same => EnforcesTheSetGiven'
  BY DEF EnforcesTheSetGiven
<1>2. CASE EngineAlone
  <2>1. allow' = allow
    BY <1>2 DEF EngineAlone, plannerVars, consumer
  <2>2. ASSUME EngineNext PROVE holds' = holds
    BY <2>2 DEF EngineNext, Boot, StartListening, Crash, Heartbeat, ApplyChange, Persist, PersistRule,
            PersistMarker, StoreHangs, Publish, Serialise, AcquireSendLock, SendDone, SendRaises, SendLockTimeout,
            LateWorkerEnds, OnAdmin, network
  <2>3. ASSUME NEW g, AdminPush(g) PROVE holds' = holds
    BY <2>3 DEF AdminPush
  <2>4. ASSUME Receive("mirror") PROVE holds'["planner"] = holds["planner"]
    BY <1>0, <2>4 DEF Receive
  <2>5. holds'["planner"] = holds["planner"]
    BY <1>0, <1>2, <2>2, <2>3, <2>4 DEF EngineAlone
  <2>6. QED
    BY <1>1, <2>1, <2>5
<1>3. CASE PlannerAlone
  <2>1. allow' = allow
    BY <1>3 DEF PlannerAlone, OwnNext, LoopNext, DataNext, Read, PushDone, PushRaises, LatePush,
           DropSource, OnData, Tick, consumer
  <2>2. holds' = holds
    BY <1>3 DEF PlannerAlone, vars, network
  <2>3. QED
    BY <1>1, <2>1, <2>2
<1>4. CASE PlannerHears
  <2>1. holds'["planner"] = Known(Head(wire["planner"]))
    BY <1>0, <1>4 DEF PlannerHears, Receive
  <2>2. allow' = Head(wire["planner"])
    BY <1>4 DEF PlannerHears, OnPolicy, FromEngine
  <2>3. QED
    BY <2>1, <2>2 DEF EnforcesTheSetGiven, Known
<1>5. CASE PlannerHearsStranger
  <2>1. allow' = allow
    BY <1>5 DEF PlannerHearsStranger, OnPolicy, FromEngine, consumer
  <2>2. holds' = holds
    BY <1>5 DEF PlannerHearsStranger, vars, network
  <2>3. QED
    BY <1>1, <2>1, <2>2
<1>6. CASE PlannerRestarts
  <2>1. holds'["planner"] = NoSet /\ allow' = {}
    BY <1>0, <1>6 DEF PlannerRestarts, Restart
  <2>2. QED
    BY <2>1 DEF EnforcesTheSetGiven, NoSet
<1>7. CASE UNCHANGED flowVars
  BY <1>1, <1>7 DEF flowVars, vars, network, plannerVars, consumer
<1>8. QED
  BY <1>2, <1>3, <1>4, <1>5, <1>6, <1>7 DEF FlowNext

(* The planner enforces the set the engine last gave it, nobody else's,    *)
(* and none before it was given one: default deny, also after a restart.   *)
THEOREM PlannerEnforcesTheSetGiven == FlowSpec => []EnforcesTheSetGiven
<1>1. FlowInit => EnforcesTheSetGiven
  BY DEF FlowInit, Init, PlannerInit, EnforcesTheSetGiven, NoSet, Receivers
<1>2. QED
  BY <1>1, FlowTyped, EnforceStep, PTL DEF FlowSpec

(* So a cycle that starts outside on_record plans from publishers that the *)
(* engine's last record to reach the planner grants.                       *)
THEOREM PlansFollowTheEngine == FlowSpec => PlansFromTheSetGiven
<1> DEFINE ByGrant == stage = "sleep" /\ stage' = "commuter" /\ purging = {} => plan' \subseteq allow
           BySet == stage = "sleep" /\ stage' = "commuter" /\ purging = {} => plan' \subseteq holds["planner"].set
<1>1. EnforcesTheSetGiven /\ [ByGrant]_plannerVars => [BySet]_flowVars
  BY DEF EnforcesTheSetGiven, plannerVars, flowVars, loop
<1>2. QED
  BY <1>1, FlowImplementsPlanner, PlansAreAuthorised, PlannerEnforcesTheSetGiven, PTL
     DEF PlansFromGranted, PlansFromTheSetGiven
-----------------------------------------------------------------------------
(* Durability end to end                                                   *)

(* Every step of the whole keeps what makes a settled set safe.            *)
LEMMA FlowDurableStep == DurableInv /\ [FlowNext]_flowVars => DurableInv'
<1> SUFFICES ASSUME DurableInv, [FlowNext]_flowVars PROVE DurableInv'
  OBVIOUS
<1>1. CASE [Next]_vars
  BY <1>1, DurableStep
<1>2. CASE /\ holds' = [holds EXCEPT !["planner"] = NoSet]
           /\ UNCHANGED <<store, process, mail, wire, history>>
  <2>1. TypeInv'
    BY <1>2, ForgettingType DEF DurableInv
  <2>2. UNCHANGED <<rules, marker, granted, marked, pc, want, todo, failed, settled>>
    BY <1>2 DEF store, process, history
  <2>3. PersistProgress' /\ SettledSurvives'
    BY <2>2 DEF DurableInv, PersistProgress, SettledSurvives, InForce, InitialGrants, Up
  <2>4. QED
    BY <2>1, <2>3 DEF DurableInv
<1>3. QED
  BY <1>1, <1>2, EngineInFlow

(* The engine stays the durable rule set it is alone when a planner that   *)
(* comes and goes is listening to it.                                      *)
THEOREM FlowIsDurable == FlowSpec => DurableSpec /\ []SettledSurvives
<1>1. FlowInit => DurableInv /\ Durable!Init
  BY DurableInit, EngineImplementsInit DEF FlowInit
<1>2. DurableInv /\ DurableInv' /\ [FlowNext]_flowVars => [Durable!Next]_(Durable!drVars)
  <2> SUFFICES ASSUME DurableInv, DurableInv', [FlowNext]_flowVars
               PROVE  [Durable!Next]_(Durable!drVars)
    OBVIOUS
  <2>1. CASE [Next]_vars
    BY <2>1, EngineImplementsStep
  <2>2. CASE UNCHANGED <<store, process, mail, wire, history>>
    BY <2>2 DEF Durable!drVars, InForce, InitialGrants, Up, store, process, history
  <2>3. QED
    BY <2>1, <2>2, EngineInFlow
<1>3. DurableInv => SettledSurvives
  BY DEF DurableInv
<1>4. QED
  BY <1>1, <1>2, <1>3, FlowDurableStep, PTL DEF FlowSpec, DurableSpec, Durable!Spec
=============================================================================

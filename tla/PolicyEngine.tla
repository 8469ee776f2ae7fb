---------------------------- MODULE PolicyEngine ----------------------------
(***************************************************************************)
(* The policy engine process (atsign/policy_engine.py): the owner of the   *)
(* rule set.  Rules live as records in the engine's own atServer; a marker *)
(* record tells "never written" from "everything revoked".                 *)
(*                                                                         *)
(* Two threads share `granted` and one AtPublisher:                        *)
(*   "main"   boots, persists, publishes, then heartbeats forever;         *)
(*   "admin"  is the subscriber's consumer thread running on_admin.        *)
(* The publisher serialises sends with a lock, but the payload of a        *)
(* publish is computed before the lock is asked for.                       *)
(***************************************************************************)
EXTENDS Naturals, Sequences, FiniteSets

CONSTANTS
  Publishers,   \* all_publishers: what the configuration lets the engine authorise
  Seed,         \* --grant: the rules of an atSign that never held any, unfiltered
  Unknown,      \* other names that --grant or an admin message may carry
  Pushes,       \* bound: the sets the admin may push
  ForeignMail,  \* "admin" records sent by atSigns other than the policy admin
  Faults,       \* which failures may happen: a subset of FaultKinds
  Followed,     \* the receivers whose records are followed to the end
  MaxVersion,   \* bound: admin pushes
  MaxCrashes,   \* bound: crashes of the engine
  MaxQueue      \* bound: records between the engine and one receiver

FaultKinds == {"store", "hang", "send", "lostReply", "late"}
Threads == {"main", "admin"}
Receivers == {"planner", "mirror"}
Nobody == "nobody"
Admin == "policy_admin"
Mail == [from : {Admin, "stranger"}, ver : 0 .. MaxVersion, grants : SUBSET (Publishers \cup Unknown)]

ASSUME ConstantsAssumption ==
  /\ Seed \subseteq Publishers \cup Unknown
  /\ Publishers \cap Unknown = {}
  /\ Pushes \subseteq SUBSET (Publishers \cup Unknown)
  /\ ForeignMail \subseteq {m \in Mail : m.from # Admin} /\ IsFiniteSet(ForeignMail)
  /\ Faults \subseteq FaultKinds /\ Followed \subseteq Receivers
  /\ MaxVersion \in Nat /\ MaxCrashes \in Nat /\ MaxQueue \in Nat \ {0}

VARIABLES
  (* the atServer: survives a crash *)
  rules,      \* subjects with a rule record
  marker,     \* the policy_initialised record exists
  (* the process *)
  granted, marked, lastVer,
  pc,         \* where each thread is
  want,       \* on_admin's new_grants & all_publishers
  todo,       \* publishers persist() has still to write
  failed,     \* persist() has collected a failure
  payload,    \* the set each thread's publish() serialised
  lock,       \* AtPublisher._send_lock
  late,       \* payloads inside workers abandoned at the send deadline
  (* the wires and the receivers *)
  mail,       \* admin records on the atServer: any may arrive, in any order, again
  wire,       \* policy records on their way, per receiver
  holds,      \* the set each receiver was last given
  (* history *)
  settled,    \* the set in force was fully persisted: no WARNING was printed
  changes,    \* admin changes accepted
  crashes

store   == <<rules, marker>>
process == <<granted, marked, lastVer, pc, want, todo, failed, payload, lock, late>>
network == <<mail, wire, holds>>
history == <<settled, changes, crashes>>
vars == <<store, process, network, history>>

NoSet == [known |-> FALSE, set |-> {}]
Known(s) == [known |-> TRUE, set |-> s]

Up == pc["main"] # "off"

InitialGrantsAlwaysSeed == Seed

(* initial_grants: what a start reads from the store.                      *)
InitialGrants == IF marker THEN rules ELSE Seed

(* The names the engine may hold authorised: --grant is taken as it comes. *)
Grantable == Publishers \cup Seed

(* The rule set in force: what the engine decided, or, while it is down,   *)
(* what the next start will decide.                                        *)
InForce == IF ~Up THEN InitialGrants
           ELSE IF pc["admin"] = "update" THEN want ELSE granted

(* A thread is "hung" in a call of the rule store that never answers.      *)
Where == {"off", "idle", "update", "persist", "hung", "snap", "planner", "mirror", "listen"}

FlagsOK == {marker, marked, failed, settled} \subseteq BOOLEAN
RulesOK ==
  /\ rules \subseteq Publishers /\ granted \subseteq Grantable
  /\ want \subseteq Publishers /\ todo \subseteq Publishers
CountersOK ==
  /\ lastVer \in 0 .. MaxVersion
  /\ changes \in Nat /\ crashes \in 0 .. MaxCrashes
ThreadsOK ==
  /\ pc \in [Threads -> Where]
  /\ payload \in [Threads -> SUBSET Grantable]
  /\ lock \in Threads \cup {Nobody}
  /\ late \subseteq [to : Receivers, set : SUBSET Grantable]
NetworkOK ==
  /\ mail \subseteq Mail
  /\ wire \in [Receivers -> Seq(SUBSET Grantable)]
  /\ holds \in [Receivers -> [known : BOOLEAN, set : SUBSET Grantable]]

(* Every variable keeps its type; what the engine persists, and what an    *)
(* admin's change makes it decide, only names publishers it knows.         *)
TypeOK == FlagsOK /\ RulesOK /\ CountersOK /\ ThreadsOK /\ NetworkOK

Init ==
  /\ rules = {} /\ marker = FALSE
  /\ granted = {} /\ marked = FALSE /\ lastVer = 0
  /\ pc = [t \in Threads |-> "off"]
  /\ want = {} /\ todo = {} /\ failed = FALSE
  /\ payload = [t \in Threads |-> {}]
  /\ lock = Nobody /\ late = {}
  /\ mail = ForeignMail
  /\ wire = [r \in Receivers |-> <<>>]
  /\ holds = [r \in Receivers |-> NoSet]
  /\ settled = FALSE /\ changes = 0 /\ crashes = 0
-----------------------------------------------------------------------------
(* Starting and crashing                                                   *)

Goto(t, to) == pc' = [pc EXCEPT ![t] = to]

(* main() up to the first persist().  A store that cannot be read ends the *)
(* process with no state changed, so it is a stutter here.                 *)
Boot ==
  /\ ~Up
  /\ granted' = InitialGrants
  /\ marked' = marker
  /\ Goto("main", "persist")
  /\ todo' = Publishers /\ failed' = FALSE
  /\ UNCHANGED <<store, lastVer, want, payload, lock, late, network, history>>

(* After the first publish, successful or not, the admin thread starts.    *)
StartListening ==
  /\ pc["main"] = "listen"
  /\ pc' = [pc EXCEPT !["main"] = "idle", !["admin"] = "idle"]
  /\ UNCHANGED <<store, granted, marked, lastVer, want, todo, failed, payload, lock, late,
                 network, history>>

Crash ==
  /\ Up /\ crashes < MaxCrashes
  /\ crashes' = crashes + 1
  /\ granted' = {} /\ marked' = FALSE /\ lastVer' = 0
  /\ pc' = [t \in Threads |-> "off"]
  /\ want' = {} /\ todo' = {} /\ failed' = FALSE
  /\ payload' = [t \in Threads |-> {}]
  /\ lock' = Nobody /\ late' = {}
  /\ UNCHANGED <<store, network, settled, changes>>
-----------------------------------------------------------------------------
(* persist(): one rule record per publisher, then the marker               *)

WrittenGrantsOnly(s) == IF s \in granted THEN rules \cup {s} ELSE rules
Written(s) == IF s \in granted THEN rules \cup {s} ELSE rules \ {s}

(* store.grant(s) or store.revoke(s).  A call that raises may still have   *)
(* reached the server.                                                     *)
PersistRule(t, s) ==
  /\ pc[t] = "persist" /\ s \in todo
  /\ todo' = todo \ {s}
  /\ \/ rules' = Written(s) /\ failed' = failed
     \/ "store" \in Faults /\ rules' \in {rules, Written(s)} /\ failed' = TRUE
  /\ UNCHANGED <<marker, granted, marked, lastVer, pc, want, payload, lock, late,
                 network, history>>

(* The store's reads are unbounded: a call may reach a server that never   *)
(* answers, and persist() never comes back.                                *)
StoreHangs(t) ==
  /\ "hang" \in Faults
  /\ pc[t] = "persist"
  /\ \/ \E s \in todo : rules' \in {rules, Written(s)} /\ UNCHANGED marker
     \/ todo = {} /\ ~marked /\ marker' \in {marker, TRUE} /\ UNCHANGED rules
  /\ Goto(t, "hung")
  /\ UNCHANGED <<granted, marked, lastVer, want, todo, failed, payload, lock, late, network, history>>

MarkerPutFails == "store" \in Faults /\ marker' \in {marker, TRUE} /\ UNCHANGED <<marked, settled>>

(* The marker is written last, and tried again on every change until it    *)
(* sticks; with no failure the set in force is now settled.                *)
PersistMarker(t) ==
  /\ pc[t] = "persist" /\ todo = {}
  /\ \/ marked /\ UNCHANGED <<marked, marker>> /\ settled' = (settled \/ ~failed)
     \/ ~marked /\ marker' = TRUE /\ marked' = TRUE /\ settled' = (settled \/ ~failed)
     \/ ~marked /\ MarkerPutFails
  /\ failed' = FALSE
  /\ Goto(t, "snap")
  /\ UNCHANGED <<rules, granted, lastVer, want, todo, payload, lock, late, network,
                 changes, crashes>>
-----------------------------------------------------------------------------
(* publish(): the payload is fixed first, then sent to the planner and,    *)
(* only if that did not raise, mirrored to the admin                       *)

Serialise(t) ==
  /\ pc[t] = "snap"
  /\ payload' = [payload EXCEPT ![t] = granted]
  /\ Goto(t, "planner")
  /\ UNCHANGED <<store, granted, marked, lastVer, want, todo, failed, lock, late, network, history>>

HeartbeatUntilFirstChange == pc["main"] = "idle" /\ changes = 0 /\ Goto("main", "snap") /\
  UNCHANGED <<store, granted, marked, lastVer, want, todo, failed, payload, lock, late,
              network, history>>

(* main sleeps between heartbeats.                                         *)
Heartbeat ==
  /\ pc["main"] = "idle"
  /\ Goto("main", "snap")
  /\ UNCHANGED <<store, granted, marked, lastVer, want, todo, failed, payload, lock, late,
                 network, history>>

AcquireSendLock(t) ==
  /\ pc[t] \in Receivers /\ lock = Nobody
  /\ lock' = t
  /\ UNCHANGED <<store, granted, marked, lastVer, pc, want, todo, failed, payload, late,
                 network, history>>

AfterPublish(t) == IF t = "main" /\ pc["admin"] = "off" THEN "listen" ELSE "idle"

(* publish() is over, and its payload gone.                                *)
EndPublish(t) == Goto(t, AfterPublish(t)) /\ payload' = [payload EXCEPT ![t] = {}]

(* notify() returned: on to the mirror, if that was the planner's.         *)
Returned(t) == IF pc[t] = "planner" THEN Goto(t, "mirror") /\ UNCHANGED payload ELSE EndPublish(t)
(* notify() raised: to the planner it ends publish(), to the mirror it is  *)
(* only logged.                                                            *)
Raised(t) == EndPublish(t)

NeverReleased == UNCHANGED lock
ReleaseSendLock == lock' = Nobody

(* A record to a receiver that is not followed just leaves.                *)
Deliver(r, set) ==
  \/ r \notin Followed /\ UNCHANGED wire
  \/ /\ r \in Followed /\ Len(wire[r]) < MaxQueue
     /\ wire' = [wire EXCEPT ![r] = Append(@, set)]

(* A worker given up at the deadline still holds its payload.              *)
Abandon(r, set) == late' = IF r \in Followed THEN late \cup {[to |-> r, set |-> set]} ELSE late

SendDone(t) ==
  /\ lock = t
  /\ Deliver(pc[t], payload[t])
  /\ Returned(t)
  /\ ReleaseSendLock
  /\ UNCHANGED <<store, granted, marked, lastVer, want, todo, failed, late, mail, holds, history>>

(* The send raises: nothing was sent, or only its reply was lost, or the   *)
(* worker was abandoned at the deadline and still holds the payload.       *)
SendRaises(t) ==
  /\ lock = t
  /\ \/ "send" \in Faults /\ UNCHANGED <<wire, late>>
     \/ "lostReply" \in Faults /\ Deliver(pc[t], payload[t]) /\ UNCHANGED late
     \/ "late" \in Faults /\ Abandon(pc[t], payload[t]) /\ UNCHANGED wire
  /\ Raised(t)
  /\ ReleaseSendLock
  /\ UNCHANGED <<store, granted, marked, lastVer, want, todo, failed, mail, holds, history>>

(* notify() waited its whole deadline for the other thread's send.         *)
SendLockTimeout(t) ==
  /\ "late" \in Faults
  /\ pc[t] \in Receivers /\ lock \notin {Nobody, t}
  /\ Raised(t)
  /\ UNCHANGED <<store, granted, marked, lastVer, want, todo, failed, lock, late,
                 network, history>>

(* An abandoned worker gets through after all, or dies.                    *)
LateWorkerEnds(l) ==
  /\ l \in late
  /\ late' = late \ {l}
  /\ Deliver(l.to, l.set) \/ UNCHANGED wire
  /\ UNCHANGED <<store, granted, marked, lastVer, pc, want, todo, failed, payload, lock,
                 mail, holds, history>>
-----------------------------------------------------------------------------
(* on_admin                                                                *)

(* Names the engine does not know are left out.                            *)
NewGrants(m) == m.grants \cap Publishers

(* A record not from the admin, or not newer than the last applied, is     *)
(* dropped.  Otherwise granted.clear() -- and the heartbeat may look at    *)
(* `granted` before granted.update().                                      *)
OnAdmin(m) ==
  /\ pc["admin"] = "idle" /\ m \in mail
  /\ m.from = Admin
  /\ m.ver > lastVer
  /\ lastVer' = m.ver
  /\ want' = NewGrants(m)
  /\ granted' = {}
  /\ Goto("admin", "update")
  /\ settled' = FALSE /\ changes' = changes + 1
  /\ UNCHANGED <<store, marked, todo, failed, payload, lock, late, network, crashes>>

ApplyChange ==
  /\ pc["admin"] = "update"
  /\ granted' = want /\ want' = {}
  /\ Goto("admin", "persist")
  /\ todo' = Publishers /\ failed' = FALSE
  /\ UNCHANGED <<store, marked, lastVer, payload, lock, late, network, history>>
-----------------------------------------------------------------------------
(* The outside: the admin console pushes versioned sets; each receiver     *)
(* takes its records in the order its atServer got them.                   *)

Pushed == {m \in mail : m.from = Admin}

AdminPush(g) ==
  /\ Cardinality(Pushed) < MaxVersion
  /\ mail' = mail \cup {[from |-> Admin, ver |-> Cardinality(Pushed) + 1, grants |-> g]}
  /\ UNCHANGED <<store, process, wire, holds, history>>

Receive(r) ==
  /\ wire[r] # <<>>
  /\ holds' = [holds EXCEPT ![r] = Known(Head(wire[r]))]
  /\ wire' = [wire EXCEPT ![r] = Tail(@)]
  /\ UNCHANGED <<store, process, mail, history>>
-----------------------------------------------------------------------------
Publish(t) == Serialise(t) \/ AcquireSendLock(t) \/ SendDone(t) \/ SendRaises(t) \/ SendLockTimeout(t)
Persist(t) == (\E s \in Publishers : PersistRule(t, s)) \/ PersistMarker(t) \/ StoreHangs(t)

EngineNext ==
  \/ Boot \/ StartListening \/ Crash \/ Heartbeat \/ ApplyChange
  \/ \E t \in Threads : Persist(t) \/ Publish(t)
  \/ \E l \in late : LateWorkerEnds(l)
  \/ \E m \in mail : OnAdmin(m)

Next ==
  \/ EngineNext
  \/ \E g \in Pushes : AdminPush(g)
  \/ \E r \in Receivers : Receive(r)

(* Both threads are scheduled: a thread in persist() goes on, or hangs in  *)
(* the store, and then nothing moves it.  Every send returns or raises by  *)
(* its deadline, and a receiver drains its records.  Sends may fail again and  *)
(* again but not for ever, and nobody waits for the lock for ever: the     *)
(* heartbeat sleeps between sends (strong fairness).  Nothing restarts a   *)
(* dead engine: Boot has no fairness.                                      *)
Fairness ==
  /\ WF_vars(StartListening) /\ WF_vars(Heartbeat) /\ WF_vars(ApplyChange)
  /\ \A t \in Threads : WF_vars(Persist(t)) /\ WF_vars(Serialise(t))
  /\ \A t \in Threads : SF_vars(AcquireSendLock(t)) /\ SF_vars(SendDone(t))
  /\ \A t \in Threads : WF_vars(SendDone(t) \/ SendRaises(t))
  /\ \A r \in Receivers : WF_vars(Receive(r))

Spec == Init /\ [][Next]_vars
FairSpec == Spec /\ Fairness
-----------------------------------------------------------------------------
(* What the engine promises                                                *)

(* A grant or revocation survives a restart: once persist() has written a  *)
(* set without a WARNING, the marker is there and the records are exactly  *)
(* the known publishers of the set in force, whatever fails, hangs or      *)
(* crashes later.  (A --grant name that is no publisher has no record.)    *)
SettledSurvives == settled => marker /\ rules = InForce \cap Publishers

(* While persist() runs with no failure so far, every rule it has written  *)
(* agrees with granted -- no other thread changes either under it -- and a *)
(* process that believes the marker is there is right.                     *)
PersistProgress ==
  /\ marked => marker
  /\ \A t \in Threads : pc[t] = "persist" /\ ~failed =>
       \A s \in Publishers \ todo : s \in rules <=> s \in granted

(* Only --grant brings in a name that is no publisher, and only until the  *)
(* first change: initial_grants and on_admin keep known publishers.        *)
OnlySeedIsUnknown == granted \subseteq Publishers \/ (granted = Seed /\ lastVer = 0)

(* Who can be where: the admin thread lives only after the first publish,  *)
(* and the send lock is held only by a thread inside notify().             *)
ThreadOrder ==
  /\ pc["main"] \in {"off", "persist", "hung", "listen"} => pc["admin"] = "off"
  /\ pc["main"] # "update" /\ pc["admin"] # "listen"
  /\ \A t \in Threads : lock = t => pc[t] \in Receivers

(* The engine implements the abstract durable rule set: the publishers in  *)
(* force change only by an accepted admin change, or are lost by a crash   *)
(* before they were settled.                                               *)
Durable == INSTANCE DurableRules WITH Subjects <- Publishers, inForce <- InForce \cap Publishers
DurableSpec == Durable!Spec

(* "The engine publishes the resulting authorization set": every set a     *)
(* publish serialises is the set in force at that moment.                  *)
PublishesTheSetInForce ==
  [][\A t \in Threads : pc[t] = "snap" /\ pc'[t] = "planner" => payload'[t] = InForce]_vars

(* The engine is up and its heartbeat thread did not hang in persist(): a  *)
(* hung main thread never gets to its first publish.                       *)
Serving == Up /\ pc["main"] # "hung"

(* The planner ends up enforcing what the engine holds, however many sends *)
(* fail, for as long as the engine serves, also if on_admin hangs.         *)
PlannerCatchesUp == <>[](Serving => holds["planner"] = Known(granted))

(* on_admin comes back whatever the sends do: a change is persisted and    *)
(* its publish is over, unless the store never answers or the engine dies. *)
ChangeCompletes == pc["admin"] = "update" ~> pc["admin"] \in {"idle", "off", "hung"}
=============================================================================

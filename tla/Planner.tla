------------------------------- MODULE Planner -------------------------------
(***************************************************************************)
(* The planner process (scripts/planner_service.py with atsign/cache.py).  *)
(* Two threads: the subscriber's consumer runs on_record, the main loop    *)
(* reads the cache, plans, and pushes the route to the commuter and then   *)
(* the status to the operator.  They share only the cache, one lock        *)
(* acquisition at a time; ALLOW is the consumer's own.                     *)
(*                                                                         *)
(* A plan is abstracted to the set of publishers whose live reports it was *)
(* computed from.                                                          *)
(***************************************************************************)
EXTENDS Naturals, FiniteSets

CONSTANTS
  Sources,      \* atSigns that publish
  Kinds,        \* the kinds of record they publish: a subset of AllKinds
  LiveTTL,      \* LIVE_TRAFFIC_TTL_S, in ticks
  OldAge,       \* bound: ages are not told apart from here on
  PushFailures, \* which failures a push may meet: a subset of PushFaults
  MaxRestarts   \* bound: restarts of the planner

AllKinds == {"live_traffic", "condition"}
PushFaults == {"send", "lostReply", "late"}

ASSUME PlannerAssumption ==
  /\ LiveTTL \in Nat /\ OldAge \in Nat /\ LiveTTL < OldAge
  /\ Kinds \subseteq AllKinds /\ PushFailures \subseteq PushFaults
  /\ MaxRestarts \in Nat

Keys == Sources \X Kinds
Views == {"commuter", "operator"}

VARIABLES
  allow,      \* ALLOW
  purging,    \* just revoked publishers on_record has still to drop
  held,       \* keys with a cached record
  age,        \* ticks since each was put, 0 for what is not held
  stage,      \* the main loop: "sleep", or the view it is about to push to
  plan,       \* the publishers behind the plan being pushed
  latePushes, \* pushes inside workers abandoned at the send deadline
  shows,      \* what each view shows, as the publishers behind it
  restarts

consumer == <<allow, purging>>
cache == <<held, age>>
loop == <<stage, plan, latePushes>>
plannerVars == <<consumer, cache, loop, shows, restarts>>

(* Every variable keeps its type, and no cycle leaves its plan behind.     *)
PlannerTypeOK ==
  /\ allow \subseteq Sources /\ purging \subseteq Sources
  /\ held \subseteq Keys /\ age \in [Keys -> 0 .. OldAge]
  /\ stage \in {"sleep"} \cup Views
  /\ plan \subseteq Sources /\ (stage = "sleep" => plan = {})
  /\ latePushes \subseteq [to : Views, plan : SUBSET Sources]
  /\ shows \in [Views -> SUBSET Sources]
  /\ restarts \in 0 .. MaxRestarts

PlannerInit ==
  /\ allow = {} /\ purging = {}
  /\ held = {} /\ age = [k \in Keys |-> 0]
  /\ stage = "sleep" /\ plan = {} /\ latePushes = {}
  /\ shows = [v \in Views |-> {}]
  /\ restarts = 0
-----------------------------------------------------------------------------
(* on_record, on the consumer thread: one record at a time                 *)

RevokedAfterUpdate(grants) == grants \ grants
Revoked(grants) == allow \ grants

TrustsAnyone(sender) == TRUE
FromEngine(sender) == sender = "policy"

(* A policy record: ALLOW changes at once, the cache source by source; one *)
(* that is not the engine's is ignored.                                    *)
OnPolicy(sender, grants) ==
  /\ purging = {}
  /\ \/ FromEngine(sender) /\ purging' = Revoked(grants) /\ allow' = grants
     \/ ~FromEngine(sender) /\ UNCHANGED consumer
  /\ UNCHANGED <<cache, loop, shows, restarts>>

OnlyLiveDropped(s) == {<<s, "live_traffic">>}
Dropped(s) == {s} \X Kinds

(* What is no longer held has no age.                                      *)
ForgetAges == age' = [k \in Keys |-> IF k \in held' THEN age[k] ELSE 0]

(* cache.drop_source()                                                     *)
DropSource(s) ==
  /\ s \in purging
  /\ held' = held \ Dropped(s)
  /\ purging' = purging \ {s}
  /\ ForgetAges
  /\ UNCHANGED <<allow, loop, shows, restarts>>

NoGate(s) == TRUE
Granted(s) == s \in allow

(* A sensor or feed record: dropped unless its sender is granted.          *)
OnData(s, kind) ==
  /\ purging = {}
  /\ Granted(s)
  /\ held' = held \cup {<<s, kind>>}
  /\ age' = [age EXCEPT ![<<s, kind>>] = 0]
  /\ UNCHANGED <<consumer, loop, shows, restarts>>
-----------------------------------------------------------------------------
(* The main loop                                                           *)

ExpiresAtTTL(k) == age[k] >= LiveTTL
Expired(k) == age[k] > LiveTTL

LiveKeys == {k \in held : k[2] = "live_traffic"}

(* The records LiveTrafficController hands to the real-time node.          *)
LiveTraffic == {k \in LiveKeys : ~Expired(k)}

(* cache.get_live_traffic(), once per cycle: purge the old, read the rest. *)
Read ==
  /\ stage = "sleep"
  /\ held' = held \ {k \in LiveKeys : Expired(k)}
  /\ plan' = {k[1] : k \in LiveTraffic}
  /\ stage' = "commuter"
  /\ ForgetAges
  /\ UNCHANGED <<consumer, latePushes, shows, restarts>>

(* A view keeps nothing but the last push that reached it.                 *)
Displays(v, p) == shows' = [shows EXCEPT ![v] = p]

AfterPush(v) == IF v = "commuter" THEN "operator" ELSE "sleep"

(* Each cycle starts from nothing: the buffer of the last is reset.         *)
ToSleep(to) == stage' = to /\ plan' = IF to = "sleep" THEN {} ELSE plan

PushDone ==
  /\ stage \in Views
  /\ Displays(stage, plan)
  /\ ToSleep(AfterPush(stage))
  /\ UNCHANGED <<consumer, cache, latePushes, restarts>>

(* notify() raised: the rest of the cycle is skipped.  Nothing was sent,   *)
(* or only the reply was lost, or an abandoned worker may still send it.   *)
PushRaises ==
  /\ stage \in Views
  /\ \/ "send" \in PushFailures /\ UNCHANGED <<shows, latePushes>>
     \/ "lostReply" \in PushFailures /\ Displays(stage, plan) /\ UNCHANGED latePushes
     \/ /\ "late" \in PushFailures /\ UNCHANGED shows
        /\ latePushes' = latePushes \cup {[to |-> stage, plan |-> plan]}
  /\ ToSleep("sleep")
  /\ UNCHANGED <<consumer, cache, restarts>>

LatePush(p) ==
  /\ p \in latePushes
  /\ latePushes' = latePushes \ {p}
  /\ Displays(p.to, p.plan) \/ UNCHANGED shows
  /\ UNCHANGED <<consumer, cache, stage, plan, restarts>>
-----------------------------------------------------------------------------
Tick ==
  /\ \E k \in held : age[k] < OldAge
  /\ age' = [k \in Keys |-> IF k \in held /\ age[k] < OldAge THEN age[k] + 1 ELSE age[k]]
  /\ UNCHANGED <<consumer, held, loop, shows, restarts>>

(* A restarted planner knows nobody and holds nothing: default deny.       *)
Restart ==
  /\ restarts < MaxRestarts
  /\ restarts' = restarts + 1
  /\ allow' = {} /\ purging' = {} /\ held' = {}
  /\ stage' = "sleep" /\ plan' = {} /\ latePushes' = {}
  /\ ForgetAges
  /\ UNCHANGED shows

LoopNext == Read \/ PushDone \/ PushRaises \/ (\E p \in latePushes : LatePush(p))
DataNext == \E s \in Sources : DropSource(s) \/ (\E k \in Kinds : OnData(s, k))

(* Everything but the policy records and the restarts, which a composition *)
(* ties to the rest of the system.                                         *)
OwnNext == LoopNext \/ DataNext \/ Tick

PlannerNext ==
  \/ OwnNext \/ Restart
  \/ \E sender \in {"policy", "stranger"}, g \in SUBSET Sources : OnPolicy(sender, g)

(* Both threads are scheduled and a push does not fail for ever.           *)
OwnFairness ==
  /\ \A s \in Sources : WF_plannerVars(DropSource(s))
  /\ WF_plannerVars(Read) /\ WF_plannerVars(PushDone \/ PushRaises)
  /\ \A v \in Views : SF_plannerVars(stage = v /\ PushDone)
  /\ \A p \in [to : Views, plan : SUBSET Sources] : WF_plannerVars(LatePush(p))

PlannerSpec == PlannerInit /\ [][PlannerNext]_plannerVars
FairPlannerSpec == PlannerSpec /\ OwnFairness
-----------------------------------------------------------------------------
(* What the planner promises                                               *)

(* The cache holds nothing of a publisher that is not granted, save while  *)
(* on_record is still dropping it.                                         *)
CacheAuthorised == \A k \in held : k[1] \in allow \cup purging

(* A cycle that starts once a policy record has been handled computes its  *)
(* plan from granted publishers only.                                      *)
PlansFromGranted == [][stage = "sleep" /\ stage' = "commuter" /\ purging = {} => plan' \subseteq allow]_plannerVars

(* A report of a publisher that stays granted is there for its whole TTL:  *)
(* nothing but its age, its sender's revocation or a restart removes it.   *)
KeptForItsTTL ==
  [][\A k \in held \ held' :
       age[k] > LiveTTL \/ k[1] \in purging \/ restarts' # restarts]_plannerVars

(* A publisher that stays revoked ends up behind no route on any view.     *)
RevocationReachesViews ==
  \A s \in Sources : <>[](s \notin allow) => <>[](\A v \in Views : s \notin shows[v])
=============================================================================

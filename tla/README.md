# TLA+ models and proofs of the smart-route system

The repository is a route planner whose parts run as separate processes on
different machines and talk only through atSigns: encrypted records sent as
notifications, with an atServer holding them for whoever is offline.  A policy
engine decides who may publish traffic data, a planner turns what authorised
publishers report into a route, and two views show it.  This directory models the
parts that carry the program's own logic, checks them with TLC and proves their
main invariants with TLAPS.

Paths below are relative to `src/`; `A/` is `smart-route-planning-agent/src/`.

## 1. The system

| Component | Source | State it keeps | Operations | Module |
|---|---|---|---|---|
| Policy engine | `A/atsign/policy_engine.py` | rule records and a marker in its atServer; `granted`, `last_ver` in memory | boot, persist, publish, heartbeat, on_admin | `PolicyEngine` |
| Policy admin | `dart_client/bin/policy_admin.dart` | the mirrored set, the set asked for, attempts | toggle, chase (retry, give up), listen | `PolicyAdmin` |
| AtPublisher | `A/atsign/atsign_io.py` 200-317 | one client, a stale mark, a send lock | notify, abandon, retry | `AtPublisher` |
| AtSubscriber | `A/atsign/atsign_io.py` 320-523 | an event queue, the last epoch, the monitor | start, consume, watchdog, stop | `AtSubscriber` |
| Planner service | `scripts/planner_service.py`, `A/atsign/cache.py`, `A/controllers/live_traffic.py` | `ALLOW`, the cache with its TTLs | on_record, plan, push | `Planner` |
| Planner, real-time node | `A/agents/route_planner.py` 215-397 | the incident buffer | one search per cycle | `RouteRealtime` |
| Route console | `A/main.py`, `A/services/route_service.py`, the rest of `route_planner.py` | agent threads, the graph's state, the drawn alternatives | start, stop, one iteration | `RouteConsole` |
| Static optimizers and controllers | `A/controllers/` | none: they read the cache | look up a condition near a point | `RouteConsole` |
| Governance path | engine and planner over the policy record | both | both | `PolicyFlow` |
| Operator console | `A/atsign/operator_console.py` | the last status, the current subscriber | receive, recreate on silence, render | `OperatorConsole` |
| Client construction | `A/atsign/atsign_io.py` 143-197 | a process-wide default timeout and root connection | build, blame, redial | `ClientBuild` |
| Intersection sensor | `intersection_app/lib/` | the camera, the counter's window, the timer, what was sent last | frame, send, switch camera, settings, relaunch | `Sensor` |
| Commuter app and receiver | `commuter_app/`, `scripts/commuter_receiver.py` | the route last received | receive | a view of `Planner` |
| Feed and test publishers | `A/atsign/publishers/`, `scripts/`, `dart_client/bin/` | none | send | not modelled |
| Map drawing, GPX parsing, schema, onboarding and slide scripts | `A/utils/`, `A/schema.py`, `scripts/make_*` | none across calls | pure functions, I/O | not modelled |

How they interact: the admin page pushes a versioned set to the engine; the
engine persists it, publishes it to the planner and mirrors it to the page.
Sensors and feeds push records to the planner, which drops those of publishers
not in `ALLOW`.  Every 8 s the planner searches the routes and pushes the outcome
to the commuter and the operator.  All pushes of one process go through one
AtPublisher, all its records come out of one AtSubscriber, each on threads of
their own.  The route console is a second user of the planner's graph, in one
process with a web page.

What is hard in it:

* threads share state without locks (`granted` in the engine, `_stale` and
  `client` in the publisher, the service behind the console);
* the SDK can block for ever, so calls are abandoned at a deadline while their
  workers run on;
* connections break or fall silent and a reconnect replays;
* records are lost, late, repeated or overtaken, and repaired by heartbeats;
* a crash between two writes of a rule set;
* a frame, a switch of cameras and a timer meet between two awaits;
* a plan in hand outlives the revocation of what it was computed from;
* a watchdog retires a subscriber that is still building its client, under a
  default timeout, a lock and a root connection that every build shares.

`PROJECT.json` lists every hazard at its line with the properties that
would catch it going wrong.

## 2. Modules

### PolicyEngine, DurableRules

Two threads, `"main"` and `"admin"`, each at a point `pc[t]` of
`persist` (one record per publisher, then the marker), `publish` (serialise,
then take the send lock for the planner and again for the mirror) or idle.
`rules` and `marker` are the atServer's records and survive `Crash`; everything
else does not.  A store call that raises may have reached the server or not, and since
the store's client is a plain one with unbounded reads (lines 148, 173-186) a call may
never come back: `StoreHangs` leaves its thread at `"hung"` for good.  A
send that raises has sent nothing, or lost only its reply, or left a worker that
delivers later (`Faults`; `Abandon` leaves it, and an abandoned worker of a
receiver nobody follows is not kept).  `OnAdmin` ends at `granted.clear()` and `ApplyChange`
begins at `granted.update()`, because the heartbeat may run in between.
Any admin record may arrive in any order and more than once, also after a crash
that has put `lastVer` back to 0.  `Seed` is what `--grant` says, unfiltered (lines 126,
146): a name in it that is no publisher is granted and published, but gets no record.

`DurableRules` is the abstract specification: a set in force which, once
settled, changes only by an administrator's change.  `PolicyEngine` implements
it under `inForce <- InForce \cap Publishers`: the known publishers of the set decided or,
while the process is down, of the one its next start will read.  `settled` is a history variable: the last
persist finished with no failure.

### AtPublisher

`call[c]` is the caller in `notify()`: waiting for the lock, or holding it and
joining a worker.  `at[n]` is the worker in `_notify_once`.  `client` is the
number of the build that made `self.client`, so "the same client" is an equation.
`JoinTimesOut` abandons a worker that is not done: it sets the stale mark, frees the
lock, and the worker goes on.  `timer` and `spent` count ticks of the
current wait and of the whole call.

### AtSubscriber

The server's notifications are `epochs`, in order; `cursor` is how far the current
monitor has streamed; the queue carries raw events, decrypted ones and heartbeat
acks and outlives connections.  A reconnect is two steps, `BuildDone` and then, from
`"attach"`, `StartMonitor`; either may fail and be tried again, or never return
(`ConnectHangs`, after which `loop` is `"hung"`): the watchdog closes a monitor, and there
is none yet.  `Take` notes the epoch before the event is
handled, as `_consume` does.  `Break` ends a connection with an error or in
silence; `WatchdogTick` and `Stop` close what they find.

### Planner

`OnPolicy` changes `allow` at once and leaves the revoked publishers in `purging`,
which `DropSource` empties one at a time: the main loop takes the cache's lock in
between.  `Read` is one `get_live_traffic()`; a plan is the set of publishers
whose reports it used.  The two pushes of a cycle are `PushDone` or `PushRaises`
at `stage`; a push may also be delivered after the deadline.  A view displays the
last push that reaches it (`Displays`).

### RouteRealtime

The whole `while True` of `update_optimal_route_realtime`, called by the
planner's cycle.  A route's way is the sequence of reports it meets
(`meets[r]`), so the trackpoint loops become "the first report over the threshold".
`Init` ranges over every map of the instance and each `Cycle` over every
density.  The lengths of routes are distinct, because a tie is decided by
the iteration order of a Python set.

### RouteConsole

The agent threads of `main.py`, the service, and the graph as the control between
its nodes.  An iteration is `Wake` (which decides between the first and a later
iteration after the sleep), the nodes, `Load`, `AppendName`, `Draw` and `Put`.  `Load` looks the
route's name up and `AppendName` appends it if it was missing: two steps under no lock, so two
agents may both miss and both append (`route_service.py` 104-110).  The name is listed before
its file is read.  A stop or start clears `active`, waits for at
most 2 s and goes on: `Tell` and `StopReturns`/`Launch` are two steps and nothing
makes the thread end in between.  `lists[t]` is the list object a DIRECT node made;
`state.list` names it, so `Pop` in one call is seen by every state that
shares the list, even when the call raises.  The real-time node is what
`RouteRealtime` shows of it: any route that is not excluded may be its choice.

An OPTIMAL node uses one static optimizer up: for each track point of the current
route (`Way`) the factory's controller looks for the first report in the cache
that is near enough, each kind within its own distance.  `FindCondition` keeps the
order of insertion, so a clear report can hide an adverse one; `Optimized`
keeps the code's choice, which may fall on the current route again.  The cache is an
arbitrary member of `Caches` at every step: `main.py` starts no subscriber, so its own
cache stays empty unless something else in the process fills it.

### PolicyAdmin

One event loop: the web server's request, the timer's chase and the listener take
turns at awaits, so a step runs to its await.  `push[c]` is the
push the web server or the chase is waiting for; it may arrive before it returns
(`PushArrives`), when it returns, or never (`PushReturns`).  `age` counts timer
ticks since the change.  The engine is what `PolicyEngine` shows of it: the newest
version wins, and each of its two threads writes the set down before it waits for its turn
to send it, so `mirror` holds one set per thread.  `EngineTakes` ends at
`granted.clear()` and `EngineUpdates` begins at `granted.update()`; a `Heartbeat` in between
(`clearing`) writes down the empty set.  What is mirrored may thus be older than what was
mirrored before, torn, or lost (`MirrorLost`).  The history variable `torn` says that an
empty set was ever serialised in that way.

### ClientBuild, OperatorConsole

`ClientBuild` is `_new_bounded_client` for any number of threads: `at[b]` is
where a build is, `bounded` the default timeout it shares with the others and
`previous[b]` what it found and will put back; `instance` is the SDK's root
connection and `held[b]`, `blamed[b]` whether what the build uses, or blames, is
still that one.  A redial happens under `rootLock`, which is held through the second
attempt; a first attempt takes no lock and may lose the SDK's singleton race.

`OperatorConsole` extends it: the builds are those of the generations of
subscribers that the watchdog starts (`current`) and retires.  `loop[g]` is where
a generation's `start()` is and `consumer[g]` where its `_consume` is: retired ones go on
beside the new one, and all write `state`.  `ClientBuilt` leads to `"attach"`, where the
client is there and its monitor is not; `Attach` connects it, `NoMonitor` fails to and
`MonitorHangs` never does.  `stop()` closes the monitor it finds, so a
generation caught building its client or connecting its monitor goes on to a monitor that
nobody closes (`caught`).  The page's map is rebuilt when the route's signature changes.
`overlapped`, `caught` and `afterStop` are history variables.

### PolicyFlow

It extends `PolicyEngine` and `Planner`: what the engine's publisher put on
the planner's wire is what `on_record` handles, and strangers' policy records reach
it too.  A planner that restarts has been given nothing.  The faults of both are its own:
a policy record may be lost, or delivered after a newer one by a worker abandoned at the
deadline, and a push of a plan may fail.

### Sensor

One event loop again.  `start()` is `Restore`, `CamerasListed` and `CameraStarts` (or
`CameraFails`), one step per await; the cameras are known, and the switch button drawn,
while the first one is still being opened (`canSwitchCamera`).  `camera` is the camera of the
controller in use and `lost` those of controllers that were overwritten while they streamed,
which a switch pressed in that window leaves behind.  A camera frame (`CameraFrame`) is inside
the two ML calls, `analysed`, until `OnFrame` counts it or `FrameDropped` loses it; meanwhile the
cameras may be switched (`SwitchPressed`, `OldCameraClosed`, then `SwitchDone` or
`SwitchFails`, one step per await of `switchCamera`), settings applied and the timer
fire.  A frame is the number of boxes that pass the confidence filter and whether the
labeler saw a vehicle.  The counter's samples are a set: equal ones are one, since
the page reads only their maximum.  `Tick` is one unit of `Window`, `Throttle` and the
interval; it does not pass a timer that is due.  `Send` notes the density and the time, which
is all the page decides by; what becomes of the record is the SDK's, and the
planner's side is `Planner`'s.  A frame on which something else than the count has
changed may make the page look at the density again: `OnFrame` allows both.
`vehicleAge`, `vouched`, `carried`, `stale` and `steady` are history variables: `vouched`
says that a vehicle was recognised in the window before `cars` was counted, `carried` that
`cars` dates from before the settings in force, since Apply resets the counter and
keeps, and at once reports, the `_cars` shown.

## 3. Runs

| Run | What it shows | Bounds | Why they are enough |
|---|---|---|---|
| `engine_durable` | a settled set survives store failures, crashes and restarts; the engine implements `DurableRules`; the planner ends up with the engine's set; on_admin comes back or hangs in the store | 1 publisher, a `--grant` that also names a stranger, 1 push, 1 crash, failing and hanging stores, failing, half-failing and late sends, a stranger's record | a crash falls between the record and the marker and between any two writes of a restart, and the two threads' publishes interleave in every way; that two records can disagree with each other is left to the proofs, which cover any number of publishers and of pushes |
| `pub_bounded` | sends are kept apart; a retry is on a fresh client; the first half-read client is not inherited; every call returns | 2 callers, 2 sends, both may be abandoned, deadline of 1 tick | one worker left behind by each of two sends is the smallest case of every race on `client` and `stale` |
| `sub_deliver` | nothing is missed, all is delivered, the last delivered is the newest, silence is noticed | 2 notifications, 1 lost connection, a build or a monitor that may fail or hang | the break falls before, between and after the two, with either in the queue or in hand |
| `planner_enforce` | only authorised reports are cached and planned from; none is lost early; a revocation reaches the views | 1 publisher, 2 kinds of record, TTL 1, 1 restart, failing and late pushes | publishers do not interact in the planner's code; the proof covers any number |
| `flow_end` | end to end: the planner enforces the engine's set and nobody else's; a revocation reaches the views | 1 publisher, 1 push, 1 planner restart; any policy record lost, late or overtaken, any push to a view failing | the first record abandoned, overtaken by the change and delivered after it, with a restart before, between or after; the engine's other faults are `engine_durable`'s |
| `realtime_best` | shortest free route, else least congested; the incident marked is current; the search ends | every map of 4 routes, one or three of them ignored, on which 2 intersections are met in any order; densities 0 to 2 | a route is rejected before and after the choice, at either report, and the buffer of 2 overflows |
| `console_agents` | the highlighted route is the one proposed; ignored routes are no way around; optimizers run out; a stopped console has no thread; no name is listed twice by one agent, nor three times by two | 2 agents, 3 routes (one ignored), the code's 3 optimizers, 3 caches, any call may raise | two agents overlap and share a list that one of them empties; the caches hold nothing, something adverse of every kind, and an adverse report hidden behind a clear one |
| `console_watch` | the page ends on the planner's route and map; a retired subscriber handles one record more at most and its loop ends; the default timeout is put back and no bad root connection is kept | 2 generations, of which the first may hang in its build or while its monitor connects; 2 routes, 1 change of mind, 1 fault, queues of 1 | a retired generation beside its successor, their builds overlapping, is every race on what builds share; the proofs remove the bounds of the safety properties |
| `admin_settle` | nothing is pushed from an unknown set; no change reverts in silence; each is settled; the page catches up | 2 publishers, 2 toggles or restarts in all, 2 attempts, one mirrored record of each engine thread waiting or on its way | the two mirrored records overtake each other, either may be torn; an old and a new push with their repeats overtake each other; two publishers tell "one toggle" from "everything" |
| `sensor_report` | the gate holds; one stale frame at most after a switch; a settled density is reported | 2 cameras, frames of 0 or 1 boxes, two settings (gate on, 15 per car, every tick; gate off, 5 per car, every 2 ticks), window and throttle of 1 tick | one car is news under one setting and no news under the other, and settings change with samples in the window, a frame in the ML calls and a timer running; the proofs remove the bounds |

Two runs show disagreements between the code and what the repository says of
it; each checks one property and TLC finds a counterexample:

* `engine_torn`: a heartbeat between `granted.clear()` and `granted.update()`
  publishes an empty set that nobody decided (`policy_engine.py` 234-235, 194).
* `admin_quick`: a second toggle made before the first one's mirror is back
  undoes the first, since it is built from `granted` (`policy_admin.dart` 338).

Properties that hold only within a limit say so, and beyond it each is false in the code;
the hazards say how:

* `FirstHalfReadNotInherited` up to the first abandoned send;
* `CacheAuthorised` and `PlansFromGranted` with no purge under way;
* `EndsOnTheNewest` through one lost connection, `NothingMissed` when no two notifications
  bear one millisecond;
* `HighlightIsOptimal` while one agent runs at a time; `ListedOnce` says "once" for that case
  and "at most as often as there are agents" for the other;
* `BuiltFromEngineSet` of a set the engine decided on or, once its heartbeat has serialised the
  torn one, of the empty set; `NeverSilentlyReverted` of a change made with nothing else under way;
* `GateHolds` from the first frame counted under the settings in force: until then the page
  reports a count made under the old ones, the gate off included, although
  `sensor_page.dart` 130-131 says that the gate keeps such counts out;
* `OneStaleFrame` while no controller has been lost to a switch during `start()`: with two
  cameras streaming any number of frames are of the wrong view;
* `TimeoutRestored` while no two builds have overlapped; `BadRootDropped` and
  `ConsoleCatchesUp` unless a build hangs with the root lock held; `ConsoleCatchesUp` also
  needs routes with different signatures; `RetiredEnds` unless `stop()` caught the subscriber
  building or connecting;
* `ChangeCompletes` unless the store never answers, `PlannerCatchesUp` unless it is the
  heartbeat's own thread that hangs in it (at boot; one hung `on_admin` does no harm there);
* `EventuallyDelivered` and `SilenceIsNoticed` unless a reconnect hangs: inside the planner or the
  engine nothing watches over the watchdog.

`CHECK_DEADLOCK FALSE` is in the runs whose system may stop: the subscriber once
stopped, the publisher's callers after `MaxSends`, the flow with its bounds used up.

Every property has a mutant in `PROJECT.json`: a plausible change of one
definition under which TLC finds that property violated.

## 4. Fairness

* Threads are scheduled: weak fairness on every step a thread takes by itself.
* `PolicyEngine`, `Planner`: a send may fail again and again but not for ever
  (strong fairness on its success), since each is retried by the next heartbeat or
  cycle.  Strong fairness on the engine's lock: the heartbeat sleeps 30 s between its sends.
  Nothing restarts a dead engine, so `Boot` has none.  A thread in `persist()` goes on or
  hangs in the store; which of the two is not assumed.
* `AtPublisher`: clocks advance and a caller whose wait is over goes on.  Nothing is
  assumed of workers: `NotifyReturns` holds with every one of them blocked.
* `AtSubscriber`: the server streams what it has.  A build or a connect may fail again and
  again but not for ever (strong fairness of `BuildDone` and `StartMonitor`: the loop retries
  them), unless it hangs, which nothing rules out: the strong fairness says nothing of a
  subscriber at `"hung"`.
* `RouteConsole`: the threads run and a handler returns.  Nobody has to press a
  button.
* `OperatorConsole`: every thread runs, the planner pushes in every cycle, the page
  has a timer.  A build may fail again and again but not for ever (the loop retries it),
  and a thread that waits for the root lock gets it in the end (strong fairness, since others
  take it in between).  Failures to connect a monitor are bounded by `MaxFaults`.  A build or
  a monitor that hangs stays where it is; the generations that may are `MayHang`.
* `Sensor` has no liveness property: `SettledIsReported` bounds the delay instead.
* `PolicyAdmin`: the timer fires, `notify()` returns (the SDK's own timeout), the
  heartbeats keep coming and some get through (strong fairness).  The engine's callback is not
  assumed to take a push, since `persist()` may never have returned from the one before; once it
  has taken one, `clear()` is followed by `update()`.

## 5. Proofs

The runs are small instances; the theorems below hold for every value of the
constants that meets the module's `ASSUME`.  Every safety property the passing runs
check, invariant or action property, is stated by one of them, and so is every
module's type invariant, which the runs do not repeat.

* `GovernanceProofs`, the engine: `TypeCorrect`, `UnknownOnlyFromTheSeed`,
  `SettledRulesSurvive`, `EngineIsDurable` (refinement of `DurableRules`).  `SettledSurvives` is not
  inductive: a settled set is safe only because persist, while it runs, has written a
  prefix that agrees with `granted` (`PersistProgress`), because `marked` implies
  `marker`, and because the admin thread is off until main's first persist is over and
  main never persists again (`ThreadOrder`).  Nothing is assumed of `Seed` but that its names
  are publishers or not: what is granted may hold a stranger, and `UnknownOnlyFromTheSeed`
  (`OnlySeedIsUnknown`) says when: only as the whole `--grant` set of a first run, before
  the first change.  What is persisted, and what a change decides, are publishers.
  `DurableInv` is the conjunction of these
  with `TypeOK`.
* The planner, in the same module: `PlannerTypeCorrect`, `CacheIsAuthorised`,
  `PlansAreAuthorised`, `ReportsAreKept`, for any publishers and TTL.
* The two together, in the same module: `FlowImplementsPlanner` shows step by step that a
  planner fed by the real engine is one of those `Planner` specifies under arbitrary
  policy records (a record on the wire names what the engine may hold granted, which
  `TypeCorrect` gives), so the planner's theorems hold of it.
  `PlannerEnforcesTheSetGiven`: `ALLOW` and the set the planner holds change only
  together.  `PlansFollowTheEngine` combines the two into what a plan may use.
  `FlowIsDurable`: a planner that comes and goes on its wire leaves the engine's
  refinement intact.
* `AtPublisherProofs`: `LockSeparatesSends`, `NotifyIsBounded`, `RetryIsFresh`,
  `HalfReadIsReplaced`.
  The first rests on "a worker in its send that is not abandoned is the one the lock's holder
  joins"; the second on `timer <= Deadline` in each of the two waits; the
  third on "a worker in its second attempt has failed only on clients older than the current one".
  The fourth needs the first, the third and `HalfReadGuarded`: while the half-read client is the
  current one nobody is sending, and it is marked stale or the mark is in the hands of the
  one worker that is replacing it.  With a second abandoned send that is false in the
  code, hence its limit.
  `NotifyIsBounded` states `ReturnsWithinTwiceDeadline`, which no run repeats;
  `TypeCorrect` combines the first three.
* `AtSubscriberProofs`: `NothingIsMissed`, when epochs are distinct: the queue, the
  hand and the cursor together leave no gap above `lastEpoch` (`Gapless`).
  `TheLastRecordIsTheNewest`, when epochs are distinct and at most one connection is lost.
  It looks at the hand and the queue as one sequence, `pending`, in which a decrypted event
  precedes every raw one, since those go to the end once more (`Precedes`).  Until
  something is replayed, what is pending ascends in that order and is newer than what was
  delivered; the one replay repeats numbers but ends on the newest, so from then on
  only `EndsOn` is kept: the last call of `on_record` is for the newest record, or
  its key was given up.  `TypeCorrect` has no assumption on the epochs: the resume point is
  within what the server has because epochs are sorted and a set of numbers has a least member.
* `RouteRealtimeProofs`: `TypeCorrect`, `ShortestClearIsPicked`,
  `LeastCongestedIsPicked`, `MarkedIncidentIsCurrent`, for any map.  The invariant
  says of the search so far that every rejected route is not free, that
  `sub` is the least congested of them, and that the buffer holds only reports
  over the threshold.
* `SensorProofs`: `TypeCorrect`, `GateIsKept`, `NewViewIsFresh`,
  `SettledDensityIsReported`, for any cameras, settings, window and throttle.
  `GateInv` adds that nothing is counted before the start is over and that, under the gate in
  force, every sample above zero is as old as the last recognised vehicle at most; a count above
  zero is of such a sample or of a vehicle in the frame itself (`CountIsVouched`).  `carried` marks
  the one count this does not reach: the one kept by Apply.  `StaleInv`
  follows the old camera's frame from the ML calls through the switch: as long as `lost` is empty
  there is one controller at most, nothing new is analysed until the switch is done, and after it
  only what was in hand is of another view.
  `ReportInv` is the arithmetic of the timer: while the density is not the one last sent, the
  ticks since it changed never exceed those since the timer was set.
* `OperatorConsoleProofs`: `TypeCorrect`, `TimeoutIsRestored`,
  `RetiredHandlesOneMore`, for any number of generations, routes and faults.
  The first ties the two modules: a client is being built exactly while its
  `start()` waits for one, and no longer while it connects its monitor.  `TimeoutInv` adds that,
  while no two builds have overlapped,
  the one build under way found the default unbounded; `RetiredInv` that a
  consumer which has handled a record since the stop looks at `_running` before the next.
* `RouteConsoleProofs`: `TypeCorrect`, `NamesStayFew`, `IgnoredRoutesAreAvoided`,
  `OptimalIsHighlighted`, for any agents, routes, optimizer stack, cache and schedule of
  starts and stops.  `AvoidInv` adds to the state kept across calls the one each call
  works on from DIRECT on.  `NamesStayFew` counts, for each route, its names and the agents that
  have looked it up in vain and not appended it yet.  `OneAgent` holds until two agents overlap: the names are
  ahead of the tracks only between `Load` and `Draw`, by the route proposed, and a drawing
  whose file was not read empties both lists, so the index is that of a track there is.
* `PolicyAdminProofs`: `PushesAreBuiltFromEngineSets`, `NoChangeRevertsInSilence`,
  `ALoneToggleChangesOne`, `TypeCorrect`.
  `BuiltFromEngineSet` speaks of pushes only; `Provenance` follows the sets: what the
  page shows once synced and what is being mirrored are sets the engine decided on, or
  the empty one once it is `torn`; what is asked for, being pushed or on its way is one toggle
  from one.
  `OneSetUnderWay` is what makes a change safe that was made with nothing else under way:
  every push there is carries the set asked for, and until the engine has taken one
  nothing the page shows or will be shown is that set, so it cannot be confirmed by
  accident.  `ALoneToggleChangesOne` is what is left of the comment that `admin_quick`
  refutes.

Model-checked only: the liveness properties, since fairness and `ENABLED` are outside
the prover (`PlannerCatchesUp`, `ChangeCompletes`, `NotifyReturns`, `EventuallyDelivered`,
`SilenceIsNoticed`, `RevocationReachesViews`, `PlannerEnforcesTheRules`,
`RevocationTakesEffect`, `SearchEnds`, `OptimizersRunOut`, `AgentsStop`, `ChangeIsSettled`,
`PageCatchesUp`, `ConsoleCatchesUp`, `RetiredEnds`, `BadRootDropped`).

## 6. Not modelled

* Encryption, the SDK's protocol and the atServer: external, modelled from
  how the code uses them (may block, fail, lose, repeat, replay from an epoch).
* The HTML of the pages, logging, prompts, GPX parsing, drawing.
* The feed and test publishers, onboarding and slide scripts: each sends single
  records and keeps no state the properties are about.  `scripts/planner_run.py` can, when
  it hears no engine, send a policy record under the engine's own atSign; the
  models' engine is the only sender of such records.
* Of the commuter app the request it sends, which no handler of the planner reads.
* In `RouteConsole` the queue between agents and page, its polling and the buttons.
  An agent that raises puts its error on the queue and clears the flag under which the
  page polls (`main.py` 158, 165, 239), and `stop_agent` then leaves both buttons as they
  were (227), the start button disabled: the models let a start be pressed at any time.
* In `OperatorConsole` what a status says besides its route.
* LangGraph: the order of nodes is the graph's; where its reducer or its path map
  decides, both outcomes are in the model.

## 7. What could follow

1. The console's queue and the page's polling, in `RouteConsole`: two agents put two
   updates per 12 s, the page takes one per 8 s and drops nothing.
2. The sensor's sends in flight, composed with `Planner`'s cache, whose TTL makes a
   pause take effect; a later send can overtake an earlier one.
3. Proofs: an abstract "newest version wins" register that `PolicyAdmin` and
   `PolicyEngine` both implement; the safety core of the liveness properties (what
   decreases with every step they wait for), such as the optimizers left in
   `RouteConsole` and the attempts left in `PolicyAdmin`.

--------------------------- MODULE OperatorConsole ---------------------------
(***************************************************************************)
(* The operator's control room (atsign/operator_console.py).  A subscriber *)
(* (atsign_io.py) receives the statuses the planner pushes; a watchdog     *)
(* that has heard nothing for SILENCE_S stops it and starts another one,   *)
(* so that several generations of subscribers may be alive at once.  Their *)
(* consumers all write STATE, and a timer of the page renders it.          *)
(*                                                                         *)
(* A generation is a subscriber with its three threads; the clients are    *)
(* built as in ClientBuild.  A status is abstracted to the route in it.    *)
(***************************************************************************)
EXTENDS ClientBuild, Sequences

CONSTANTS
  MaxGenerations,  \* bound: subscribers ever started
  Routes,          \* the routes the planner may find best
  FirstBest,       \* the one it starts with
  Signature,       \* of a route: its number of points, the first and the last
  MaxPlans,        \* bound: times the planner changes its mind
  MaxQueue         \* bound: records waiting in one subscriber's queue

Generations == 1 .. MaxGenerations
LoopPlaces == {"off", "pause", "build", "attach", "live", "silent", "hung", "exited"}
NoRoute == 0   \* waiting for one

ASSUME ConsoleAssumption ==
  /\ MaxGenerations \in Nat \ {0} /\ Builders = Generations
  /\ Routes \subseteq Nat \ {NoRoute} /\ FirstBest \in Routes
  /\ Signature \in [Routes -> Nat]
  /\ {MaxPlans, MaxQueue} \subseteq Nat

VARIABLES
  best, plans, \* the planner: the route in its statuses, how often it changed
  current,     \* _subscriber
  silent,      \* nothing received for SILENCE_S: _last_rx is that old
  state,       \* STATE, its status and its points
  mapShown,    \* the map on the page, which is the cached one
  (* per generation *)
  running,     \* _running
  loop,        \* where start() is; in a monitor, "live" or blocked and "silent"; "hung"
               \* when it blocks before its monitor is connected
  queue,       \* self.q
  consumer,    \* where _consume is
  hand,        \* the record it handles
  (* history *)
  caught,      \* generations stopped with their client or monitor under construction
  afterStop    \* per generation: records handled since it was stopped

planner == <<best, plans>>
consuming == <<queue, consumer, hand>>
consoleVars == <<planner, current, silent, state, mapShown, running, loop, consuming, caught, afterStop>>
vars == <<buildVars, consoleVars>>

(* Every variable keeps its type, a client is being built exactly while    *)
(* start() waits for one, and no later generation has begun.               *)
TypeOK ==
  /\ BuildTypeOK
  /\ best \in Routes /\ plans \in 0 .. MaxPlans
  /\ current \in Generations /\ silent \in BOOLEAN
  /\ {state, mapShown} \subseteq Routes \cup {NoRoute}
  /\ running \in [Generations -> BOOLEAN]
  /\ loop \in [Generations -> LoopPlaces]
  /\ queue \in [Generations -> Seq(Routes)]
  /\ consumer \in [Generations -> {"off", "get", "handle", "ended"}]
  /\ hand \in [Generations -> Routes \cup {NoRoute}]
  /\ caught \subseteq Generations /\ afterStop \in [Generations -> Nat]
  /\ \A g \in Generations : Building(g) <=> loop[g] = "build"
  /\ \A g \in Generations : g > current => loop[g] = "off" /\ consumer[g] = "off"

(* start_subscriber() has started the first generation and the watchdog.   *)
Init ==
  /\ BuildInit
  /\ best = FirstBest /\ plans = 0
  /\ current = 1 /\ silent = FALSE
  /\ state = NoRoute /\ mapShown = NoRoute
  /\ running = [g \in Generations |-> g = 1]
  /\ loop = [g \in Generations |-> IF g = 1 THEN "pause" ELSE "off"]
  /\ queue = [g \in Generations |-> <<>>]
  /\ consumer = [g \in Generations |-> IF g = 1 THEN "get" ELSE "off"]
  /\ hand = [g \in Generations |-> NoRoute]
  /\ caught = {} /\ afterStop = [g \in Generations |-> 0]
-----------------------------------------------------------------------------
(* The planner and the network                                             *)

ChangeBest ==
  /\ plans < MaxPlans /\ plans' = plans + 1
  /\ best' \in Routes \ {best}
  /\ UNCHANGED <<buildVars, current, silent, state, mapShown, running, loop, consuming, caught, afterStop>>

(* The status of a cycle, to every live monitor by itself.  A queue nobody *)
(* reads any more is left empty.                                           *)
Push(g) ==
  /\ loop[g] = "live" /\ consumer[g] # "ended" /\ Len(queue[g]) < MaxQueue
  /\ queue' = [queue EXCEPT ![g] = Append(@, best)]
  /\ UNCHANGED <<buildVars, planner, current, silent, state, mapShown, running, loop, consumer, hand,
                 caught, afterStop>>

LoopGoes(g, from, to) == loop[g] = from /\ loop' = [loop EXCEPT ![g] = to]
UnchangedByLoop == UNCHANGED <<planner, current, silent, state, mapShown, running, consuming, caught, afterStop>>

(* A connection breaks with an error, which ends the monitor, or without.  *)
Break(g) ==
  /\ LoopGoes(g, "live", "pause") \/ LoopGoes(g, "live", "silent")
  /\ Fault /\ UnchangedByLoop
-----------------------------------------------------------------------------
(* start(), one loop per generation: a pause, a look at _running, a client,*)
(* its monitor                                                             *)

StartBuild(g) ==
  /\ running[g] /\ LoopGoes(g, "pause", "build") /\ Enter(g)
  /\ UnchangedByLoop

LeaveLoop(g) ==
  /\ ~running[g] /\ LoopGoes(g, "pause", "exited")
  /\ UNCHANGED buildVars /\ UnchangedByLoop

Build(g) == BuildStep(g) /\ UNCHANGED consoleVars

(* self.client is the new client, which has no monitor connection yet.     *)
ClientBuilt(g) == LoopGoes(g, "build", "attach") /\ BuildSucceeds(g) /\ UnchangedByLoop

NoClient(g) == LoopGoes(g, "build", "pause") /\ BuildFails(g) /\ UnchangedByLoop

(* The monitor is connected: _running is not looked at again, though       *)
(* stop() may have come meanwhile.  Or the connection breaks; or the peer  *)
(* never answers.                                                          *)
MonitorStarts(g) == LoopGoes(g, "attach", "live") /\ UNCHANGED buildVars /\ UnchangedByLoop
NoMonitor(g) == LoopGoes(g, "attach", "pause") /\ Fault /\ UnchangedByLoop
MonitorHangs(g) ==
  /\ g \in MayHang /\ LoopGoes(g, "attach", "hung")
  /\ UNCHANGED buildVars /\ UnchangedByLoop

(* The subscriber's own watchdog, which ends with _running, closes a       *)
(* silent monitor, and that unblocks it.                                   *)
CloseSilent(g) ==
  /\ running[g] /\ LoopGoes(g, "silent", "pause")
  /\ UNCHANGED buildVars /\ UnchangedByLoop

Attach(g) == MonitorStarts(g) \/ NoMonitor(g) \/ MonitorHangs(g)
Loop(g) ==
  StartBuild(g) \/ LeaveLoop(g) \/ ClientBuilt(g) \/ NoClient(g) \/ Attach(g) \/ CloseSilent(g)
-----------------------------------------------------------------------------
(* _consume, and _on_record in it                                          *)

UnchangedByConsumer == UNCHANGED <<buildVars, planner, current, mapShown, running, loop, caught>>

NeverLooks(g) == consumer' = [consumer EXCEPT ![g] = "get"] /\ queue' = queue
(* _running is looked at before q.get() waits for a second at most.        *)
LooksAgain(g) ==
  \/ running[g] /\ consumer' = [consumer EXCEPT ![g] = "get"] /\ queue' = queue
  \/ ~running[g] /\ consumer' = [consumer EXCEPT ![g] = "ended"] /\ queue' = [queue EXCEPT ![g] = <<>>]

GetTimesOut(g) ==
  /\ consumer[g] = "get" /\ queue[g] = <<>> /\ LooksAgain(g)
  /\ UNCHANGED <<silent, state, hand, afterStop>> /\ UnchangedByConsumer

GetRecord(g) ==
  /\ consumer[g] = "get" /\ queue[g] # <<>>
  /\ hand' = [hand EXCEPT ![g] = Head(queue[g])] /\ queue' = [queue EXCEPT ![g] = Tail(@)]
  /\ consumer' = [consumer EXCEPT ![g] = "handle"]
  /\ afterStop' = IF running[g] THEN afterStop ELSE [afterStop EXCEPT ![g] = @ + 1]
  /\ UNCHANGED <<silent, state>> /\ UnchangedByConsumer

(* The silence is over; update_status() and update_route().                *)
OnRecord(g) ==
  /\ consumer[g] = "handle" /\ LooksAgain(g)
  /\ silent' = FALSE /\ state' = hand[g]
  /\ hand' = [hand EXCEPT ![g] = NoRoute]
  /\ UNCHANGED afterStop /\ UnchangedByConsumer

Consume(g) == GetTimesOut(g) \/ GetRecord(g) \/ OnRecord(g)
-----------------------------------------------------------------------------
(* The console's watchdog, and the page                                    *)

Unheard == loop[current] # "live"

(* SILENCE_S go by: no live monitor to hear from, or the planner paused.   *)
FallSilent ==
  /\ ~silent /\ silent' = TRUE
  /\ (Unheard /\ UNCHANGED buildVars) \/ (~Unheard /\ Fault)
  /\ UNCHANGED <<planner, current, state, mapShown, running, loop, consuming, caught, afterStop>>

StillConnected(g) == loop[g]
(* stop() closes the monitor connection it finds: with none yet, or that   *)
(* of the client before, start() goes on.                                  *)
Disconnected(g) == IF loop[g] \in {"live", "silent"} THEN "pause" ELSE loop[g]

(* _recreate_subscriber: stop() the old one, grant a grace period, start   *)
(* the next one.  The next look comes SILENCE_S later at the earliest,     *)
(* when its threads have long been started.                                *)
Recreate ==
  /\ silent /\ silent' = FALSE
  /\ current < MaxGenerations /\ current' = current + 1
  /\ running' = [running EXCEPT ![current] = FALSE, ![current + 1] = TRUE]
  /\ loop' = [loop EXCEPT ![current] = Disconnected(current), ![current + 1] = "pause"]
  /\ consumer' = [consumer EXCEPT ![current + 1] = "get"]
  /\ caught' = IF loop[current] \in {"build", "attach", "hung"} THEN caught \cup {current} ELSE caught
  /\ UNCHANGED <<buildVars, planner, state, mapShown, queue, hand, afterStop>>

SameLength(r, s) == TRUE
SameMap(r, s) == Signature[r] = Signature[s]

(* render_map_html(): the cached map, if it has the signature of the route *)
(* to be shown, and otherwise a new one.                                   *)
RenderMap ==
  /\ state # NoRoute
  /\ mapShown' = IF mapShown # NoRoute /\ SameMap(state, mapShown) THEN mapShown ELSE state
  /\ UNCHANGED <<buildVars, planner, current, silent, state, running, loop, consuming, caught, afterStop>>
-----------------------------------------------------------------------------
Network ==
  \/ RootBreaks /\ UNCHANGED consoleVars
  \/ \E g \in Generations : Push(g) \/ Break(g) \/ (Hang(g) /\ UNCHANGED consoleVars)

Next ==
  \/ ChangeBest \/ Network \/ FallSilent \/ Recreate \/ RenderMap
  \/ \E g \in Generations : Loop(g) \/ Build(g) \/ Consume(g)

(* Every thread is scheduled, the planner pushes in every cycle, the page  *)
(* has a timer.  A build may fail again and again but not for ever (unless *)
(* it hangs), and a thread that waits for _root_lock gets it in the end.   *)
Fairness ==
  /\ WF_vars(FallSilent /\ Unheard) /\ WF_vars(Recreate) /\ WF_vars(RenderMap)
  /\ \A g \in Generations :
       /\ WF_vars(Push(g)) /\ WF_vars(Consume(g)) /\ WF_vars(Loop(g) \/ Build(g))
       /\ SF_vars(ClientBuilt(g)) /\ SF_vars(Redial(g) /\ UNCHANGED consoleVars)

Spec == Init /\ [][Next]_vars
FairSpec == Spec /\ Fairness
-----------------------------------------------------------------------------
(* What the console promises                                               *)

(* Whatever connections break, builds fail or hang, the page ends up with  *)
(* the status and the map of the planner's route -- unless a build hangs   *)
(* with _root_lock held, which no watchdog can undo.                       *)
ConsoleCatchesUp == <>[](~LockHung => state = best /\ mapShown = best)

(* A subscriber that was stopped may still handle one record, the one its  *)
(* consumer was about to take, and no other.                               *)
RetiredDeliversAtMostOnce == \A g \in Generations : afterStop[g] <= 1

(* "without leaking its threads": the loop of a subscriber that is stopped *)
(* ends, unless stop() caught it with its client under construction or     *)
(* that client's monitor not connected yet.                                *)
RetiredEnds ==
  \A g \in 1 .. MaxGenerations - 1 : g < current /\ g \notin caught ~> loop[g] = "exited"
=============================================================================

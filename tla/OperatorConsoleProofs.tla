------------------------ MODULE OperatorConsoleProofs ------------------------
(* Theorems of OperatorConsole and of the ClientBuild it uses.             *)
EXTENDS OperatorConsole, TLAPS

(* A step of a build that neither starts nor ends it.                      *)
WentOn == /\ \A b \in Builders : at'[b] # "out" <=> Building(b)
          /\ UNCHANGED <<bounded, previous, overlapped>>

(* Where the process default comes from, as long as no two builds overlap. *)
TimeoutInv ==
  ~overlapped =>
    /\ Idle => ~bounded
    /\ \A b \in Builders : Building(b) =>
         ~previous[b] /\ \A c \in Builders : Building(c) => c = b

(* A record taken after stop() is the last one: the consumer looks at      *)
(* _running before it waits for another.                                   *)
RetiredInv ==
  \A g \in Generations : afterStop[g] # 0 =>
    afterStop[g] = 1 /\ ~running[g] /\ consumer[g] \in {"handle", "ended"}
-----------------------------------------------------------------------------
(* Types                                                                   *)

USE DEF Nobody, LoopPlaces

ConsoleTypeOK ==
  /\ best \in Routes /\ plans \in 0 .. MaxPlans
  /\ current \in Generations /\ silent \in BOOLEAN
  /\ {state, mapShown} \subseteq Routes \cup {NoRoute}
  /\ running \in [Generations -> BOOLEAN]
  /\ loop \in [Generations -> LoopPlaces]
  /\ queue \in [Generations -> Seq(Routes)]
  /\ consumer \in [Generations -> {"off", "get", "handle", "ended"}]
  /\ hand \in [Generations -> Routes \cup {NoRoute}]
  /\ caught \subseteq Generations /\ afterStop \in [Generations -> Nat]
BuildingOK == \A g \in Generations : Building(g) <=> loop[g] = "build"

LaterOff == \A g \in Generations : g > current => loop[g] = "off" /\ consumer[g] = "off"

LEMMA TypeParts == TypeOK <=> BuildTypeOK /\ ConsoleTypeOK /\ BuildingOK /\ LaterOff
BY DEF TypeOK, ConsoleTypeOK, BuildingOK, LaterOff

LEMMA TypePartsNext == BuildTypeOK' /\ ConsoleTypeOK' /\ BuildingOK' /\ LaterOff' => TypeOK'
BY DEF TypeOK, ConsoleTypeOK, BuildingOK, LaterOff

LEMMA TypeInit == Init => TypeOK
<1> SUFFICES ASSUME Init PROVE TypeOK
  OBVIOUS
<1>1. BuildTypeOK
  <2>1. bounded \in BOOLEAN /\ overlapped \in BOOLEAN /\ previous \in [Builders -> BOOLEAN]
    BY Zenon DEF Init, BuildInit
  <2>2. faults \in 0 .. MaxFaults /\ instance \in {"none", "good", "bad"}
        /\ rootLock \in Builders \cup {Nobody}
    BY BuildersAssumption DEF Init, BuildInit
  <2>3. /\ at \in [Builders -> {"out", "get", "create", "lookup", "blame", "redial", "hung"}]
        /\ held \in [Builders -> {"nothing", "instance", "dropped"}]
        /\ blamed \in [Builders -> {"other", "instance"}]
    BY DEF Init, BuildInit
  <2> QED BY <2>1, <2>2, <2>3 DEF BuildTypeOK
<1>2. ConsoleTypeOK
  <2>1. silent \in BOOLEAN /\ running \in [Generations -> BOOLEAN]
    BY Zenon DEF Init
  <2>2. /\ best \in Routes /\ plans \in 0 .. MaxPlans /\ current \in Generations
        /\ {state, mapShown} \subseteq Routes \cup {NoRoute} /\ caught \subseteq Generations
    BY ConsoleAssumption DEF Init, Generations
  <2>3. /\ queue \in [Generations -> Seq(Routes)]
        /\ hand \in [Generations -> Routes \cup {NoRoute}]
        /\ afterStop \in [Generations -> Nat]
    BY DEF Init
  <2>4. loop \in [Generations -> LoopPlaces]
    BY DEF Init
  <2>5. consumer \in [Generations -> {"off", "get", "handle", "ended"}]
    BY DEF Init
  <2> QED BY <2>1, <2>2, <2>3, <2>4, <2>5 DEF ConsoleTypeOK
<1>3. BuildingOK
  BY ConsoleAssumption DEF Init, BuildInit, BuildingOK, Building
<1>4. LaterOff
  BY ConsoleAssumption DEF Init, LaterOff, Generations
<1> QED BY <1>1, <1>2, <1>3, <1>4, TypeParts

(* The build's variables keep their types in each of its actions.          *)
LEMMA BuildStepType ==
  ASSUME BuildTypeOK, NEW b \in Builders, BuildStep(b) \/ Enter(b) \/ BuildSucceeds(b) \/ BuildFails(b) \/ Hang(b)
  PROVE  BuildTypeOK'
<1>1. CASE GetInstance(b)
  BY <1>1, BuildersAssumption DEF GetInstance, BuildTypeOK, Goto
<1>2. CASE CreateInstance(b)
  BY <1>2, BuildersAssumption DEF CreateInstance, BuildTypeOK, Goto
<1>3. CASE FirstAttemptFails(b)
  BY <1>3, BuildersAssumption DEF FirstAttemptFails, BuildTypeOK, Goto
<1>4. CASE Blame(b)
  BY <1>4, BuildersAssumption DEF Blame, BuildTypeOK, Goto
<1>5. CASE Redial(b)
  BY <1>5, BuildersAssumption DEF Redial, DropInstance, BuildTypeOK, Goto
<1>6. CASE Enter(b)
  BY <1>6, BuildersAssumption DEF Enter, BuildTypeOK, Goto
<1>7. CASE EndBuild(b)
  BY <1>7, BuildersAssumption DEF EndBuild, RestoreDefault, BuildTypeOK, Goto
<1>8. CASE Hang(b)
  BY <1>8, BuildersAssumption DEF Hang, BuildTypeOK, Goto
<1> QED BY <1>1, <1>2, <1>3, <1>4, <1>5, <1>6, <1>7, <1>8 DEF BuildStep, BuildSucceeds, BuildFails

LEMMA FaultType == ASSUME BuildTypeOK, Fault \/ RootBreaks PROVE BuildTypeOK'
BY BuildersAssumption DEF Fault, RootBreaks, BuildTypeOK

(* A build that goes on leaves everybody building or not as they were.     *)
LEMMA BuildGoesOn ==
  ASSUME BuildTypeOK, NEW b \in Builders, BuildStep(b) \/ Hang(b)
  PROVE  WentOn
<1>1. \E to \in {"get", "create", "lookup", "blame", "redial", "hung"} : Goto(b, to)
  BY DEF BuildStep, GetInstance, CreateInstance, FirstAttemptFails, Blame, Redial, Hang
<1>2. Building(b)
  BY DEF BuildStep, GetInstance, CreateInstance, FirstAttemptFails, MayFail, Blame, Redial, Hang, Building
<1>3. UNCHANGED <<bounded, previous, overlapped>>
  BY DEF BuildStep, GetInstance, CreateInstance, FirstAttemptFails, Blame, Redial, Hang
<1> QED BY <1>1, <1>2, <1>3 DEF Goto, Building, WentOn, BuildTypeOK

LEMMA BuildStarts ==
  ASSUME BuildTypeOK, NEW b \in Builders, Enter(b)
  PROVE  ~Building(b) /\ \A c \in Builders : at'[c] # "out" <=> c = b \/ Building(c)
BY DEF Enter, Goto, Building, BuildTypeOK

LEMMA BuildEnds ==
  ASSUME BuildTypeOK, NEW b \in Builders, EndBuild(b)
  PROVE  \A c \in Builders : at'[c] # "out" <=> c # b /\ Building(c)
BY DEF EndBuild, Goto, Building, BuildTypeOK

(* The types of what a step of start() changes.                            *)
LEMMA LoopTypes ==
  ASSUME ConsoleTypeOK, LaterOff, NEW g \in Generations, NEW from, from # "off",
         NEW to \in LoopPlaces,
         LoopGoes(g, from, to), UnchangedByLoop
  PROVE  /\ ConsoleTypeOK' /\ LaterOff' /\ loop[g] = from
         /\ \A h \in Generations : loop'[h] = IF h = g THEN to ELSE loop[h]
<1>1. ConsoleTypeOK' /\ loop[g] = from /\ \A h \in Generations : loop'[h] = IF h = g THEN to ELSE loop[h]
  BY DEF ConsoleTypeOK, LoopGoes, UnchangedByLoop, planner, consuming
<1>2. current' = current /\ consumer' = consumer
  BY DEF UnchangedByLoop, consuming
<1> QED BY <1>1, <1>2 DEF LaterOff

LEMMA LoopStepType == ASSUME TypeOK, NEW g \in Generations, Loop(g) \/ Break(g) PROVE TypeOK'
<1> USE TypeParts, ConsoleAssumption
<1>1. CASE StartBuild(g)
  <2>1. BuildTypeOK' BY <1>1, BuildStepType DEF StartBuild
  <2>2. ConsoleTypeOK' /\ LaterOff' /\ \A h \in Generations : loop'[h] = IF h = g THEN "build" ELSE loop[h]
    BY <1>1, LoopTypes DEF StartBuild
  <2>3. \A h \in Generations : at'[h] # "out" <=> h = g \/ Building(h)
    BY <1>1, BuildStarts DEF StartBuild
  <2>4. BuildingOK' BY <2>2, <2>3 DEF BuildingOK, Building
  <2> QED BY <2>1, <2>2, <2>4 DEF TypeOK, BuildTypeOK, ConsoleTypeOK, BuildingOK, LaterOff
<1>2. CASE LeaveLoop(g) \/ CloseSilent(g) \/ Attach(g)
  <2>1. BuildTypeOK' /\ at' = at
    BY <1>2, FaultType DEF LeaveLoop, CloseSilent, Attach, MonitorStarts, NoMonitor, MonitorHangs, Fault,
                           buildVars, BuildTypeOK
  <2>2. /\ ConsoleTypeOK' /\ LaterOff' /\ loop[g] \in {"pause", "attach", "silent"}
        /\ \E to \in {"pause", "live", "hung", "exited"} :
             \A h \in Generations : loop'[h] = IF h = g THEN to ELSE loop[h]
    BY <1>2, LoopTypes DEF LeaveLoop, CloseSilent, Attach, MonitorStarts, NoMonitor, MonitorHangs
  <2>3. BuildingOK' BY <2>1, <2>2 DEF BuildingOK, Building
  <2> QED BY <2>1, <2>2, <2>3 DEF TypeOK, BuildTypeOK, ConsoleTypeOK, BuildingOK, LaterOff
<1>3. CASE ClientBuilt(g) \/ NoClient(g)
  <2>1. BuildTypeOK' /\ EndBuild(g) BY <1>3, BuildStepType DEF ClientBuilt, NoClient, BuildSucceeds, BuildFails
  <2>2. /\ ConsoleTypeOK' /\ LaterOff'
        /\ \E to \in {"pause", "attach"} : \A h \in Generations : loop'[h] = IF h = g THEN to ELSE loop[h]
    BY <1>3, LoopTypes DEF ClientBuilt, NoClient
  <2>3. \A h \in Generations : at'[h] # "out" <=> h # g /\ Building(h)
    BY <2>1, BuildEnds
  <2>4. BuildingOK' BY <2>2, <2>3 DEF BuildingOK, Building
  <2> QED BY <2>1, <2>2, <2>4 DEF TypeOK, BuildTypeOK, ConsoleTypeOK, BuildingOK, LaterOff
<1>4. CASE Break(g)
  <2>1. BuildTypeOK' /\ at' = at BY <1>4, FaultType DEF Break, Fault
  <2>2. /\ ConsoleTypeOK' /\ LaterOff' /\ loop[g] = "live"
        /\ \E to \in {"pause", "silent"} : \A h \in Generations : loop'[h] = IF h = g THEN to ELSE loop[h]
    BY <1>4, LoopTypes DEF Break
  <2>3. BuildingOK' BY <2>1, <2>2 DEF BuildingOK, Building
  <2> QED BY <2>1, <2>2, <2>3 DEF TypeOK, BuildTypeOK, ConsoleTypeOK, BuildingOK, LaterOff
<1> QED BY <1>1, <1>2, <1>3, <1>4 DEF Loop

(* What the consumer may do with its place and its queue.                  *)
LEMMA LooksAgainTypes ==
  ASSUME ConsoleTypeOK, NEW g \in Generations, LooksAgain(g)
  PROVE  /\ queue' \in [Generations -> Seq(Routes)]
         /\ consumer' \in [Generations -> {"off", "get", "handle", "ended"}]
         /\ \A h \in Generations : h # g => consumer'[h] = consumer[h]
<1>1. CASE running[g] /\ consumer' = [consumer EXCEPT ![g] = "get"] /\ queue' = queue
  BY <1>1 DEF ConsoleTypeOK
<1>2. CASE ~running[g] /\ consumer' = [consumer EXCEPT ![g] = "ended"] /\ queue' = [queue EXCEPT ![g] = <<>>]
  <2>1. <<>> \in Seq(Routes) OBVIOUS
  <2> QED BY <1>2, <2>1 DEF ConsoleTypeOK
<1> QED BY <1>1, <1>2 DEF LooksAgain

(* A build and the loops go on as they were.                               *)
LEMMA OthersKept ==
  ASSUME TypeOK, ConsoleTypeOK', LaterOff', UNCHANGED <<buildVars, loop>>
  PROVE  TypeOK'
BY TypeParts DEF TypeOK, BuildTypeOK, ConsoleTypeOK, BuildingOK, LaterOff, Building, buildVars

LEMMA ConsumeStepType == ASSUME TypeOK, NEW g \in Generations, Consume(g) PROVE TypeOK'
<1> USE TypeParts
<1>1. UNCHANGED <<buildVars, planner, current, mapShown, running, loop, caught>>
  BY DEF Consume, GetTimesOut, GetRecord, OnRecord, UnchangedByConsumer
<1>0. LaterOff'
  <2>1. ~(g > current) BY DEF Consume, GetTimesOut, GetRecord, OnRecord, LaterOff
  <2>2. \A h \in Generations : h # g => consumer'[h] = consumer[h]
    BY LooksAgainTypes DEF Consume, GetTimesOut, GetRecord, OnRecord, ConsoleTypeOK
  <2> QED BY <1>1, <2>1, <2>2 DEF LaterOff
<1>2. CASE GetTimesOut(g)
  <2>1. ConsoleTypeOK' BY <1>1, <1>2, LooksAgainTypes DEF GetTimesOut, ConsoleTypeOK, planner
  <2> QED BY <1>0, <1>1, <2>1, OthersKept
<1>3. CASE GetRecord(g)
  <2>1. queue[g] \in Seq(Routes) /\ queue[g] # <<>> BY <1>3 DEF GetRecord, ConsoleTypeOK
  <2>2. Head(queue[g]) \in Routes /\ Tail(queue[g]) \in Seq(Routes) BY <2>1
  <2>3. /\ hand' \in [Generations -> Routes \cup {NoRoute}]
        /\ queue' \in [Generations -> Seq(Routes)]
        /\ consumer' \in [Generations -> {"off", "get", "handle", "ended"}]
    BY <1>3, <2>2 DEF GetRecord, ConsoleTypeOK
  <2>4. afterStop' \in [Generations -> Nat]
    BY <1>3 DEF GetRecord, ConsoleTypeOK
  <2>5. ConsoleTypeOK' BY <1>1, <1>3, <2>3, <2>4 DEF GetRecord, ConsoleTypeOK, planner
  <2> QED BY <1>0, <1>1, <2>5, OthersKept
<1>4. CASE OnRecord(g)
  <2>1. hand' \in [Generations -> Routes \cup {NoRoute}] /\ state' \in Routes \cup {NoRoute} /\ silent' = FALSE
    BY <1>4 DEF OnRecord, ConsoleTypeOK
  <2>2. ConsoleTypeOK' BY <1>1, <1>4, <2>1, LooksAgainTypes DEF OnRecord, ConsoleTypeOK, planner
  <2> QED BY <1>0, <1>1, <2>2, OthersKept
<1> QED BY <1>2, <1>3, <1>4 DEF Consume

LEMMA PushType == ASSUME TypeOK, NEW g \in Generations, Push(g) PROVE TypeOK'
<1>1. queue[g] \in Seq(Routes) /\ best \in Routes BY TypeParts DEF ConsoleTypeOK
<1>2. Append(queue[g], best) \in Seq(Routes) BY <1>1
<1>3. queue' \in [Generations -> Seq(Routes)] BY <1>2, TypeParts DEF Push, ConsoleTypeOK
<1>4. ConsoleTypeOK' BY <1>3, TypeParts DEF Push, ConsoleTypeOK, planner
<1>5. LaterOff' BY TypeParts DEF Push, LaterOff, planner
<1> QED BY <1>4, <1>5, OthersKept DEF Push

LEMMA RecreateType == ASSUME TypeOK, Recreate PROVE TypeOK'
<1> USE TypeParts, ConsoleAssumption
<1>1. current + 1 \in Generations /\ current \in Generations /\ current + 1 # current
  BY DEF Recreate, ConsoleTypeOK, Generations
<1>2. Disconnected(current) \in LoopPlaces
  BY <1>1 DEF Disconnected, ConsoleTypeOK
<1>3. loop' \in [Generations -> LoopPlaces]
  BY <1>1, <1>2 DEF Recreate, ConsoleTypeOK
<1>4. running' \in [Generations -> BOOLEAN]
  BY <1>1, Zenon DEF Recreate, ConsoleTypeOK
<1>5. consumer' \in [Generations -> {"off", "get", "handle", "ended"}]
  BY <1>1 DEF Recreate, ConsoleTypeOK
<1>6. caught' \subseteq Generations
  BY <1>1 DEF Recreate, ConsoleTypeOK
<1>7. ConsoleTypeOK'
  BY <1>1, <1>3, <1>4, <1>5, <1>6 DEF Recreate, ConsoleTypeOK, planner
<1>8. \A h \in Generations : loop'[h] = "build" <=> loop[h] = "build"
  <2>1. loop[current + 1] = "off" BY <1>1 DEF LaterOff, Generations
  <2>2. Disconnected(current) = "build" <=> loop[current] = "build" BY DEF Disconnected
  <2> QED BY <1>1, <2>1, <2>2 DEF Recreate, ConsoleTypeOK
<1>9. LaterOff'
  <2> SUFFICES ASSUME NEW g \in Generations, g > current' PROVE loop'[g] = "off" /\ consumer'[g] = "off"
    BY DEF LaterOff
  <2>1. current' = current + 1 BY DEF Recreate
  <2>2. g # current /\ g # current + 1 /\ g > current BY <1>1, <2>1 DEF Generations
  <2>3. loop'[g] = loop[g] /\ consumer'[g] = consumer[g] BY <2>2 DEF Recreate, ConsoleTypeOK
  <2> QED BY <2>2, <2>3 DEF LaterOff
<1> QED BY <1>7, <1>8, <1>9
        DEF TypeOK, BuildTypeOK, ConsoleTypeOK, BuildingOK, LaterOff, Building, Recreate, buildVars

LEMMA TypeStep == TypeOK /\ [Next]_vars => TypeOK'
<1> SUFFICES ASSUME TypeOK, [Next]_vars PROVE TypeOK'
  OBVIOUS
<1> USE TypeParts, ConsoleAssumption
<1>1. CASE UNCHANGED vars
  BY <1>1 DEF TypeOK, BuildTypeOK, Building, vars, buildVars, consoleVars, planner, consuming
<1>2. CASE ChangeBest \/ FallSilent \/ RenderMap
  <2>1. UNCHANGED <<current, running, loop, consuming, caught, afterStop>>
    BY <1>2 DEF ChangeBest, FallSilent, RenderMap
  <2>2. best' \in Routes /\ plans' \in 0 .. MaxPlans
    BY <1>2 DEF ChangeBest, FallSilent, RenderMap, ConsoleTypeOK, planner
  <2>6. silent' \in BOOLEAN
    BY <1>2, Zenon DEF ChangeBest, FallSilent, RenderMap, ConsoleTypeOK
  <2>3. {state', mapShown'} \subseteq Routes \cup {NoRoute}
    BY <1>2 DEF ChangeBest, FallSilent, RenderMap, ConsoleTypeOK, planner
  <2>4. ConsoleTypeOK' BY <2>1, <2>2, <2>3, <2>6 DEF ConsoleTypeOK, consuming
  <2>5. BuildTypeOK' /\ at' = at
    BY <1>2, FaultType DEF ChangeBest, FallSilent, RenderMap, buildVars, BuildTypeOK, Fault
  <2> QED BY <2>1, <2>4, <2>5, TypePartsNext DEF BuildingOK, Building, LaterOff, consuming
<1>3. CASE RootBreaks /\ UNCHANGED consoleVars
  <2>1. BuildTypeOK' /\ at' = at BY <1>3, FaultType DEF RootBreaks
  <2> QED BY <1>3, <2>1, TypePartsNext
          DEF consoleVars, planner, consuming, ConsoleTypeOK, BuildingOK, Building, LaterOff
<1>4. CASE \E g \in Generations : Hang(g) /\ UNCHANGED consoleVars
  <2>1. PICK g \in Generations : Hang(g) /\ UNCHANGED consoleVars BY <1>4
  <2>2. BuildTypeOK' /\ WentOn /\ UNCHANGED consoleVars
    BY <2>1, BuildStepType, BuildGoesOn DEF Build
  <2>3. ConsoleTypeOK' /\ LaterOff'
    BY <2>2 DEF consoleVars, planner, consuming, ConsoleTypeOK, LaterOff
  <2>4. BuildingOK' BY <2>2 DEF WentOn, consoleVars, BuildingOK, Building
  <2> QED BY <2>2, <2>3, <2>4, TypePartsNext
<1>5. CASE \E g \in Generations : Build(g)
  <2>1. PICK g \in Generations : Build(g) BY <1>5
  <2>2. BuildTypeOK' /\ WentOn /\ UNCHANGED consoleVars
    BY <2>1, BuildStepType, BuildGoesOn DEF Build
  <2>3. ConsoleTypeOK' /\ LaterOff'
    BY <2>2 DEF consoleVars, planner, consuming, ConsoleTypeOK, LaterOff
  <2>4. BuildingOK' BY <2>2 DEF WentOn, consoleVars, BuildingOK, Building
  <2> QED BY <2>2, <2>3, <2>4, TypePartsNext
<1>6. CASE \E g \in Generations : Loop(g) \/ Break(g) \/ Consume(g) \/ Push(g)
  BY <1>6, LoopStepType, ConsumeStepType, PushType
<1>7. CASE Recreate
  BY <1>7, RecreateType
<1> QED BY <1>1, <1>2, <1>3, <1>4, <1>5, <1>6, <1>7 DEF Next, Network

(* Types: no client is built unasked for, no generation begins early.      *)
THEOREM TypeCorrect == Spec => []TypeOK
BY TypeInit, TypeStep, PTL DEF Spec
-----------------------------------------------------------------------------
(* The socket default timeout                                              *)

(* What every step of the console is for the builds.                       *)
LEMMA BuildCases ==
  ASSUME TypeOK, [Next]_vars
  PROVE  (\E b \in Builders : Enter(b) \/ (Building(b) /\ EndBuild(b))) \/ WentOn
<1> USE TypeParts, ConsoleAssumption
<1>1. CASE UNCHANGED vars \/ ChangeBest \/ FallSilent \/ RenderMap \/ Recreate \/ RootBreaks
  BY <1>1 DEF vars, ChangeBest, FallSilent, RenderMap, Recreate, RootBreaks, Fault, buildVars, WentOn, Building
<1>2. CASE \E g \in Generations : Push(g) \/ Break(g) \/ Consume(g)
  BY <1>2 DEF Push, Break, Fault, Consume, GetTimesOut, GetRecord, OnRecord, UnchangedByConsumer, buildVars,
              WentOn, Building
<1>3. CASE \E g \in Generations : Build(g) \/ Hang(g)
  BY <1>3, BuildGoesOn DEF Build
<1>4. CASE \E g \in Generations : LeaveLoop(g) \/ CloseSilent(g) \/ Attach(g)
  BY <1>4 DEF LeaveLoop, CloseSilent, Attach, MonitorStarts, NoMonitor, MonitorHangs, Fault, buildVars,
              WentOn, Building
<1>5. CASE \E g \in Generations : StartBuild(g)
  BY <1>5 DEF StartBuild
<1>6. CASE \E g \in Generations : ClientBuilt(g) \/ NoClient(g)
  BY <1>6 DEF ClientBuilt, NoClient, BuildSucceeds, BuildFails, MayFail, Building
<1> QED BY <1>1, <1>2, <1>3, <1>4, <1>5, <1>6 DEF Next, Network, Loop

LEMMA TimeoutStep == TypeOK /\ TimeoutInv /\ [Next]_vars => TimeoutInv'
<1> SUFFICES ASSUME TypeOK, TimeoutInv, [Next]_vars, ~overlapped'
             PROVE  /\ Idle' => ~bounded'
                    /\ \A b \in Builders : Building(b)' =>
                         ~previous'[b] /\ \A c \in Builders : Building(c)' => c = b
  BY DEF TimeoutInv
<1>0. BuildTypeOK BY TypeParts
<1>1. CASE WentOn
  BY <1>1 DEF WentOn, TimeoutInv, Idle, Building
<1>2. CASE \E b \in Builders : Enter(b)
  <2>1. PICK b \in Builders : Enter(b) BY <1>2
  <2>2. Idle /\ ~overlapped BY <2>1 DEF Enter
  <2>3. ~previous'[b] BY <1>0, <2>1, <2>2 DEF Enter, TimeoutInv, BuildTypeOK
  <2>4. \A c \in Builders : at'[c] # "out" <=> c = b BY <1>0, <2>1, <2>2, BuildStarts DEF Idle
  <2> QED BY <2>3, <2>4 DEF Idle, Building
<1>3. CASE \E b \in Builders : Building(b) /\ EndBuild(b)
  <2>1. PICK b \in Builders : Building(b) /\ EndBuild(b) BY <1>3
  <2>2. ~overlapped BY <2>1 DEF EndBuild
  <2>3. ~bounded' BY <2>1, <2>2 DEF EndBuild, RestoreDefault, TimeoutInv
  <2>4. \A c \in Builders : at'[c] = "out" BY <1>0, <2>1, <2>2, BuildEnds DEF TimeoutInv
  <2> QED BY <2>3, <2>4 DEF Building
<1> QED BY <1>1, <1>2, <1>3, BuildCases

(* As long as no two builds overlap the default timeout is put back, for   *)
(* any number of subscribers.                                              *)
THEOREM TimeoutIsRestored == Spec => []TimeoutRestored
<1>1. Init => TimeoutInv
  BY DEF Init, BuildInit, TimeoutInv, Idle, Building
<1>2. TimeoutInv => TimeoutRestored
  BY DEF TimeoutInv, TimeoutRestored
<1> QED BY <1>1, <1>2, TypeInit, TypeStep, TimeoutStep, PTL DEF Spec
-----------------------------------------------------------------------------
(* Retired subscribers                                                     *)

LEMMA RetiredStep == TypeOK /\ RetiredInv /\ [Next]_vars => RetiredInv'
<1> SUFFICES ASSUME TypeOK, RetiredInv, [Next]_vars, NEW g \in Generations, afterStop'[g] # 0
             PROVE  afterStop'[g] = 1 /\ ~running'[g] /\ consumer'[g] \in {"handle", "ended"}
  BY DEF RetiredInv
<1> USE TypeParts DEF RetiredInv
<1>1. CASE UNCHANGED <<running, consumer, afterStop>>
  BY <1>1
<1>2. CASE Recreate
  <2>1. afterStop'[g] = afterStop[g] BY <1>2 DEF Recreate
  <2>2. g # current + 1 BY <1>2, <2>1 DEF LaterOff, Recreate, ConsoleTypeOK, Generations
  <2> QED BY <1>2, <2>1, <2>2 DEF Recreate, ConsoleTypeOK
<1>3. ASSUME NEW h \in Generations, Consume(h)
      PROVE  afterStop'[g] = 1 /\ ~running'[g] /\ consumer'[g] \in {"handle", "ended"}
  <2>0. running' = running BY <1>3 DEF Consume, GetTimesOut, GetRecord, OnRecord, UnchangedByConsumer
  <2>1. CASE h # g
    BY <1>3, <2>0, <2>1, LooksAgainTypes DEF Consume, GetTimesOut, GetRecord, OnRecord, ConsoleTypeOK
  <2>2. CASE h = g /\ GetTimesOut(h)
    BY <2>2 DEF GetTimesOut
  <2>3. CASE h = g /\ GetRecord(h)
    <3>1. afterStop[g] = 0 BY <2>3 DEF GetRecord
    <3>2. ~running[g] /\ afterStop'[g] = 1 /\ consumer'[g] = "handle"
      BY <2>3, <3>1 DEF GetRecord, ConsoleTypeOK
    <3> QED BY <2>0, <3>2
  <2>4. CASE h = g /\ OnRecord(h)
    <3>1. afterStop'[g] = afterStop[g] /\ ~running[g] BY <2>4 DEF OnRecord
    <3>2. consumer'[g] = "ended" BY <2>4, <3>1 DEF OnRecord, LooksAgain, ConsoleTypeOK
    <3> QED BY <2>0, <3>1, <3>2
  <2> QED BY <1>3, <2>1, <2>2, <2>3, <2>4 DEF Consume
<1> QED
  BY <1>1, <1>2, <1>3
     DEF Next, Network, ChangeBest, RootBreaks, FallSilent, RenderMap, Push, Break, Hang, Loop, Build, StartBuild,
         LeaveLoop, ClientBuilt, NoClient, Attach, MonitorStarts, NoMonitor, MonitorHangs, CloseSilent,
         UnchangedByLoop, consoleVars, consuming, vars

(* A stopped subscriber handles one more record at most, however many of   *)
(* them there have been.                                                   *)
THEOREM RetiredHandlesOneMore == Spec => []RetiredDeliversAtMostOnce
<1>1. Init => RetiredInv
  BY DEF Init, RetiredInv
<1>2. TypeOK /\ RetiredInv => RetiredDeliversAtMostOnce
  <2> SUFFICES ASSUME RetiredInv, NEW g \in Generations PROVE afterStop[g] <= 1
    BY DEF RetiredDeliversAtMostOnce
  <2> QED BY DEF RetiredInv
<1> QED BY <1>1, <1>2, TypeInit, TypeStep, RetiredStep, PTL DEF Spec
=============================================================================

---------------------------- MODULE SensorProofs ----------------------------
(***************************************************************************)
(* Proofs about the sensor, for any number of cameras and cars, any        *)
(* settings, window, throttle and interval.                                *)
(***************************************************************************)
EXTENDS Sensor, TLAPS, FiniteSetTheorems, WellFoundedInduction

USE SensorAssumption DEF page, detector, counter, clockwork, sends, SensorSettings, CameraIds

-----------------------------------------------------------------------------
(* Counting                                                                *)

(* A nonempty set of numbers up to a bound has a maximum, and it is in it. *)
LEMMA MaxIsInSet ==
  ASSUME NEW m \in Nat, NEW S \in SUBSET (0 .. m), S # {}
  PROVE  Max(S) \in S
<1> DEFINE Above(x) == {y \in S : y > x}
           T == {Above(x) : x \in S}
<1>1. IsFiniteSet(S)
  BY FS_BoundedSetOfNaturals
<1>2. IsWellFoundedOn(StrictSubsetOrdering(S), SUBSET S)
  BY <1>1, FS_StrictSubsetOrderingWellFounded, FS_FiniteSubsetsOfFinite
<1>3. T \subseteq SUBSET S /\ T # {}
  <2>1. PICK x \in S : TRUE
    OBVIOUS
  <2>2. Above(x) \in T
    BY <2>1
  <2>3. \A t \in T : t \subseteq S
    OBVIOUS
  <2>4. QED
    BY <2>2, <2>3
<1>4. PICK t \in T : \A u \in T : <<u, t>> \notin StrictSubsetOrdering(S)
  <2> HIDE DEF T
  <2>1. QED
    BY <1>2, <1>3, WFMin
<1>5. PICK x \in S : t = Above(x)
  OBVIOUS
<1>6. ASSUME NEW y \in S PROVE x >= y
  <2>1. SUFFICES ASSUME y > x PROVE FALSE
    OBVIOUS
  <2>2. Above(y) \subseteq Above(x) /\ y \in Above(x) /\ y \notin Above(y)
    <3>1. \A z \in S : z > y => z > x
      <4>1. \A z \in 0 .. m : z > y => z > x
        BY <2>1
      <4>2. QED
        BY <4>1
    <3>2. ~(y > y)
      OBVIOUS
    <3>3. QED
      BY <2>1, <3>1, <3>2
  <2>3. <<Above(y), t>> \in StrictSubsetOrdering(S)
    BY <1>5, <2>2 DEF StrictSubsetOrdering
  <2>4. QED
    BY <1>4, <2>3
<1>7. QED
  BY <1>6 DEF Max

SampleSet == [n : 0 .. MaxCars, age : 0 .. Window]

(* What the counter reports is the count of one of its frames, or none, or *)
(* the one vehicle recognised: never more cars than a frame can hold.      *)
LEMMA CountType ==
  ASSUME NEW ss \in SUBSET SampleSet, NEW f \in Frames
  PROVE  CarsIn(ss, f) \in 0 .. MaxCars
<1>1. SmoothedCount(ss) \in 0 .. MaxCars
  <2>1. CASE ss = {}
    BY <2>1 DEF SmoothedCount
  <2>2. CASE ss # {}
    <3> DEFINE ns == {s.n : s \in ss}
    <3>1. ns \in SUBSET (0 .. MaxCars) /\ ns # {}
      BY <2>2 DEF SampleSet
    <3>2. Max(ns) \in ns
      BY <3>1, MaxIsInSet
    <3>3. QED
      BY <2>2, <3>1, <3>2 DEF SmoothedCount
  <2>3. QED
    BY <2>1, <2>2
<1>2. QED
  BY <1>1 DEF CarsIn

(* What is sent is one of the densities.                                   *)
LEMMA DensityType ==
  /\ \A s \in Settings, n \in 0 .. MaxCars : densityFor(s, n) \in Densities
  /\ 0 \in Densities
<1>1. densityFor(Default, 0) = 0
  BY DEF densityFor
<1>2. QED
  BY <1>1 DEF Densities

-----------------------------------------------------------------------------
(* Type correctness                                                        *)

(* A fresh process is well typed.                                          *)
LEMMA TypeInit == Init => TypeOK
<1> SUFFICES ASSUME Init PROVE TypeOK
  OBVIOUS
<1>1. reporting \in BOOLEAN /\ vouched \in BOOLEAN /\ carried \in BOOLEAN
  BY Zenon DEF Init
<1>2. Default.interval \in 1 .. MaxInterval
  OBVIOUS
<1>3. QED
  BY <1>1, <1>2 DEF Init, TypeOK, NoFrame

(* Arming the reports keeps the types of what it changes.                  *)
LEMMA ArmType ==
  ASSUME NEW s \in Settings, NEW n \in 0 .. MaxCars, Arm(s, n)
  PROVE  /\ reporting' \in BOOLEAN /\ every' \in 1 .. MaxInterval /\ timer' \in 0 .. MaxInterval
         /\ lastSent' \in Densities \cup {Nothing} /\ sinceSend' \in 0 .. Throttle
BY DensityType DEF Arm, Send

(* So does opening a camera.                                               *)
LEMMA OpenedType ==
  ASSUME NEW c \in CameraIds, camera \in CameraIds \cup {NoCamera}, lost \subseteq CameraIds, Opened(c)
  PROVE  camera' \in CameraIds /\ lost' \subseteq CameraIds
<1>1. {camera} \ {NoCamera} \subseteq CameraIds
  BY Zenon
<1>2. camera' = c /\ lost' = lost \cup ({camera} \ {NoCamera})
  BY DEF Opened
<1>3. QED
  BY <1>1, <1>2

(* So does a frame that is counted ...                                     *)
LEMMA FrameType ==
  ASSUME TypeOK, OnFrame
  PROVE  TypeOK'
<1>1. analysed \in Frames
  BY DEF OnFrame, TypeOK
<1>2. Counted(analysed) \in 0 .. MaxCars
  BY <1>1 DEF Counted, Frames
<1>3. samples' \in SUBSET SampleSet
  BY <1>2 DEF OnFrame, TypeOK, SampleSet
<1>4. cars' \in 0 .. MaxCars
  BY <1>1, <1>3, CountType DEF OnFrame
<1>5. lastSent' \in Densities \cup {Nothing} /\ sinceSend' \in 0 .. Throttle
  BY <1>4, DensityType DEF OnFrame, TypeOK, Send, SendNothing
<1>6. stale' \in 0 .. 2 /\ vehicleAge' \in 0 .. Window + 1 /\ steady' \in 0 .. MaxInterval
  <2>1. stale' \in 0 .. 2
    BY DEF OnFrame, TypeOK, UpTo
  <2>2. vehicleAge' \in {0, vehicleAge} /\ steady' \in {0, steady}
    BY Zenon DEF OnFrame
  <2>3. vehicleAge \in 0 .. Window + 1 /\ steady \in 0 .. MaxInterval
    BY DEF TypeOK
  <2>4. QED
    BY <2>1, <2>2, <2>3, SensorAssumption
<1>7. vouched' \in BOOLEAN /\ carried' \in BOOLEAN
  <2>1. vouched' = (vehicleAge' <= Window) /\ carried' = FALSE
    BY DEF OnFrame
  <2>2. (vehicleAge' <= Window) \in BOOLEAN
    OBVIOUS
  <2>3. QED
    BY <2>1, <2>2
<1>8. QED
  BY <1>3, <1>4, <1>5, <1>6, <1>7 DEF OnFrame, TypeOK, SampleSet

(* ... and a tick.                                                         *)
LEMMA TickType ==
  ASSUME TypeOK, Tick
  PROVE  TypeOK'
<1>1. samples' \subseteq SampleSet
  BY DEF Tick, TypeOK, InWindow, SampleSet
<1>2. /\ timer' \in 0 .. MaxInterval /\ sinceSend' \in 0 .. Throttle
      /\ vehicleAge' \in 0 .. Window + 1 /\ steady' \in 0 .. MaxInterval
  BY DEF Tick, TypeOK, UpTo
<1>3. QED
  BY <1>1, <1>2 DEF Tick, TypeOK, SampleSet

(* Every step keeps the types.                                             *)
LEMMA TypeStep == TypeOK /\ [Next]_vars => TypeOK'
<1> SUFFICES ASSUME TypeOK, [Next]_vars PROVE TypeOK'
  OBVIOUS
<1>1. CASE ToggleOn
  BY <1>1, ArmType DEF ToggleOn, TypeOK
<1>2. CASE ToggleOff
  <2>1. reporting' \in BOOLEAN
    BY <1>2, Zenon DEF ToggleOff
  <2>2. timer' \in 0 .. MaxInterval
    BY <1>2 DEF ToggleOff
  <2>3. QED
    BY <1>2, <2>1, <2>2 DEF ToggleOff, TypeOK
<1>3. CASE TimerFires
  BY <1>3, DensityType DEF TimerFires, TypeOK, Send, Density
<1>4. CASE SendNow
  BY <1>4, DensityType DEF SendNow, TypeOK, Send, Density
<1>5. CASE Clear
  BY <1>5, DensityType DEF Clear, TypeOK, Send
<1>6. CASE OnFrame
  BY <1>6, FrameType
<1>7. CASE FrameDropped
  BY <1>7 DEF FrameDropped, TypeOK
<1>8. ASSUME NEW f \in Frames, CameraFrame(f) PROVE TypeOK'
  BY <1>8 DEF CameraFrame, TypeOK
<1>9. CASE Restore
  BY <1>9 DEF Restore, Stored, TypeOK
<1>10. CASE CameraStarts
  <2>1. settings \in Settings /\ cars \in 0 .. MaxCars
    BY DEF TypeOK
  <2>2. /\ reporting' \in BOOLEAN /\ every' \in 1 .. MaxInterval /\ timer' \in 0 .. MaxInterval
        /\ lastSent' \in Densities \cup {Nothing} /\ sinceSend' \in 0 .. Throttle
    BY <1>10, <2>1, ArmType DEF CameraStarts
  <2>3. camera' \in CameraIds /\ lost' \subseteq CameraIds
    <3>1. 0 \in CameraIds /\ camera \in CameraIds \cup {NoCamera} /\ lost \subseteq CameraIds
      BY DEF TypeOK
    <3>2. Opened(0)
      BY <1>10 DEF CameraStarts
    <3>3. QED
      BY <3>1, <3>2, OpenedType
  <2>4. QED
    BY <1>10, <2>2, <2>3 DEF CameraStarts, TypeOK
<1>11. CASE CameraFails \/ CamerasListed
  BY <1>11 DEF CameraFails, CamerasListed, TypeOK
<1>12. CASE SwitchPressed
  <2>1. camera' \in CameraIds \cup {NoCamera}
    BY <1>12 DEF SwitchPressed, TypeOK
  <2>2. /\ samples' \subseteq samples /\ stale' \in 0 .. 2
        /\ switching' \in {"no", "closing", "opening"}
    BY <1>12 DEF SwitchPressed, TypeOK, ResetCounter
  <2>3. QED
    BY <1>12, <2>1, <2>2 DEF SwitchPressed, TypeOK
<1>13. CASE OldCameraClosed
  <2>1. facing' \in 0 .. Cameras - 1
    BY <1>13 DEF OldCameraClosed, TypeOK
  <2>2. QED
    BY <1>13, <2>1 DEF OldCameraClosed, TypeOK
<1>14. CASE SwitchDone
  <2>1. camera' \in CameraIds /\ lost' \subseteq CameraIds
    <3>1. facing \in CameraIds /\ camera \in CameraIds \cup {NoCamera} /\ lost \subseteq CameraIds
      BY DEF TypeOK
    <3>2. Opened(facing)
      BY <1>14 DEF SwitchDone
    <3>3. QED
      BY <3>1, <3>2, OpenedType
  <2>2. QED
    BY <1>14, <2>1 DEF SwitchDone, TypeOK, NewView, CountAfresh
<1>15. CASE SwitchFails
  BY <1>15 DEF SwitchFails, TypeOK
<1>16. ASSUME NEW s \in Settings, Apply(s) PROVE TypeOK'
  <2>1. cars \in 0 .. MaxCars /\ steady' \in 0 .. MaxInterval /\ carried' \in BOOLEAN
    BY <1>16 DEF Apply, TypeOK
  <2>2. CASE reporting
    BY <1>16, <2>1, <2>2, ArmType DEF Apply, Restart, TypeOK, ResetCounter
  <2>3. CASE ~reporting
    BY <1>16, <2>1, <2>3 DEF Apply, Restart, TypeOK, ResetCounter
  <2>4. QED
    BY <2>2, <2>3 DEF TypeOK
<1>17. CASE Relaunch
  <2>1. reporting' \in BOOLEAN /\ vouched' \in BOOLEAN /\ carried' \in BOOLEAN
    BY <1>17, Zenon DEF Relaunch
  <2>2. Default.interval \in 1 .. MaxInterval
    OBVIOUS
  <2>3. QED
    BY <1>17, <2>1, <2>2 DEF Relaunch, TypeOK, NoFrame
<1>18. CASE Tick
  BY <1>18, TickType
<1>19. CASE UNCHANGED vars
  BY <1>19 DEF vars, TypeOK
<1>20. QED
  BY <1>1, <1>2, <1>3, <1>4, <1>5, <1>6, <1>7, <1>8, <1>9, <1>10, <1>11, <1>12, <1>13, <1>14,
     <1>15, <1>16, <1>17, <1>18, <1>19 DEF Next, Camera, Operator, Starting

(* The sensor's state is well typed: in particular, no count ever exceeds  *)
(* what one frame can show (CarCounter's maximum over its window).         *)
THEOREM TypeCorrect == Spec => []TypeOK
<1>1. QED
  BY TypeInit, TypeStep, PTL DEF Spec

-----------------------------------------------------------------------------
(* The gate                                                                *)

(* Nothing is counted before the camera has started, and with the gate on  *)
(* every sample above zero is younger than the last vehicle recognised, so *)
(* that a count made of samples of the window is vouched for.              *)
SamplesVouched == settings.gateOnly => \A s \in samples : s.n > 0 => vehicleAge <= s.age
GateInv ==
  /\ phase # "ready" => samples = {} /\ cars = 0
  /\ SamplesVouched
  /\ GateHolds

(* A count above zero is of one of the samples, or of a vehicle recognised.*)
LEMMA CountIsVouched ==
  ASSUME NEW ss \in SUBSET SampleSet, NEW f \in Frames, CarsIn(ss, f) > 0
  PROVE  f.vehicle \/ \E s \in ss : s.n > 0
<1>1. SUFFICES ASSUME ~f.vehicle PROVE \E s \in ss : s.n > 0
  OBVIOUS
<1>2. ss # {} /\ SmoothedCount(ss) > 0
  BY <1>1 DEF CarsIn, SmoothedCount
<1> DEFINE ns == {s.n : s \in ss}
<1>3. ns \in SUBSET (0 .. MaxCars) /\ ns # {}
  BY <1>2 DEF SampleSet
<1>4. Max(ns) \in ns /\ Max(ns) > 0
  BY <1>2, <1>3, MaxIsInSet DEF SmoothedCount
<1>5. QED
  BY <1>4

(* Counting a frame, closed or open the gate.                              *)
LEMMA FrameKeepsGate ==
  ASSUME TypeOK, TypeOK', GateInv, OnFrame
  PROVE  GateInv'
<1>1. analysed \in Frames /\ phase = "ready" /\ phase' = "ready" /\ settings' = settings
  BY DEF OnFrame, TypeOK
<1>2. SUFFICES ASSUME settings.gateOnly
               PROVE  /\ \A s \in samples' : s.n > 0 => vehicleAge' <= s.age
                      /\ cars' > 0 => vouched'
  BY <1>1 DEF GateInv, SamplesVouched, GateHolds
<1>3. ASSUME NEW s \in samples', s.n > 0 PROVE vehicleAge' <= s.age
  <2>1. CASE s \in samples
    <3>1. vehicleAge <= s.age /\ s.age \in Nat
      BY <1>2, <1>3, <2>1 DEF GateInv, SamplesVouched, TypeOK
    <3>2. vehicleAge' = 0 \/ vehicleAge' = vehicleAge
      BY DEF OnFrame
    <3>3. QED
      BY <3>1, <3>2
  <2>2. CASE s = [n |-> Counted(analysed), age |-> 0]
    <3>1. ~analysed.vehicle => Counted(analysed) = 0
      BY <1>2, Zenon DEF Counted
    <3>2. s.n = Counted(analysed) /\ s.n # 0
      BY <1>3, <2>2
    <3>3. vehicleAge' = 0
      BY <3>1, <3>2 DEF OnFrame
    <3>4. QED
      BY <2>2, <3>3
  <2>3. QED
    BY <1>3, <2>1, <2>2 DEF OnFrame
<1>4. ASSUME cars' > 0 PROVE vouched'
  <2>1. samples' \in SUBSET SampleSet /\ cars' = CarsIn(samples', analysed)
    BY DEF OnFrame, TypeOK, SampleSet
  <2>2. analysed.vehicle \/ \E s \in samples' : s.n > 0
    BY <1>1, <1>4, <2>1, CountIsVouched
  <2>3. vehicleAge' <= Window
    <3>1. CASE analysed.vehicle
      BY <3>1 DEF OnFrame
    <3>2. CASE \E s \in samples' : s.n > 0
      <4>1. PICK s \in samples' : s.n > 0
        BY <3>2
      <4>2. vehicleAge' <= s.age /\ s.age \in 0 .. Window /\ vehicleAge' \in Nat
        BY <1>3, <2>1, <4>1 DEF SampleSet, TypeOK
      <4>3. QED
        BY <4>2
    <3>3. QED
      BY <2>2, <3>1, <3>2
  <2>4. vouched' = (vehicleAge' <= Window)
    BY DEF OnFrame
  <2>5. QED
    BY <2>3, <2>4
<1>5. QED
  BY <1>3, <1>4

(* A tick ages the samples and the last vehicle alike.                     *)
LEMMA TickKeepsGate ==
  ASSUME TypeOK, GateInv, Tick
  PROVE  GateInv'
<1>1. phase' = phase /\ settings' = settings /\ UNCHANGED <<cars, vouched, carried>>
  BY DEF Tick
<1>2. samples = {} => samples' = {}
  BY DEF Tick
<1>3. ASSUME settings.gateOnly, NEW s \in samples', s.n > 0
      PROVE  vehicleAge' <= s.age
  <2>1. PICK r \in samples : s = [r EXCEPT !.age = @ + 1]
    BY DEF Tick
  <2>2. s.n = r.n /\ s.age = r.age + 1 /\ r.age \in Nat
    BY <2>1 DEF TypeOK
  <2>3. vehicleAge <= r.age
    BY <1>3, <2>2 DEF GateInv, SamplesVouched
  <2>4. vehicleAge' <= vehicleAge + 1
    BY DEF Tick, TypeOK, UpTo
  <2>5. vehicleAge \in Nat /\ vehicleAge' \in Nat
    BY DEF Tick, TypeOK, UpTo
  <2>6. QED
    BY <2>2, <2>3, <2>4, <2>5
<1>4. QED
  BY <1>1, <1>2, <1>3 DEF GateInv, SamplesVouched, GateHolds

(* Every step keeps the gate.                                              *)
LEMMA GateStep == TypeOK /\ TypeOK' /\ GateInv /\ [Next]_vars => GateInv'
<1> SUFFICES ASSUME TypeOK, TypeOK', GateInv, [Next]_vars PROVE GateInv'
  OBVIOUS
<1> USE DEF GateInv, SamplesVouched, GateHolds
<1>1. CASE OnFrame
  BY <1>1, FrameKeepsGate
<1>2. CASE Tick
  BY <1>2, TickKeepsGate
<1>3. CASE Restore
  <2>1. samples' = {} /\ cars' = 0
    BY <1>3 DEF Restore
  <2>2. QED
    BY <2>1
<1>4. CASE CamerasListed \/ CameraStarts \/ CameraFails
  BY <1>4 DEF CamerasListed, CameraStarts, CameraFails
<1>5. CASE SwitchPressed \/ SwitchDone
  <2>1. /\ UNCHANGED <<phase, settings, vehicleAge, cars, vouched, carried>>
        /\ samples' = samples \/ samples' = {}
    BY <1>5 DEF SwitchPressed, SwitchDone, NewView, CountAfresh, ResetCounter
  <2>2. QED
    BY <2>1
<1>6. ASSUME NEW s \in Settings, Apply(s) PROVE GateInv'
  BY <1>6 DEF Apply, ResetCounter
<1>7. CASE Relaunch
  BY <1>7 DEF Relaunch
<1>8. ASSUME UNCHANGED <<phase, settings, samples, vehicleAge, cars, vouched, carried>> PROVE GateInv'
  BY <1>8
<1>9. CASE ToggleOn \/ ToggleOff \/ TimerFires \/ SendNow \/ Clear \/ FrameDropped
  BY <1>8, <1>9 DEF ToggleOn, ToggleOff, TimerFires, SendNow, Clear, FrameDropped
<1>10. CASE OldCameraClosed \/ SwitchFails \/ (\E f \in Frames : CameraFrame(f)) \/ UNCHANGED vars
  BY <1>8, <1>10 DEF OldCameraClosed, SwitchFails, CameraFrame, vars
<1>11. QED
  BY <1>1, <1>2, <1>3, <1>4, <1>5, <1>6, <1>7, <1>9, <1>10 DEF Next, Camera, Operator, Starting

(* With the gate on no count above zero is reported unless a vehicle was   *)
(* recognised in its window, from the first frame counted with the         *)
(* settings in force: for any window, whenever the gate is turned on or    *)
(* off (_onFrame and the reset in the settings sheet).                     *)
THEOREM GateIsKept == Spec => []GateHolds
<1>1. Init => GateInv
  BY DEF Init, GateInv, SamplesVouched, GateHolds
<1>2. GateInv => GateHolds
  BY DEF GateInv
<1>3. QED
  BY TypeCorrect, GateStep, <1>1, <1>2, PTL DEF Spec

-----------------------------------------------------------------------------
(* The switch of cameras                                                   *)

(* Nothing is counted before start() is over.  As long as no controller    *)
(* was lost only the camera in use streams, so that a frame of another one *)
(* is the one that was being analysed when the view became the new one.    *)
StaleInv ==
  /\ phase # "ready" => stale = 0
  /\ OneStaleFrame
  /\ camera # NoCamera /\ lost = {} /\ analysed # NoFrame /\ analysed.cam # camera => stale = 0

(* Every step keeps it.                                                    *)
LEMMA StaleStep == TypeOK /\ StaleInv /\ [Next]_vars => StaleInv'
<1> SUFFICES ASSUME TypeOK, StaleInv, [Next]_vars PROVE StaleInv'
  OBVIOUS
<1> USE DEF StaleInv, OneStaleFrame
<1>1. CASE OnFrame
  <2>1. /\ phase = "ready" /\ phase' = "ready" /\ analysed # NoFrame /\ analysed' = NoFrame
        /\ UNCHANGED <<camera, lost>>
    BY <1>1 DEF OnFrame
  <2>2. camera # NoCamera /\ lost = {} => stale' <= 1
    BY <1>1, <2>1 DEF OnFrame, TypeOK, UpTo
  <2>3. QED
    BY <2>1, <2>2
<1>2. ASSUME NEW f \in Frames, CameraFrame(f) PROVE StaleInv'
  BY <1>2 DEF CameraFrame
<1>3. CASE FrameDropped
  BY <1>3 DEF FrameDropped
<1>4. CASE Restore \/ CamerasListed \/ CameraFails
  BY <1>4 DEF Restore, CamerasListed, CameraFails
<1>5. CASE CameraStarts
  <2>1. stale = 0 /\ stale' = 0 /\ phase' = "ready"
    BY <1>5 DEF CameraStarts
  <2>2. QED
    BY <2>1
<1>6. CASE SwitchPressed
  <2>1. CASE switching = "no"
    BY <1>6, <2>1 DEF SwitchPressed
  <2>2. CASE switching # "no"
    BY <1>6, <2>2 DEF SwitchPressed, ResetCounter
  <2>3. QED
    BY <2>1, <2>2
<1>7. CASE SwitchDone
  BY <1>7 DEF SwitchDone, NewView, CountAfresh
<1>8. ASSUME NEW s \in Settings, Apply(s) PROVE StaleInv'
  BY <1>8 DEF Apply, ResetCounter
<1>9. CASE Relaunch
  BY <1>9 DEF Relaunch
<1>10. ASSUME UNCHANGED <<phase, camera, lost, analysed, stale>> PROVE StaleInv'
  BY <1>10
<1>11. CASE ToggleOn \/ ToggleOff \/ TimerFires \/ SendNow \/ Clear
  BY <1>10, <1>11 DEF ToggleOn, ToggleOff, TimerFires, SendNow, Clear
<1>12. CASE OldCameraClosed \/ SwitchFails \/ Tick \/ UNCHANGED vars
  BY <1>10, <1>12 DEF OldCameraClosed, SwitchFails, Tick, vars
<1>13. QED
  BY <1>1, <1>2, <1>3, <1>4, <1>5, <1>6, <1>7, <1>8, <1>9, <1>11, <1>12
     DEF Next, Camera, Operator, Starting

(* After a switch at most one frame of the old view is counted, however    *)
(* long the analysis of it takes, unless a switch during start() has left  *)
(* two cameras streaming (_switchCamera, _openCamera, _onCameraFrame).     *)
THEOREM NewViewIsFresh == Spec => []OneStaleFrame
<1>1. Init => StaleInv
  BY DEF Init, StaleInv, OneStaleFrame
<1>2. StaleInv => OneStaleFrame
  BY DEF StaleInv, OneStaleFrame
<1>3. QED
  BY TypeCorrect, StaleStep, <1>1, <1>2, PTL DEF Spec

-----------------------------------------------------------------------------
(* Reports                                                                 *)

(* Since the timer was last set the present density has been sent or has   *)
(* come up, and from start() on the timer runs at the interval set.        *)
ReportInv ==
  /\ phase = "ready" /\ reporting => every = settings.interval
  /\ reporting => timer <= every
  /\ reporting /\ lastSent # Density => steady <= every - timer

(* Arming the reports establishes it.                                      *)
LEMMA ArmReports ==
  ASSUME TypeOK, TypeOK', Arm(settings', cars')
  PROVE  ReportInv'
BY DEF Arm, Send, ReportInv, Density, TypeOK

(* A change of the density that nothing reports is a new one, and what is  *)
(* sent is the density at that moment.                                     *)
LEMMA ChangeKeepsReports ==
  ASSUME TypeOK, TypeOK', ReportInv, UNCHANGED clockwork,
         phase' = "ready" /\ reporting' => settings'.interval = settings.interval /\ phase = "ready",
         lastSent' = Density' \/ lastSent' = lastSent,
         steady' = IF Density' = Density THEN steady ELSE 0
  PROVE  ReportInv'
<1>1. (phase = "ready" /\ reporting => every = settings.interval)'
  BY DEF ReportInv
<1>2. (reporting => timer <= every)'
  BY DEF ReportInv
<1>3. (reporting /\ lastSent # Density => steady <= every - timer)'
  <2>1. CASE Density' = Density
    BY <2>1 DEF ReportInv
  <2>2. CASE Density' # Density
    BY <1>2, <2>2 DEF TypeOK
  <2>3. QED
    BY <2>1, <2>2
<1>4. QED
  BY <1>1, <1>2, <1>3 DEF ReportInv

(* Every step keeps it.                                                    *)
LEMMA ReportStep == TypeOK /\ TypeOK' /\ ReportInv /\ [Next]_vars => ReportInv'
<1> SUFFICES ASSUME TypeOK, TypeOK', ReportInv, [Next]_vars PROVE ReportInv'
  OBVIOUS
<1>1. CASE ToggleOn \/ CameraStarts
  BY <1>1, ArmReports DEF ToggleOn, CameraStarts
<1>2. CASE ToggleOff \/ Relaunch
  <2>1. ~reporting'
    BY <1>2 DEF ToggleOff, Relaunch
  <2>2. QED
    BY <2>1 DEF ReportInv
<1>3. CASE TimerFires
  BY <1>3 DEF TimerFires, Send, ReportInv, Density, TypeOK
<1>4. CASE SendNow
  BY <1>4 DEF SendNow, Send, ReportInv, Density
<1>5. CASE Clear
  BY <1>5 DEF Clear, Send, ReportInv, TypeOK
<1>6. CASE OnFrame
  <2>1. UNCHANGED <<phase, settings>> /\ UNCHANGED clockwork
    BY <1>6 DEF OnFrame
  <2>2. Density' = densityFor(settings, cars')
    BY <2>1 DEF Density
  <2>3. lastSent' = Density' \/ lastSent' = lastSent
    BY <1>6, <2>2 DEF OnFrame, Send, SendNothing
  <2>4. steady' = IF Density' = Density THEN steady ELSE 0
    BY <1>6, <2>2 DEF OnFrame
  <2>5. QED
    BY <2>1, <2>3, <2>4, ChangeKeepsReports
<1>7. CASE Restore
  <2>1. phase' = "listing" /\ UNCHANGED clockwork /\ lastSent' = lastSent
    BY <1>7 DEF Restore
  <2>2. steady' = IF Density' = Density THEN steady ELSE 0
    BY <1>7 DEF Restore, Density
  <2>3. QED
    BY <2>1, <2>2, ChangeKeepsReports
<1>8. ASSUME NEW s \in Settings, Apply(s) PROVE ReportInv'
  <2>1. settings' = s /\ cars' = cars
    BY <1>8 DEF Apply
  <2>2. CASE reporting
    BY <1>8, <2>1, <2>2, ArmReports DEF Apply, Restart
  <2>3. CASE ~reporting
    BY <1>8, <2>3 DEF Apply, Restart, ReportInv
  <2>4. QED
    BY <2>2, <2>3
<1>9. CASE Tick
  BY <1>9 DEF Tick, ReportInv, Density, TypeOK, UpTo
<1>10. CASE CameraFails \/ CamerasListed
  BY <1>10 DEF CameraFails, CamerasListed, ReportInv, Density
<1>11. ASSUME UNCHANGED <<phase, settings, cars, clockwork, sends, steady>> PROVE ReportInv'
  BY <1>11 DEF ReportInv, Density
<1>12. CASE FrameDropped \/ (\E f \in Frames : CameraFrame(f)) \/ UNCHANGED vars
  BY <1>11, <1>12 DEF FrameDropped, CameraFrame, vars
<1>13. CASE SwitchPressed \/ OldCameraClosed \/ SwitchDone \/ SwitchFails
  BY <1>11, <1>13 DEF SwitchPressed, OldCameraClosed, SwitchDone, SwitchFails
<1>14. QED
  BY <1>1, <1>2, <1>3, <1>4, <1>5, <1>6, <1>7, <1>8, <1>9, <1>10, <1>12, <1>13
     DEF Next, Camera, Operator, Starting

(* A density that stays for an interval is the one last sent, whatever the *)
(* throttle held back and however the interval was changed meanwhile.      *)
THEOREM SettledDensityIsReported == Spec => []SettledIsReported
<1>1. Init => ReportInv
  BY DEF Init, ReportInv
<1>2. TypeOK /\ ReportInv => SettledIsReported
  BY DEF TypeOK, ReportInv, SettledIsReported
<1>3. QED
  BY TypeCorrect, ReportStep, <1>1, <1>2, PTL DEF Spec
=============================================================================

------------------------------- MODULE Sensor -------------------------------
(***************************************************************************)
(* The intersection sensor (intersection_app/lib): the camera pipeline     *)
(* (vehicle_detector.dart), the counter (car_counter.dart) and the page    *)
(* that reports a density to the planner (sensor_page.dart).  One event    *)
(* loop: a step runs to its await.  The page lives as long as its process. *)
(*                                                                         *)
(* A frame is the number of its boxes that pass the confidence filter and  *)
(* whether the labeler recognised a vehicle.  Left out: the texts shown,   *)
(* the tallies of sends, and which planner and intersection a report names.*)
(***************************************************************************)
EXTENDS Integers, FiniteSetsExt

CONSTANTS
  Cameras,      \* the number of cameras
  MaxCars,      \* bound: boxes in a frame
  Settings,     \* the settings an operator may choose
  Default,      \* those of a page that has not restored any
  Window,       \* CarCounter.window, in ticks
  Throttle,     \* least time before a change is reported, in ticks
  MaxInterval,  \* bound: the longest report interval, in ticks
  Crossing,     \* the planner's threshold: 10
  BigMove       \* a change worth reporting at once: 15

(* What a SensorSettings decides here; text that cannot be read is one, too.*)
SensorSettings == [gateOnly : BOOLEAN, perCar : Nat, interval : 1 .. MaxInterval]

ASSUME SensorAssumption ==
  /\ Cameras \in Nat \ {0} /\ MaxCars \in Nat \ {0} /\ Window \in Nat /\ Throttle \in Nat
  /\ MaxInterval \in Nat \ {0} /\ Crossing \in Nat /\ BigMove \in Nat
  /\ Settings \subseteq SensorSettings
  /\ Default \in Settings

VARIABLES
  phase,      \* "restoring" the settings, "listing" the cameras, "opening" the first one,
              \* "ready", "failed" to open it, or "blind": no camera was found
  settings,
  facing,     \* _cameraIndex
  camera,     \* the camera of the controller `_camera`, or NoCamera
  lost,       \* cameras that stream and whose controller nothing refers to any more
  switching,  \* "no", or what switchCamera() awaits: "closing" or "opening"
  analysed,   \* the frame inside the two ML calls (_busy), or NoFrame
  samples,    \* the counter's; equal samples are one, for only their maximum is read
  cars,       \* _cars
  reporting,
  every,      \* period of the running timer
  timer,      \* ticks until it fires
  lastSent,   \* _lastSentDensity
  sinceSend,  \* ticks since _lastSendAt, up to Throttle
  (* history *)
  vehicleAge, \* ticks since a frame with a vehicle was counted, up to Window + 1
  vouched,    \* `cars` was counted with a vehicle recognised in the window before
  carried,    \* `cars` was counted before the settings in force were applied
  stale,      \* counted frames, up to 2, that are not of the camera in use
  steady      \* ticks since the density changed or Clear was pressed, up to MaxInterval

page == <<phase, settings>>
detector == <<facing, camera, lost, switching, analysed>>
counter == <<samples, cars, vehicleAge, vouched, carried, stale>>
clockwork == <<reporting, every, timer>>
sends == <<lastSent, sinceSend>>
vars == <<page, detector, counter, clockwork, sends, steady>>

CameraIds == 0 .. Cameras - 1
NoCamera == -1
NoFrame == [cam |-> NoCamera, n |-> 0, vehicle |-> FALSE]
Frames == [cam : CameraIds, n : 0 .. MaxCars, vehicle : BOOLEAN]
Nothing == -1

UpTo(n, limit) == IF n > limit THEN limit ELSE n

densityFor(s, n) == n * s.perCar
Density == densityFor(settings, cars)
Densities == {densityFor(s, n) : s \in Settings, n \in 0 .. MaxCars}

TypeOK ==
  /\ phase \in {"restoring", "listing", "opening", "ready", "failed", "blind"}
  /\ settings \in Settings
  /\ facing \in CameraIds /\ camera \in CameraIds \cup {NoCamera} /\ lost \subseteq CameraIds
  /\ switching \in {"no", "closing", "opening"}
  /\ analysed \in Frames \cup {NoFrame}
  /\ samples \subseteq [n : 0 .. MaxCars, age : 0 .. Window] /\ cars \in 0 .. MaxCars
  /\ reporting \in BOOLEAN /\ every \in 1 .. MaxInterval /\ timer \in 0 .. MaxInterval
  /\ lastSent \in Densities \cup {Nothing} /\ sinceSend \in 0 .. Throttle
  /\ vehicleAge \in 0 .. Window + 1 /\ vouched \in BOOLEAN /\ carried \in BOOLEAN
  /\ stale \in 0 .. 2 /\ steady \in 0 .. MaxInterval

(* A process that has just been started; nothing was ever sent.            *)
Init ==
  /\ phase = "restoring" /\ settings = Default
  /\ facing = 0 /\ camera = NoCamera /\ lost = {} /\ switching = "no" /\ analysed = NoFrame
  /\ samples = {} /\ cars = 0 /\ stale = 0
  /\ vehicleAge = Window + 1 /\ vouched = FALSE /\ carried = FALSE
  /\ reporting = FALSE /\ every = Default.interval /\ timer = 0
  /\ lastSent = Nothing /\ sinceSend = Throttle /\ steady = 0
-----------------------------------------------------------------------------
(* Reporting                                                               *)

(* _send: what was sent last and when is noted before the await.           *)
Send(d) == lastSent' = d /\ sinceSend' = 0
SendNothing == UNCHANGED sends

(* _toggleReporting(true): any timer is cancelled, a report goes out and a *)
(* timer starts at the interval now set.                                   *)
Arm(s, n) ==
  /\ reporting' = TRUE /\ every' = s.interval /\ timer' = s.interval
  /\ Send(densityFor(s, n))

ToggleOn ==
  /\ ~reporting
  /\ Arm(settings, cars)
  /\ UNCHANGED <<page, detector, counter, steady>>

ToggleOff ==
  /\ reporting
  /\ reporting' = FALSE /\ timer' = 0
  /\ UNCHANGED <<page, detector, counter, every, sends, steady>>

TimerFires ==
  /\ reporting /\ timer = 0
  /\ timer' = every
  /\ Send(Density)
  /\ UNCHANGED <<page, detector, counter, reporting, every, steady>>

(* The buttons below the preview.                                          *)
SendNow == Send(Density) /\ UNCHANGED <<page, detector, counter, clockwork, steady>>
Clear == Send(0) /\ steady' = 0 /\ UNCHANGED <<page, detector, counter, clockwork>>
-----------------------------------------------------------------------------
(* Counting                                                                *)

CountedUngated(f) == f.n
Counted(f) == IF settings.gateOnly /\ ~f.vehicle THEN 0 ELSE f.n

(* The counter over its window, and the one vehicle the labeler vouches for.*)
SmoothedCount(ss) == IF ss = {} THEN 0 ELSE Max({s.n : s \in ss})
CarsIn(ss, f) == IF SmoothedCount(ss) = 0 /\ f.vehicle THEN 1 ELSE SmoothedCount(ss)

Crosses(d) == (d > Crossing) # (lastSent > Crossing)
MovedALot(d) == d - lastSent >= BigMove \/ lastSent - d >= BigMove

(* _maybeSendOnChange                                                      *)
ReportsChange(d) ==
  reporting /\ d # lastSent /\ (Crosses(d) \/ MovedALot(d)) /\ sinceSend >= Throttle

(* The ML calls are over: the frame is counted, and if anything shown has  *)
(* changed (the labels and boxes count, too) the change may be reported.   *)
OnFrame ==
  /\ analysed # NoFrame /\ phase = "ready"
  /\ analysed' = NoFrame
  /\ samples' = samples \cup {[n |-> Counted(analysed), age |-> 0]}
  /\ cars' = CarsIn(samples', analysed)
  /\ LET d == densityFor(settings, cars')
     IN  \/ ReportsChange(d) /\ Send(d)
         \/ (~ReportsChange(d) \/ cars' = cars) /\ SendNothing
  /\ steady' = IF densityFor(settings, cars') = Density THEN steady ELSE 0
  /\ vehicleAge' = IF analysed.vehicle THEN 0 ELSE vehicleAge
  /\ vouched' = (vehicleAge' <= Window) /\ carried' = FALSE
  /\ stale' = IF analysed.cam = camera THEN stale ELSE UpTo(stale + 1, 2)
  /\ UNCHANGED <<page, facing, camera, lost, switching, clockwork>>

(* A call raises, or nobody listens to the frames: start() is not over.    *)
FrameDropped ==
  /\ analysed # NoFrame
  /\ analysed' = NoFrame
  /\ UNCHANGED <<page, facing, camera, lost, switching, counter, clockwork, sends, steady>>

(* _onCameraFrame, up to the ML calls.  With `_camera` null there is no    *)
(* image to analyse; otherwise any stream's frame will do.  Sampling is a  *)
(* frame that does not come.                                               *)
CameraFrame(f) ==
  /\ analysed = NoFrame /\ switching = "no" /\ camera # NoCamera
  /\ f.cam \in lost \cup {camera}
  /\ analysed' = f
  /\ UNCHANGED <<page, facing, camera, lost, switching, counter, clockwork, sends, steady>>
-----------------------------------------------------------------------------
(* Starting, switching cameras, settings                                   *)

(* SettingsStore: a save may fail and a load be late, so a restart finds   *)
(* any settings saved before, or the defaults.                             *)
Stored == Settings

Restore ==
  /\ phase = "restoring" /\ phase' = "listing"
  /\ settings' \in Stored
  /\ steady' = IF densityFor(settings', cars) = Density THEN steady ELSE 0
  /\ UNCHANGED <<detector, counter, clockwork, sends>>

(* start(): the cameras are known before the first one is opened ...       *)
CamerasListed ==
  /\ phase = "listing" /\ phase' \in {"opening", "blind"}
  /\ UNCHANGED <<settings, detector, counter, clockwork, sends, steady>>

(* _openCamera(), at its end.  A controller that is overwritten streams on.*)
Opened(c) == camera' = c /\ lost' = lost \cup ({camera} \ {NoCamera})

(* ... it opens, the frames are listened to and reporting is armed ...     *)
CameraStarts ==
  /\ phase = "opening" /\ phase' = "ready"
  /\ Opened(0)
  /\ Arm(settings, cars)
  /\ UNCHANGED <<settings, facing, switching, analysed, counter, steady>>

(* ... or does not, and the frames are never listened to.                  *)
CameraFails ==
  /\ phase = "opening" /\ phase' = "failed"
  /\ UNCHANGED <<settings, detector, counter, clockwork, sends, steady>>

CountOn == samples
CountAfresh == {}

(* The camera in use is another: what is still counted was of the old one. *)
NewView == samples' = CountAfresh /\ stale' = IF CountAfresh = {} THEN 0 ELSE 2
ResetCounter == samples' = {} /\ stale' = 0

canSwitchCamera == Cameras > 1 /\ phase \in {"opening", "ready", "failed"}

(* The button is drawn as soon as the cameras are known, so while start()  *)
(* still opens the first one, too.  switchCamera() returns at once while   *)
(* another runs, and the page resets the counter all the same.             *)
SwitchPressed ==
  /\ canSwitchCamera
  /\ \/ /\ switching = "no"
        /\ switching' = "closing" /\ camera' = NoCamera
        /\ UNCHANGED <<samples, stale>>
     \/ /\ switching # "no"
        /\ ResetCounter
        /\ UNCHANGED <<switching, camera>>
  /\ UNCHANGED <<page, facing, lost, analysed, cars, vehicleAge, vouched, carried>>
  /\ UNCHANGED <<clockwork, sends, steady>>

(* The old camera's stream has been cancelled and it is disposed of ...    *)
OldCameraClosed ==
  /\ switching = "closing" /\ switching' = "opening"
  /\ facing' = (facing + 1) % Cameras
  /\ UNCHANGED <<page, camera, lost, analysed, counter, clockwork, sends, steady>>

SwitchDone ==
  /\ switching = "opening" /\ switching' = "no"
  /\ Opened(facing)
  /\ NewView
  /\ UNCHANGED <<page, facing, analysed, cars, vehicleAge, vouched, carried>>
  /\ UNCHANGED <<clockwork, sends, steady>>

(* ... unless that raises, or the new one cannot be opened: no camera, and *)
(* the count stays.                                                        *)
SwitchFails ==
  /\ switching # "no" /\ switching' = "no"
  /\ UNCHANGED <<page, facing, camera, lost, analysed, counter, clockwork, sends, steady>>

(* Apply in the settings sheet: the counter starts afresh, and a running   *)
(* timer is restarted at the new interval, with a report.  `_cars` is kept.*)
KeepTimer(s) == UNCHANGED <<clockwork, sends>>
Restart(s) == IF reporting THEN Arm(s, cars) ELSE UNCHANGED <<clockwork, sends>>

Apply(s) ==
  /\ settings' = s
  /\ ResetCounter
  /\ steady' = IF densityFor(s, cars) = Density THEN steady ELSE 0
  /\ Restart(s) /\ carried' = TRUE
  /\ UNCHANGED <<phase, detector, cars, vehicleAge, vouched>>

(* The app is closed and opened again.                                     *)
Relaunch ==
  /\ phase' = "restoring" /\ settings' = Default
  /\ facing' = 0 /\ camera' = NoCamera /\ lost' = {} /\ switching' = "no" /\ analysed' = NoFrame
  /\ samples' = {} /\ cars' = 0 /\ stale' = 0
  /\ vehicleAge' = Window + 1 /\ vouched' = FALSE /\ carried' = FALSE
  /\ reporting' = FALSE /\ every' = Default.interval /\ timer' = 0
  /\ lastSent' = Nothing /\ sinceSend' = Throttle /\ steady' = 0
-----------------------------------------------------------------------------
(* Samples that leave the window are dropped here: every reader drops them *)
(* before it looks.                                                        *)
InWindow(s) == s.age < Window

Tick ==
  /\ reporting => timer > 0
  /\ timer' = IF reporting THEN timer - 1 ELSE timer
  /\ samples' = {[s EXCEPT !.age = @ + 1] : s \in {r \in samples : InWindow(r)}}
  /\ sinceSend' = UpTo(sinceSend + 1, Throttle)
  /\ vehicleAge' = UpTo(vehicleAge + 1, Window + 1)
  /\ steady' = UpTo(steady + 1, MaxInterval)
  /\ UNCHANGED <<page, detector, cars, vouched, carried, stale, reporting, every, lastSent>>

Camera == (\E f \in Frames : CameraFrame(f)) \/ OnFrame \/ FrameDropped
Operator == ToggleOn \/ ToggleOff \/ SendNow \/ Clear \/ SwitchPressed \/ \E s \in Settings : Apply(s)
Starting == Restore \/ CamerasListed \/ CameraStarts \/ CameraFails

Next ==
  \/ Camera \/ Operator \/ Starting
  \/ OldCameraClosed \/ SwitchDone \/ SwitchFails
  \/ TimerFires \/ Relaunch \/ Tick

Spec == Init /\ [][Next]_vars
-----------------------------------------------------------------------------
(* What the sensor promises                                                *)

(* With the gate on, a desk full of mugs is no congestion: the count that  *)
(* is reported is above zero only if a vehicle had been recognised within  *)
(* the window when it was made.  That is so from the first frame counted   *)
(* with the settings in force: until then the page still holds, and at     *)
(* once reports, the count of the settings before.                         *)
GateHolds == settings.gateOnly /\ ~carried /\ cars > 0 => vouched

(* "The new view starts counting fresh": after a switch at most one frame  *)
(* of the old view is counted, the one that was being analysed meanwhile.  *)
(* That is so as long as no controller was lost: one is when cameras are   *)
(* switched while start() still opens the first.                           *)
OneStaleFrame == camera # NoCamera /\ lost = {} => stale <= 1

(* A density that stays for one interval is the one last sent: the         *)
(* throttle, a new interval or a switch may delay a report by no more.     *)
SettledIsReported ==
  phase = "ready" /\ reporting /\ timer > 0 /\ steady >= settings.interval => lastSent = Density
=============================================================================

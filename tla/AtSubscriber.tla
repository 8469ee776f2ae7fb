---------------------------- MODULE AtSubscriber ----------------------------
(***************************************************************************)
(* AtSubscriber (atsign/atsign_io.py): three threads around one queue.     *)
(*   start()      builds a client and blocks in its monitor, over and over;*)
(*   _consume     takes events off the queue, decrypts, calls on_record;   *)
(*   _watchdog    closes a monitor that has been silent for too long.      *)
(* A monitor puts raw notifications on the queue; handling one puts its    *)
(* decrypted event on the same queue.  The queue outlives the connection.  *)
(***************************************************************************)
EXTENDS Naturals, Sequences

CONSTANTS
  MaxNotes,   \* bound: notifications ever sent to this atSign
  MaxBreaks,  \* bound: times a connection that worked is lost
  MaxSilence, \* silence_timeout_s, in ticks
  SameMillis, \* whether two notifications may bear one epochMillis
  KeysFail,   \* whether a sender's key may stay unresolved after every retry
  Hangs,      \* whether a client or a monitor may block for ever while it connects
  Stops       \* whether stop() may be called

ASSUME SubscriberAssumption ==
  /\ MaxNotes \in Nat /\ MaxBreaks \in Nat /\ MaxSilence \in Nat
  /\ {SameMillis, KeysFail, Hangs, Stops} \subseteq BOOLEAN

Notes == 1 .. MaxNotes
Events == [kind : {"raw", "decrypted", "ack"}, note : 0 .. MaxNotes]
Ack == [kind |-> "ack", note |-> 0]
Raw(n) == [kind |-> "raw", note |-> n]
Decrypted(n) == [kind |-> "decrypted", note |-> n]

VARIABLES
  epochs,     \* the server: epochMillis of each notification, oldest first
  running,    \* _running
  loop,       \* where start() is
  conn,       \* the monitor connection of self.client
  cursor,     \* how many notifications that connection has got past
  queue,      \* self.q
  lastEpoch,  \* _last_epoch, in ms after the start
  hand,       \* the event _consume is handling, if any
  consuming,  \* _consume is still running
  silence,    \* ticks since _last_event_at
  breaks,
  (* history *)
  delivered,  \* calls of on_record for each notification
  latest,     \* the notification on_record was last called for
  dropped     \* notifications whose decryption was given up

connection == <<conn, cursor>>
consumerVars == <<hand, consuming, lastEpoch, delivered, latest, dropped>>
vars == <<epochs, running, loop, connection, queue, consumerVars, silence, breaks>>

(* Every variable keeps its type.                                          *)
TypeOK ==
  /\ epochs \in Seq(Nat) /\ Len(epochs) <= MaxNotes
  /\ {running, consuming} \subseteq BOOLEAN
  /\ loop \in {"top", "build", "attach", "monitor", "sleep", "hung", "exited"}
  /\ conn \in {"none", "live", "silent", "closed"}
  /\ cursor \in 0 .. Len(epochs)
  /\ queue \in Seq(Events)
  /\ lastEpoch \in Nat /\ hand \in Seq(Events) /\ Len(hand) <= 1
  /\ silence \in 0 .. MaxSilence + 1
  /\ breaks \in 0 .. MaxBreaks
  /\ delivered \in [Notes -> Nat] /\ latest \in 0 .. MaxNotes /\ dropped \subseteq Notes

Init ==
  /\ epochs = <<>>
  /\ running = TRUE /\ consuming = TRUE
  /\ loop = "top" /\ conn = "none" /\ cursor = 0
  /\ queue = <<>> /\ hand = <<>> /\ lastEpoch = 0
  /\ silence = 0 /\ breaks = 0
  /\ delivered = [n \in Notes |-> 0] /\ latest = 0 /\ dropped = {}
-----------------------------------------------------------------------------
(* The server                                                              *)

Newest == IF epochs = <<>> THEN 0 ELSE epochs[Len(epochs)]

Notify ==
  /\ Len(epochs) < MaxNotes
  /\ \/ epochs' = Append(epochs, Newest + 1)
     \/ SameMillis /\ epochs # <<>> /\ epochs' = Append(epochs, Newest)
  /\ UNCHANGED <<running, loop, connection, queue, consumerVars, silence, breaks>>

(* The monitor passes the next notification on.                            *)
Stream ==
  /\ conn = "live" /\ cursor < Len(epochs)
  /\ queue' = Append(queue, Raw(cursor + 1))
  /\ cursor' = cursor + 1
  /\ UNCHANGED <<epochs, running, loop, conn, consumerVars, silence, breaks>>

(* A heartbeat ack; one waiting in the queue stands for any number.        *)
HeartbeatAck ==
  /\ conn = "live" /\ \A i \in DOMAIN queue : queue[i] # Ack
  /\ queue' = Append(queue, Ack)
  /\ UNCHANGED <<epochs, running, loop, connection, consumerVars, silence, breaks>>

(* The connection breaks with an error, or goes silent without one.        *)
Break ==
  /\ conn = "live" /\ breaks < MaxBreaks
  /\ conn' \in {"closed", "silent"}
  /\ breaks' = breaks + 1
  /\ UNCHANGED <<epochs, running, loop, cursor, queue, consumerVars, silence>>
-----------------------------------------------------------------------------
(* start()                                                                 *)

LoopTop ==
  /\ loop = "top"
  /\ \/ running /\ silence' = 0 /\ loop' = "build"
     \/ ~running /\ loop' = "exited" /\ UNCHANGED silence
  /\ UNCHANGED <<epochs, running, connection, queue, consumerVars, breaks>>

(* self.client is the new client; its monitor has not been started.        *)
BuildDone ==
  /\ loop = "build"
  /\ conn' = "none" /\ loop' = "attach"
  /\ UNCHANGED <<epochs, running, cursor, queue, consumerVars, silence, breaks>>

BuildFails ==
  /\ loop = "build"
  /\ loop' = "sleep"
  /\ UNCHANGED <<epochs, running, connection, queue, consumerVars, silence, breaks>>

ResumeOnePast == lastEpoch + 1
(* The server answers "monitor:<epoch>" with what is newer than epoch.     *)
ResumePoint == CHOOSE n \in 0 .. Len(epochs) :
                 \A i \in 1 .. Len(epochs) : i <= n <=> epochs[i] <= lastEpoch

StartMonitor ==
  /\ loop = "attach"
  /\ conn' = "live" /\ cursor' = ResumePoint /\ loop' = "monitor"
  /\ UNCHANGED <<epochs, running, queue, consumerVars, silence, breaks>>

StartFails ==
  /\ loop = "attach"
  /\ loop' = "sleep"
  /\ UNCHANGED <<epochs, running, connection, queue, consumerVars, silence, breaks>>

(* A peer that never answers while a socket is being connected: nothing    *)
(* bounds that, and the watchdog has no monitor to close.                  *)
ConnectHangs ==
  /\ Hangs
  /\ loop \in {"build", "attach"}
  /\ loop' = "hung"
  /\ UNCHANGED <<epochs, running, connection, queue, consumerVars, silence, breaks>>

MonitorEnds ==
  /\ loop = "monitor" /\ conn = "closed"
  /\ loop' = "sleep"
  /\ UNCHANGED <<epochs, running, connection, queue, consumerVars, silence, breaks>>

Wake ==
  /\ loop = "sleep"
  /\ loop' = "top"
  /\ UNCHANGED <<epochs, running, connection, queue, consumerVars, silence, breaks>>
-----------------------------------------------------------------------------
(* _consume                                                                *)

SeenIsNow(ev) == Newest
Seen(ev) == IF ev.kind = "raw" /\ epochs[ev.note] > lastEpoch THEN epochs[ev.note] ELSE lastEpoch

(* The epoch is noted before the event is handled.                         *)
Take ==
  /\ consuming /\ running /\ hand = <<>> /\ queue # <<>>
  /\ hand' = <<Head(queue)>> /\ queue' = Tail(queue)
  /\ lastEpoch' = Seen(Head(queue))
  /\ silence' = 0
  /\ UNCHANGED <<epochs, running, loop, connection, consuming, delivered, latest, dropped, breaks>>

(* handle_event, and on_record for a decrypted one.  A raw one whose key   *)
(* cannot be had is swallowed.                                             *)
Handle ==
  /\ hand # <<>>
  /\ LET ev == hand[1] IN
       \/ /\ ev.kind = "raw"
          /\ \/ queue' = Append(queue, Decrypted(ev.note)) /\ UNCHANGED dropped
             \/ KeysFail /\ dropped' = dropped \cup {ev.note} /\ UNCHANGED queue
          /\ UNCHANGED <<delivered, latest>>
       \/ /\ ev.kind = "decrypted"
          /\ delivered' = [delivered EXCEPT ![ev.note] = @ + 1] /\ latest' = ev.note
          /\ UNCHANGED <<queue, dropped>>
       \/ /\ ev.kind = "ack"
          /\ UNCHANGED <<queue, delivered, latest, dropped>>
  /\ hand' = <<>>
  /\ UNCHANGED <<epochs, running, loop, connection, consuming, lastEpoch, silence, breaks>>

ConsumerExits ==
  /\ consuming /\ ~running /\ hand = <<>>
  /\ consuming' = FALSE
  /\ UNCHANGED <<epochs, running, loop, connection, queue, hand, lastEpoch, delivered, latest,
                 dropped, silence, breaks>>
-----------------------------------------------------------------------------
(* _watchdog and stop()                                                    *)

Tick ==
  /\ silence <= MaxSilence
  /\ silence' = silence + 1
  /\ UNCHANGED <<epochs, running, loop, connection, queue, consumerVars, breaks>>

NoDisconnect == UNCHANGED conn
Disconnect == conn' = IF conn \in {"live", "silent"} THEN "closed" ELSE conn

(* The silence is measured where events are consumed: a slow consumer      *)
(* makes a healthy connection look dead, which counts as a break.          *)
WatchdogTick ==
  /\ running /\ silence > MaxSilence
  /\ conn = "live" => breaks < MaxBreaks
  /\ breaks' = IF conn = "live" THEN breaks + 1 ELSE breaks
  /\ silence' = 0
  /\ Disconnect
  /\ UNCHANGED <<epochs, running, loop, cursor, queue, consumerVars>>

Stop ==
  /\ Stops /\ running
  /\ running' = FALSE
  /\ Disconnect
  /\ UNCHANGED <<epochs, loop, cursor, queue, consumerVars, silence, breaks>>
-----------------------------------------------------------------------------
Loop == LoopTop \/ BuildDone \/ BuildFails \/ StartMonitor \/ StartFails \/ ConnectHangs
        \/ MonitorEnds \/ Wake
Consume == Take \/ Handle \/ ConsumerExits
Next == Notify \/ Stream \/ HeartbeatAck \/ Break \/ Loop \/ Consume \/ Tick \/ WatchdogTick \/ Stop

(* The threads are scheduled, clocks advance, the server streams what it   *)
(* has.  Building a client and starting its monitor may fail again and     *)
(* again but not for ever -- unless one of them hangs, and then nothing    *)
(* moves start() again.                                                    *)
Fairness ==
  /\ WF_vars(Stream) /\ WF_vars(Tick) /\ WF_vars(WatchdogTick) /\ WF_vars(Consume)
  /\ WF_vars(LoopTop) /\ WF_vars(MonitorEnds) /\ WF_vars(Wake)
  /\ SF_vars(BuildDone) /\ SF_vars(StartMonitor)

Spec == Init /\ [][Next]_vars
FairSpec == Spec /\ Fairness
-----------------------------------------------------------------------------
(* What the subscriber promises                                            *)

Queued(n) == \/ \E i \in 1 .. Len(queue) : queue[i].kind # "ack" /\ queue[i].note = n
             \/ hand # <<>> /\ hand[1].kind # "ack" /\ hand[1].note = n

(* "Nothing is missed": a notification is delivered, in hand, given up for *)
(* its key, or a (re)connect will still ask the server for it.             *)
NothingMissed ==
  \A n \in 1 .. Len(epochs) :
    delivered[n] > 0 \/ Queued(n) \/ n \in dropped \/ epochs[n] > lastEpoch

(* Once everything has been streamed and handled, the record on_record was *)
(* last called with is the newest one, unless that was given up for its    *)
(* key.  True through one lost connection and its replay, not through two. *)
EndsOnTheNewest ==
  conn = "live" /\ cursor = Len(epochs) /\ hand = <<>> /\ queue = <<>> =>
    latest = Len(epochs) \/ Len(epochs) \in dropped

(* A notification is delivered in the end, through any reconnects, unless  *)
(* its key cannot be had or the subscriber is stopped.  Of one that hangs  *)
(* while connecting nothing can be claimed: it has no second watchdog.     *)
EventuallyDelivered ==
  \A n \in Notes :
    Len(epochs) >= n ~> delivered[n] > 0 \/ n \in dropped \/ ~running \/ loop = "hung"

(* A connection that went silent is replaced by one that works, unless the *)
(* reconnect hangs.                                                        *)
SilenceIsNoticed == conn = "silent" ~> conn = "live" \/ ~running \/ loop = "hung"
=============================================================================

------------------------- MODULE AtSubscriberProofs -------------------------
(***************************************************************************)
(* Proof that a subscriber misses nothing through any number of lost       *)
(* connections, forced or not, and that through one of them it ends on the *)
(* newest record, as long as no two notifications bear the same            *)
(* epochMillis.                                                            *)
(***************************************************************************)
EXTENDS AtSubscriber, SequenceTheorems, WellFoundedInduction, TLAPS

USE SubscriberAssumption DEF Notes

-----------------------------------------------------------------------------
(* What holds whatever the epochs: the server's are in order, a connection *)
(* has not got past the newest, and events are about what was sent.        *)
Sorted ==
  /\ epochs \in Seq(Nat) /\ Len(epochs) <= MaxNotes
  /\ \A i, j \in 1 .. Len(epochs) : i <= j => epochs[i] <= epochs[j]
  /\ lastEpoch \in Nat /\ cursor \in 0 .. Len(epochs)

EventsKnown ==
  /\ queue \in Seq(Events) /\ hand \in Seq(Events) /\ Len(hand) <= 1
  /\ \A i \in 1 .. Len(queue) : queue[i].kind = "ack" \/ queue[i].note \in 1 .. Len(epochs)
  /\ hand # <<>> => hand[1].kind = "ack" \/ hand[1].note \in 1 .. Len(epochs)
  /\ delivered \in [Notes -> Nat]

(* What appending to a sequence and taking its head leave.                 *)
LEMMA AppendFacts ==
  ASSUME NEW S, NEW s \in Seq(S), NEW e \in S
  PROVE  /\ Append(s, e) \in Seq(S) /\ Len(Append(s, e)) = Len(s) + 1
         /\ Append(s, e)[Len(s) + 1] = e
         /\ \A i \in 1 .. Len(s) : Append(s, e)[i] = s[i]
OBVIOUS

(* What is left of a sequence when its head is taken.                       *)
LEMMA TailFacts ==
  ASSUME NEW S, NEW s \in Seq(S), s # <<>>
  PROVE  /\ Len(s) \in Nat \ {0} /\ Head(s) = s[1] /\ s[1] \in S
         /\ Tail(s) \in Seq(S) /\ Len(Tail(s)) = Len(s) - 1
         /\ \A i \in 1 .. Len(Tail(s)) : Tail(s)[i] = s[i + 1]
OBVIOUS

(* An event on the queue or in hand has a number.                          *)
LEMMA NumberedEvents ==
  ASSUME EventsKnown
  PROVE  /\ \A i \in 1 .. Len(queue) : queue[i] \in Events /\ queue[i].note \in 0 .. MaxNotes
         /\ hand # <<>> => hand[1] \in Events /\ hand[1].note \in 0 .. MaxNotes
<1>1. \A e \in Events : e.note \in 0 .. MaxNotes
  BY DEF Events
<1>2. \A i \in 1 .. Len(queue) : queue[i] \in Events
  BY DEF EventsKnown
<1>3. hand # <<>> => hand[1] \in Events
  BY DEF EventsKnown
<1>4. QED
  BY <1>1, <1>2, <1>3

-----------------------------------------------------------------------------
(* Whatever the epochs                                                     *)

(* The last of what is queued is what was put there.                       *)
LEMMA PutKeepsKnown ==
  ASSUME Sorted, EventsKnown, NEW e \in Events, queue' = Append(queue, e),
         e.kind = "ack" \/ e.note \in 1 .. Len(epochs),
         hand' = hand \/ hand' = <<>>, UNCHANGED <<epochs, delivered>>
  PROVE  EventsKnown'
<1>1. /\ queue' \in Seq(Events) /\ Len(queue') = Len(queue) + 1 /\ Len(queue) \in Nat
      /\ queue'[Len(queue) + 1] = e
      /\ \A i \in 1 .. Len(queue) : queue'[i] = queue[i]
  BY AppendFacts DEF EventsKnown
<1>2. ASSUME NEW i \in 1 .. Len(queue')
      PROVE  queue'[i].kind = "ack" \/ queue'[i].note \in 1 .. Len(epochs)
  <2>1. CASE i = Len(queue) + 1
    BY <1>1, <2>1
  <2>2. CASE i \in 1 .. Len(queue)
    BY <1>1, <2>2 DEF EventsKnown
  <2>3. QED
    BY <1>1, <2>1, <2>2
<1>3. /\ hand' \in Seq(Events) /\ Len(hand') <= 1
      /\ hand' # <<>> => hand'[1].kind = "ack" \/ hand'[1].note \in 1 .. Len(epochs)
  <2>1. CASE hand' = hand
    BY <2>1 DEF EventsKnown
  <2>2. CASE hand' = <<>>
    BY <2>2
  <2>3. QED
    BY <2>1, <2>2
<1>4. QED
  BY <1>1, <1>2, <1>3 DEF EventsKnown

(* The next notification's epoch is not older than any.                    *)
LEMMA NotifyKeepsKnown == ASSUME Sorted, EventsKnown, Notify PROVE (Sorted /\ EventsKnown)'
<1>1. /\ UNCHANGED <<cursor, queue, hand, lastEpoch, delivered>> /\ Len(epochs) < MaxNotes
      /\ epochs' = Append(epochs, Newest + 1) \/ epochs' = Append(epochs, Newest)
  BY DEF Notify, connection, consumerVars
<1>2. Len(epochs) \in Nat /\ (epochs # <<>> => Len(epochs) \in 1 .. Len(epochs))
  BY LenProperties, EmptySeq DEF Sorted
<1>3. Newest \in Nat /\ \A i \in 1 .. Len(epochs) : epochs[i] <= Newest
  <2>1. CASE epochs = <<>>
    BY <2>1 DEF Newest
  <2>2. CASE epochs # <<>>
    BY <1>2, <2>2 DEF Newest, Sorted
  <2>3. QED
    BY <2>1, <2>2
<1>4. PICK e \in Nat : epochs' = Append(epochs, e) /\ e >= Newest
  BY <1>1, <1>3
<1>5. /\ epochs' \in Seq(Nat) /\ Len(epochs') = Len(epochs) + 1
      /\ epochs'[Len(epochs) + 1] = e /\ \A i \in 1 .. Len(epochs) : epochs'[i] = epochs[i]
  BY <1>4, AppendFacts DEF Sorted
<1>6. ASSUME NEW i \in 1 .. Len(epochs'), NEW j \in 1 .. Len(epochs'), i <= j
      PROVE  epochs'[i] <= epochs'[j]
  <2>1. CASE j \in 1 .. Len(epochs)
    <3>1. i \in 1 .. Len(epochs)
      BY <1>2, <1>6, <2>1
    <3>2. QED
      BY <1>5, <1>6, <2>1, <3>1 DEF Sorted
  <2>2. CASE j = Len(epochs) + 1 /\ i \in 1 .. Len(epochs)
    <3>1. epochs[i] \in Nat /\ epochs[i] <= Newest
      BY <1>3, <2>2 DEF Sorted
    <3>2. QED
      BY <1>3, <1>4, <1>5, <2>2, <3>1
  <2>3. CASE i = j
    BY <1>5, <2>3
  <2>4. QED
    BY <1>2, <1>5, <1>6, <2>1, <2>2, <2>3
<1>7. Sorted'
  BY <1>1, <1>2, <1>5, <1>6 DEF Sorted
<1>8. EventsKnown'
  <2>1. 1 .. Len(epochs) \subseteq 1 .. Len(epochs')
    BY <1>2, <1>5
  <2>2. QED
    BY <1>1, <2>1 DEF EventsKnown
<1>9. QED
  BY <1>7, <1>8

(* A connection streams what the server has.                               *)
LEMMA StreamKeepsKnown == ASSUME Sorted, EventsKnown, Stream PROVE (Sorted /\ EventsKnown)'
<1>1. /\ UNCHANGED <<epochs, hand, lastEpoch, delivered>>
      /\ cursor < Len(epochs) /\ cursor' = cursor + 1 /\ queue' = Append(queue, Raw(cursor + 1))
  BY DEF Stream, consumerVars
<1>2. Len(epochs) \in Nat /\ cursor \in Nat /\ cursor + 1 \in 1 .. Len(epochs)
  BY <1>1 DEF Sorted
<1>3. Raw(cursor + 1) \in Events /\ Raw(cursor + 1).note = cursor + 1
  BY <1>2 DEF Raw, Events, Sorted
<1>4. EventsKnown'
  BY <1>1, <1>2, <1>3, PutKeepsKnown
<1>5. QED
  BY <1>1, <1>2, <1>4 DEF Sorted

(* The least place of those that satisfy a condition.                      *)
LEMMA LeastPlace ==
  ASSUME NEW T \in SUBSET Nat, T # {}
  PROVE  \E m \in T : \A k \in T : m <= k
<1>1. \E m \in T : \A k \in T : ~(<<k, m>> \in OpToRel(<, Nat))
  BY WFMin, NatLessThanWellFounded
<1>2. PICK m \in T : \A k \in T : ~(<<k, m>> \in OpToRel(<, Nat))
  BY <1>1
<1>3. \A k \in T : ~(k < m)
  BY <1>2 DEF OpToRel
<1>4. QED
  BY <1>3

(* A connection resumes within what the server has: its epochs are in      *)
(* order, so those newer than the last one noted are the last ones.        *)
LEMMA ResumesWithin == ASSUME Sorted PROVE ResumePoint \in 0 .. Len(epochs)
<1> DEFINE T == {i \in 1 .. Len(epochs) : epochs[i] > lastEpoch}
<1>1. Len(epochs) \in Nat /\ lastEpoch \in Nat /\ \A i \in 1 .. Len(epochs) : epochs[i] \in Nat
  BY DEF Sorted
<1>2. \E n \in 0 .. Len(epochs) : \A i \in 1 .. Len(epochs) : i <= n <=> epochs[i] <= lastEpoch
  <2>1. CASE T = {}
    <3>1. \A i \in 1 .. Len(epochs) : ~(epochs[i] > lastEpoch)
      BY <2>1
    <3>2. \A i \in 1 .. Len(epochs) : i <= Len(epochs) <=> epochs[i] <= lastEpoch
      BY <1>1, <3>1
    <3>3. Len(epochs) \in 0 .. Len(epochs)
      BY <1>1
    <3>4. QED
      BY <3>2, <3>3
  <2>2. CASE T # {}
    <3>a. T \in SUBSET Nat
      BY <1>1
    <3>b. \E m \in T : \A k \in T : m <= k
      BY <2>2, <3>a, LeastPlace
    <3>1. PICK m \in T : \A k \in T : m <= k
      BY <3>b
    <3>2. m - 1 \in 0 .. Len(epochs)
      BY <1>1
    <3>3. ASSUME NEW i \in 1 .. Len(epochs) PROVE i <= m - 1 <=> epochs[i] <= lastEpoch
      <4>1. CASE i <= m - 1
        BY <1>1, <3>1, <4>1
      <4>2. CASE m <= i
        <5>1. epochs[m] <= epochs[i] /\ epochs[m] > lastEpoch
          BY <4>2 DEF Sorted
        <5>2. QED
          BY <1>1, <4>2, <5>1
      <4>3. QED
        BY <1>1, <4>1, <4>2
    <3>4. QED
      BY <3>2, <3>3
  <2>3. QED
    BY <2>1, <2>2
<1>3. QED
  BY <1>2 DEF ResumePoint

(* Taking an event notes the epoch of one that was sent.                   *)
LEMMA TakeKeepsKnown == ASSUME Sorted, EventsKnown, Take PROVE (Sorted /\ EventsKnown)'
<1>1. /\ UNCHANGED <<epochs, cursor, delivered>>
      /\ queue # <<>> /\ queue' = Tail(queue)
      /\ hand' = <<Head(queue)>> /\ lastEpoch' = Seen(Head(queue))
  BY DEF Take, connection
<1>2. /\ Len(queue) \in Nat \ {0} /\ Head(queue) = queue[1] /\ queue[1] \in Events
      /\ queue' \in Seq(Events) /\ Len(queue') = Len(queue) - 1
      /\ \A i \in 1 .. Len(queue') : queue'[i] = queue[i + 1]
  BY <1>1, TailFacts DEF EventsKnown
<1>3. queue[1].kind = "ack" \/ queue[1].note \in 1 .. Len(epochs)
  BY <1>2 DEF EventsKnown
<1>4. lastEpoch' \in Nat
  <2>1. queue[1].kind = "raw" => epochs[queue[1].note] \in Nat
    BY <1>3 DEF Sorted
  <2>2. QED
    BY <1>1, <1>2, <2>1 DEF Seen, Sorted
<1>5. hand' \in Seq(Events) /\ Len(hand') = 1 /\ hand'[1] = queue[1]
  BY <1>1, <1>2
<1>6. \A i \in 1 .. Len(queue') : i + 1 \in 1 .. Len(queue)
  BY <1>2
<1>7. EventsKnown'
  BY <1>1, <1>2, <1>3, <1>5, <1>6, SMTT(30) DEF EventsKnown
<1>8. QED
  BY <1>1, <1>4, <1>7 DEF Sorted

(* Handling puts at most the decrypted event on the queue.                  *)
LEMMA HandleKeepsKnown == ASSUME Sorted, EventsKnown, Handle PROVE (Sorted /\ EventsKnown)'
<1> DEFINE ev == hand[1]
<1>1. UNCHANGED <<epochs, cursor, lastEpoch>> /\ hand # <<>> /\ hand' = <<>>
  BY DEF Handle, connection
<1>2. ev \in Events /\ (ev.kind = "ack" \/ ev.note \in 1 .. Len(epochs))
  BY <1>1, NumberedEvents DEF EventsKnown
<1>3. \/ UNCHANGED <<queue, delivered>>
      \/ ev.kind = "raw" /\ queue' = Append(queue, Decrypted(ev.note)) /\ UNCHANGED delivered
      \/ /\ ev.kind = "decrypted" /\ UNCHANGED queue
         /\ delivered' = [delivered EXCEPT ![ev.note] = @ + 1]
  BY DEF Handle
<1>4. hand' \in Seq(Events) /\ Len(hand') <= 1 /\ ~(hand' # <<>>)
  BY <1>1
<1>5. ASSUME UNCHANGED <<queue, delivered>> PROVE EventsKnown'
  BY <1>1, <1>4, <1>5 DEF EventsKnown
<1>6. ASSUME ev.kind = "raw", queue' = Append(queue, Decrypted(ev.note)), UNCHANGED delivered
      PROVE  EventsKnown'
  <2>1. Decrypted(ev.note) \in Events /\ Decrypted(ev.note).note = ev.note
    BY <1>2, <1>6 DEF Decrypted, Events
  <2>2. ev.note \in 1 .. Len(epochs)
    BY <1>2, <1>6
  <2>3. QED
    BY <1>1, <1>6, <2>1, <2>2, PutKeepsKnown
<1>7. ASSUME ev.kind = "decrypted", UNCHANGED queue,
             delivered' = [delivered EXCEPT ![ev.note] = @ + 1]
      PROVE  EventsKnown'
  <2>1. delivered \in [Notes -> Nat]
    BY DEF EventsKnown
  <2>2. delivered[ev.note] + 1 \in Nat \/ ev.note \notin Notes
    BY <2>1
  <2>3. delivered' \in [Notes -> Nat]
    BY <1>7, <2>1, <2>2
  <2>4. QED
    BY <1>1, <1>7, <1>4, <2>3 DEF EventsKnown
<1>8. EventsKnown'
  BY <1>3, <1>5, <1>6, <1>7
<1>9. QED
  BY <1>1, <1>8 DEF Sorted

(* No other step touches the queue or the epochs.                          *)
LEMMA KnownStep == Sorted /\ EventsKnown /\ [Next]_vars => (Sorted /\ EventsKnown)'
<1> SUFFICES ASSUME Sorted, EventsKnown, [Next]_vars PROVE (Sorted /\ EventsKnown)'
  OBVIOUS
<1> USE DEF connection, consumerVars
<1>1. ASSUME UNCHANGED <<epochs, lastEpoch, queue, hand, delivered>>,
             cursor' = cursor \/ cursor' = ResumePoint
      PROVE  (Sorted /\ EventsKnown)'
  BY <1>1, ResumesWithin DEF Sorted, EventsKnown
<1>2. CASE HeartbeatAck
  <2>1. UNCHANGED <<epochs, hand, lastEpoch, cursor, delivered>> /\ queue' = Append(queue, Ack)
    BY <1>2 DEF HeartbeatAck
  <2>2. Ack \in Events /\ Ack.kind = "ack"
    BY DEF Ack, Events
  <2>3. EventsKnown'
    BY <2>1, <2>2, PutKeepsKnown
  <2>4. QED
    BY <2>1, <2>3 DEF Sorted
<1>3. CASE Break \/ LoopTop \/ BuildDone \/ BuildFails \/ StartFails \/ ConnectHangs \/ StartMonitor \/ MonitorEnds \/ Wake
  BY <1>1, <1>3 DEF Break, LoopTop, BuildDone, BuildFails, StartFails, ConnectHangs, StartMonitor,
                     MonitorEnds, Wake
<1>4. CASE ConsumerExits \/ Tick \/ WatchdogTick \/ Stop \/ UNCHANGED vars
  BY <1>1, <1>4 DEF ConsumerExits, Tick, WatchdogTick, Stop, vars
<1>5. QED
  BY <1>2, <1>3, <1>4, NotifyKeepsKnown, StreamKeepsKnown, TakeKeepsKnown, HandleKeepsKnown
     DEF Next, Loop, Consume
-----------------------------------------------------------------------------
(* Nothing is missed when epochs are distinct                              *)

(* With distinct epochs a notification's number is its epoch: the server   *)
(* counts up, and the subscriber has noted the epoch of none to come.      *)
Distinct ==
  /\ epochs \in Seq(Nat) /\ Len(epochs) <= MaxNotes
  /\ \A i \in 1 .. Len(epochs) : epochs[i] = i
  /\ lastEpoch \in 0 .. Len(epochs)
  /\ cursor \in 0 .. Len(epochs)

(* Whatever is not noted yet precedes, on the queue, anything newer: the   *)
(* stream of each connection starts where the noted epochs end.            *)
Gapless ==
  /\ \A i \in 1 .. Len(queue) : queue[i].kind = "raw" =>
       \A m \in lastEpoch + 1 .. queue[i].note - 1 : \E j \in 1 .. i - 1 : queue[j] = Raw(m)
  /\ conn = "live" =>
       \A m \in lastEpoch + 1 .. cursor : \E j \in 1 .. Len(queue) : queue[j] = Raw(m)

(* What has been noted is under way, delivered, or given up.               *)
NotedIsHandled ==
  \A n \in 1 .. Len(epochs) :
    n <= lastEpoch => delivered[n] > 0 \/ Queued(n) \/ n \in dropped

Inv == Distinct /\ EventsKnown /\ Gapless /\ NotedIsHandled

(* Distinct epochs are in order.                                           *)
LEMMA DistinctIsSorted == Distinct => Sorted
BY DEF Distinct, Sorted

(* Initially there is nothing to miss.                                     *)
LEMMA InvInit == Init => Inv
BY DEF Init, Inv, Distinct, EventsKnown, Gapless, NotedIsHandled

(* An event put on the queue hides none that is there, and one that is no  *)
(* notification leaves the queue gapless.                                  *)
LEMMA PutKeepsQueued ==
  ASSUME EventsKnown, NEW e \in Events, queue' = Append(queue, e),
         hand' = hand \/ hand' = <<>>
  PROVE  /\ queue' \in Seq(Events) /\ Len(queue') = Len(queue) + 1
         /\ queue'[Len(queue) + 1] = e
         /\ \A i \in 1 .. Len(queue) : queue'[i] = queue[i]
         /\ \A n : Queued(n) => Queued(n)' \/ (hand' # hand /\ hand[1].note = n)
<1>1. queue \in Seq(Events) /\ Len(queue) \in Nat
  BY DEF EventsKnown
<1>2. /\ queue' \in Seq(Events) /\ Len(queue') = Len(queue) + 1
      /\ queue'[Len(queue) + 1] = e
      /\ \A i \in 1 .. Len(queue) : queue'[i] = queue[i]
  BY <1>1, AppendFacts
<1>3. ASSUME NEW n, Queued(n) PROVE Queued(n)' \/ (hand' # hand /\ hand[1].note = n)
  <2>1. CASE \E i \in 1 .. Len(queue) : queue[i].kind # "ack" /\ queue[i].note = n
    <3>1. PICK i \in 1 .. Len(queue) : queue[i].kind # "ack" /\ queue[i].note = n
      BY <2>1
    <3>2. i \in 1 .. Len(queue') /\ queue'[i] = queue[i]
      BY <1>1, <1>2
    <3>3. QED
      BY <3>1, <3>2 DEF Queued
  <2>2. CASE hand # <<>> /\ hand[1].kind # "ack" /\ hand[1].note = n
    BY <2>2 DEF Queued
  <2>3. QED
    BY <1>3, <2>1, <2>2 DEF Queued
<1>4. QED
  BY <1>2, <1>3

(* Events put behind the queue open no gap in what is queued or handled.    *)
LEMMA PutKeepsGapless ==
  ASSUME Distinct, EventsKnown, Gapless, NEW e \in Events, e.kind # "raw",
         queue' = Append(queue, e), UNCHANGED <<lastEpoch, cursor, conn>>
  PROVE  Gapless'
<1>1. Len(queue) \in Nat /\ lastEpoch \in Nat /\ cursor \in Nat
  BY DEF EventsKnown, Distinct
<1>2. /\ Len(queue') = Len(queue) + 1 /\ queue'[Len(queue) + 1] = e
      /\ \A i \in 1 .. Len(queue) : queue'[i] = queue[i]
  BY AppendFacts DEF EventsKnown
<1>3. ASSUME NEW i \in 1 .. Len(queue'), queue'[i].kind = "raw",
             NEW m \in lastEpoch + 1 .. queue'[i].note - 1
      PROVE  \E k \in 1 .. i - 1 : queue'[k] = Raw(m)
  <2>1. i \in 1 .. Len(queue)
    BY <1>1, <1>2, <1>3
  <2>2. PICK k \in 1 .. i - 1 : queue[k] = Raw(m)
    BY <1>2, <1>3, <2>1 DEF Gapless
  <2>3. QED
    BY <1>1, <1>2, <2>1, <2>2
<1>4. ASSUME conn = "live", NEW m \in lastEpoch + 1 .. cursor
      PROVE  \E k \in 1 .. Len(queue') : queue'[k] = Raw(m)
  <2>1. PICK k \in 1 .. Len(queue) : queue[k] = Raw(m)
    BY <1>4 DEF Gapless
  <2>2. QED
    BY <1>1, <1>2, <2>1
<1>5. QED
  BY <1>3, <1>4 DEF Gapless

(* Sending one more gives it the next number.                              *)
LEMMA NotifyKeepsInv == ASSUME ~SameMillis, Inv, Notify PROVE Inv'
<1>0. /\ Distinct /\ EventsKnown /\ Gapless /\ NotedIsHandled
      /\ UNCHANGED <<conn, cursor, queue, hand, lastEpoch, delivered, dropped>>
  BY DEF Inv, Notify, connection, consumerVars
<1>1. epochs' = Append(epochs, Len(epochs) + 1) /\ Len(epochs) < MaxNotes
  BY <1>0 DEF Distinct, Newest, Notify
<1>2. Len(epochs') = Len(epochs) + 1 /\ epochs' \in Seq(Nat) /\ Len(epochs) \in Nat
      /\ \A i \in 1 .. Len(epochs') : epochs'[i] = i
  BY <1>0, <1>1 DEF Distinct
<1>3. Distinct'
  BY <1>0, <1>1, <1>2 DEF Distinct
<1>4. EventsKnown'
  BY <1>0, DistinctIsSorted, NotifyKeepsKnown
<1>5. Gapless'
  BY <1>0 DEF Gapless
<1>6. NotedIsHandled'
  <2>1. ASSUME NEW n \in 1 .. Len(epochs'), n <= lastEpoch PROVE n \in 1 .. Len(epochs)
    BY <1>0, <1>2, <2>1 DEF Distinct
  <2>2. \A n : Queued(n) => Queued(n)'
    BY <1>0 DEF Queued
  <2>3. QED
    BY <1>0, <2>1, <2>2 DEF NotedIsHandled
<1>7. QED
  BY <1>3, <1>4, <1>5, <1>6 DEF Inv

(* The next notification joins the queue behind all it may not overtake.   *)
LEMMA StreamKeepsInv == ASSUME Inv, Stream PROVE Inv'
<1>0. /\ Distinct /\ EventsKnown /\ Gapless /\ NotedIsHandled
      /\ UNCHANGED <<epochs, conn, hand, lastEpoch, delivered, dropped>>
      /\ conn = "live" /\ cursor < Len(epochs) /\ cursor' = cursor + 1
      /\ queue' = Append(queue, Raw(cursor + 1))
  BY DEF Inv, Stream, consumerVars
<1>1. /\ cursor \in Nat /\ lastEpoch \in Nat /\ Len(epochs) \in Nat /\ Len(queue) \in Nat
      /\ cursor + 1 \in Notes
  <2>1. Len(epochs) \in Nat /\ Len(queue) \in Nat
    BY <1>0, LenProperties DEF Distinct, EventsKnown
  <2>2. QED
    BY <1>0, <2>1 DEF Distinct
<1>2. Raw(cursor + 1) \in Events /\ Raw(cursor + 1).note = cursor + 1
  BY <1>1 DEF Raw, Events
<1>3. /\ queue' \in Seq(Events) /\ Len(queue') = Len(queue) + 1
      /\ queue'[Len(queue) + 1] = Raw(cursor + 1)
      /\ \A i \in 1 .. Len(queue) : queue'[i] = queue[i]
      /\ \A n : Queued(n) => Queued(n)'
  BY <1>0, <1>2, PutKeepsQueued
<1>4. Distinct'
  BY <1>0, <1>1 DEF Distinct
<1>5. EventsKnown'
  BY <1>0, DistinctIsSorted, StreamKeepsKnown
<1>6. Gapless'
  <2>1. ASSUME NEW m \in lastEpoch + 1 .. cursor
        PROVE  \E k \in 1 .. Len(queue) : queue'[k] = Raw(m)
    BY <1>0, <1>3 DEF Gapless
  <2>2. ASSUME NEW i \in 1 .. Len(queue'), queue'[i].kind = "raw",
               NEW m \in lastEpoch + 1 .. queue'[i].note - 1
        PROVE  \E k \in 1 .. i - 1 : queue'[k] = Raw(m)
    <3>1. CASE i = Len(queue) + 1
      <4>1. m \in lastEpoch + 1 .. cursor
        BY <1>1, <1>2, <1>3, <2>2, <3>1
      <4>2. QED
        BY <1>1, <2>1, <3>1, <4>1
    <3>2. CASE i \in 1 .. Len(queue)
      <4>1. PICK k \in 1 .. i - 1 : queue[k] = Raw(m)
        BY <1>0, <1>3, <2>2, <3>2 DEF Gapless
      <4>2. QED
        BY <1>1, <1>3, <3>2, <4>1
    <3>3. QED
      BY <1>1, <1>3, <3>1, <3>2
  <2>3. ASSUME NEW m \in lastEpoch + 1 .. cursor'
        PROVE  \E k \in 1 .. Len(queue') : queue'[k] = Raw(m)
    <3>1. CASE m = cursor + 1
      BY <1>1, <1>3, <3>1
    <3>2. CASE m \in lastEpoch + 1 .. cursor
      BY <1>1, <1>3, <2>1, <3>2
    <3>3. QED
      BY <1>0, <1>1, <3>1, <3>2
  <2>4. QED
    BY <1>0, <2>2, <2>3 DEF Gapless
<1>7. NotedIsHandled'
  BY <1>0, <1>3 DEF NotedIsHandled
<1>8. QED
  BY <1>4, <1>5, <1>6, <1>7 DEF Inv

(* A heartbeat ack is no notification.                                     *)
LEMMA AckKeepsInv == ASSUME Inv, HeartbeatAck PROVE Inv'
<1>0. /\ Distinct /\ EventsKnown /\ Gapless /\ NotedIsHandled
      /\ UNCHANGED <<epochs, conn, cursor, hand, lastEpoch, delivered, dropped>>
      /\ queue' = Append(queue, Ack)
  BY DEF Inv, HeartbeatAck, connection, consumerVars
<1>1. Ack \in Events /\ Ack.kind = "ack"
  BY DEF Ack, Events
<1>2. /\ queue' \in Seq(Events) /\ Len(queue') = Len(queue) + 1
      /\ queue'[Len(queue) + 1] = Ack
      /\ \A i \in 1 .. Len(queue) : queue'[i] = queue[i]
      /\ \A n : Queued(n) => Queued(n)'
  BY <1>0, <1>1, PutKeepsQueued
<1>3. Distinct' /\ Len(epochs) \in Nat /\ Len(queue) \in Nat
  BY <1>0 DEF Distinct, EventsKnown
<1>4. EventsKnown'
  BY <1>0, <1>1, <1>2, <1>3 DEF EventsKnown
<1>5. Gapless'
  BY <1>0, <1>1, PutKeepsGapless
<1>6. NotedIsHandled'
  BY <1>0, <1>2 DEF NotedIsHandled
<1>7. QED
  BY <1>3, <1>4, <1>5, <1>6 DEF Inv

(* A connection resumes exactly after the noted epochs.                    *)
LEMMA ResumesAfterTheNoted == ASSUME Distinct, StartMonitor PROVE cursor' = lastEpoch
<1>1. \A n \in 0 .. Len(epochs) :
        (\A i \in 1 .. Len(epochs) : i <= n <=> epochs[i] <= lastEpoch) <=> n = lastEpoch
  <2> SUFFICES ASSUME NEW n \in 0 .. Len(epochs)
               PROVE  (\A i \in 1 .. Len(epochs) : i <= n <=> epochs[i] <= lastEpoch) <=> n = lastEpoch
    OBVIOUS
  <2>1. CASE n < lastEpoch
    <3>1. n + 1 \in 1 .. Len(epochs) /\ epochs[n + 1] <= lastEpoch /\ ~(n + 1 <= n)
      BY <2>1 DEF Distinct
    <3>2. QED
      BY <2>1, <3>1
  <2>2. CASE n > lastEpoch
    <3>1. n \in 1 .. Len(epochs) /\ ~(epochs[n] <= lastEpoch) /\ n <= n
      BY <2>2 DEF Distinct
    <3>2. QED
      BY <2>2, <3>1
  <2>3. CASE n = lastEpoch
    BY <2>3 DEF Distinct
  <2>4. QED
    BY <2>1, <2>2, <2>3 DEF Distinct
<1>2. QED
  BY <1>1 DEF StartMonitor, ResumePoint, Distinct

(* So what a new connection streams leaves no gap behind what is noted.     *)
LEMMA StartKeepsInv == ASSUME Inv, StartMonitor PROVE Inv'
<1> USE DEF Inv, StartMonitor, consumerVars
<1>1. cursor' = lastEpoch
  BY ResumesAfterTheNoted
<1>2. UNCHANGED <<epochs, queue, hand, lastEpoch, delivered, dropped>>
  OBVIOUS
<1>3. Distinct'
  BY <1>1, <1>2 DEF Distinct
<1>4. EventsKnown'
  BY <1>2 DEF EventsKnown
<1>5. Gapless'
  <2>1. \A m \in lastEpoch + 1 .. lastEpoch : FALSE
    BY DEF Distinct
  <2>2. QED
    BY <1>1, <1>2, <2>1 DEF Gapless
<1>6. NotedIsHandled'
  BY <1>2 DEF NotedIsHandled, Queued
<1>7. QED
  BY <1>3, <1>4, <1>5, <1>6

(* Taking an event notes at most one new epoch, the one after the last.    *)
LEMMA TakeKeepsInv == ASSUME Inv, Take PROVE Inv'
<1>0. /\ Distinct /\ EventsKnown /\ Gapless /\ NotedIsHandled
      /\ UNCHANGED <<epochs, conn, cursor, delivered, dropped>>
      /\ hand = <<>> /\ queue # <<>> /\ queue' = Tail(queue)
      /\ hand' = <<Head(queue)>> /\ lastEpoch' = Seen(Head(queue))
  BY DEF Inv, Take, connection
<1>1. /\ Len(queue) \in Nat \ {0} /\ Head(queue) = queue[1] /\ queue[1] \in Events
      /\ queue' \in Seq(Events) /\ Len(queue') = Len(queue) - 1
      /\ \A i \in 1 .. Len(queue') : queue'[i] = queue[i + 1]
  BY <1>0, TailFacts DEF EventsKnown
<1>2. /\ Len(epochs) \in Nat /\ lastEpoch \in Nat /\ lastEpoch <= Len(epochs) /\ cursor \in Nat
  BY <1>0 DEF Distinct
<1>3. \/ lastEpoch' = lastEpoch /\ (queue[1].kind = "raw" => queue[1].note <= lastEpoch)
      \/ /\ lastEpoch' = lastEpoch + 1 /\ lastEpoch' \in 1 .. Len(epochs)
         /\ queue[1].kind = "raw" /\ queue[1].note = lastEpoch'
  <2>1. CASE queue[1].kind # "raw"
    BY <1>0, <1>1, <2>1 DEF Seen
  <2>2. CASE queue[1].kind = "raw"
    <3>1. queue[1].note \in 1 .. Len(epochs)
      BY <1>0, <1>1, <2>2 DEF EventsKnown
    <3>2. epochs[queue[1].note] = queue[1].note
      BY <1>0, <3>1 DEF Distinct
    <3>3. CASE queue[1].note <= lastEpoch
      BY <1>0, <1>1, <1>2, <3>1, <3>2, <3>3 DEF Seen
    <3>4. CASE queue[1].note > lastEpoch
      <4>1. lastEpoch' = queue[1].note
        BY <1>0, <1>1, <2>2, <3>2, <3>4 DEF Seen
      <4>2. \A m \in lastEpoch + 1 .. queue[1].note - 1 : \E k \in 1 .. 1 - 1 : queue[k] = Raw(m)
        BY <1>0, <1>1, <2>2 DEF Gapless
      <4>3. queue[1].note = lastEpoch + 1
        <5>1. SUFFICES ASSUME queue[1].note # lastEpoch + 1 PROVE FALSE
          OBVIOUS
        <5>2. lastEpoch + 1 \in lastEpoch + 1 .. queue[1].note - 1
          BY <1>2, <3>1, <3>4, <5>1
        <5>3. PICK k \in 1 .. 1 - 1 : queue[k] = Raw(lastEpoch + 1)
          BY <4>2, <5>2
        <5>4. QED
          BY <5>3
      <4>4. QED
        BY <2>2, <3>1, <4>1, <4>3
    <3>5. QED
      BY <1>2, <3>1, <3>3, <3>4
  <2>3. QED
    BY <2>1, <2>2
<1>4. Distinct'
  BY <1>0, <1>2, <1>3 DEF Distinct
<1>5. EventsKnown'
  BY <1>0, DistinctIsSorted, TakeKeepsKnown
<1>6. \A m \in Nat, k \in 1 .. Len(queue) :
        m > lastEpoch' /\ queue[k] = Raw(m) => k # 1
  BY <1>2, <1>3 DEF Raw
<1>7. Gapless'
  <2>1. ASSUME NEW i \in 1 .. Len(queue'), queue'[i].kind = "raw",
               NEW m \in lastEpoch' + 1 .. queue'[i].note - 1
        PROVE  \E j \in 1 .. i - 1 : queue'[j] = Raw(m)
    <3>1. i + 1 \in 1 .. Len(queue) /\ queue[i + 1] = queue'[i]
      BY <1>1
    <3>2. m \in lastEpoch + 1 .. queue[i + 1].note - 1 /\ m > lastEpoch' /\ m \in Nat
      BY <1>2, <1>3, <2>1, <3>1
    <3>3. \E j \in 1 .. (i + 1) - 1 : queue[j] = Raw(m)
      BY <1>0, <2>1, <3>1, <3>2 DEF Gapless
    <3>4. PICK j \in 1 .. i : queue[j] = Raw(m)
      BY <3>3
    <3>5. j \in 1 .. Len(queue)
      BY <1>1, <3>1
    <3>6. j # 1
      BY <1>6, <3>2, <3>4, <3>5
    <3>7. j - 1 \in 1 .. i - 1 /\ j - 1 \in 1 .. Len(queue')
      BY <1>1, <3>6
    <3>8. queue'[j - 1] = queue[j]
      BY <1>1, <3>7
    <3>9. QED
      BY <3>4, <3>7, <3>8
  <2>2. ASSUME conn = "live", NEW m \in lastEpoch' + 1 .. cursor
        PROVE  \E j \in 1 .. Len(queue') : queue'[j] = Raw(m)
    <3>1. m \in lastEpoch + 1 .. cursor /\ m > lastEpoch' /\ m \in Nat
      BY <1>2, <1>3, <2>2
    <3>2. PICK j \in 1 .. Len(queue) : queue[j] = Raw(m)
      BY <1>0, <2>2, <3>1 DEF Gapless
    <3>3. j # 1
      BY <1>6, <3>1, <3>2
    <3>4. j - 1 \in 1 .. Len(queue')
      BY <1>1, <3>3
    <3>5. queue'[j - 1] = queue[j]
      BY <1>1, <3>4
    <3>6. QED
      BY <3>2, <3>4, <3>5
  <2>3. QED
    BY <1>0, <2>1, <2>2 DEF Gapless
<1>8. NotedIsHandled'
  <2>1. hand' = <<queue[1]>>
    BY <1>0, <1>1
  <2>2. ASSUME NEW n, Queued(n) PROVE Queued(n)'
    <3>1. PICK i \in 1 .. Len(queue) : queue[i].kind # "ack" /\ queue[i].note = n
      BY <1>0, <2>2 DEF Queued
    <3>2. CASE i = 1
      BY <2>1, <3>1, <3>2 DEF Queued
    <3>3. CASE i # 1
      <4>1. i - 1 \in 1 .. Len(queue')
        BY <1>1, <3>3
      <4>2. queue'[i - 1] = queue[i]
        BY <1>1, <4>1
      <4>3. QED
        BY <3>1, <4>1, <4>2 DEF Queued
    <3>4. QED
      BY <3>2, <3>3
  <2>3. ASSUME NEW n, n = lastEpoch', lastEpoch' # lastEpoch PROVE Queued(n)'
    BY <1>3, <2>1, <2>3 DEF Queued
  <2>4. ASSUME NEW n \in 1 .. Len(epochs), n <= lastEpoch'
        PROVE  delivered[n] > 0 \/ Queued(n)' \/ n \in dropped
    <3>1. CASE n <= lastEpoch
      BY <1>0, <2>2, <3>1 DEF NotedIsHandled
    <3>2. CASE n = lastEpoch' /\ lastEpoch' # lastEpoch
      BY <2>3, <3>2
    <3>3. QED
      BY <1>2, <1>3, <2>4, <3>1, <3>2
  <2>5. QED
    BY <1>0, <2>4 DEF NotedIsHandled
<1>9. QED
  BY <1>4, <1>5, <1>7, <1>8 DEF Inv

(* Handling moves a notification on: from raw to decrypted, from decrypted *)
(* to delivered, or into the set given up.                                 *)
LEMMA HandleKeepsInv == ASSUME Inv, Handle PROVE Inv'
<1>0. /\ Distinct /\ EventsKnown /\ Gapless /\ NotedIsHandled
      /\ UNCHANGED <<epochs, conn, cursor, lastEpoch>>
      /\ hand # <<>> /\ hand' = <<>>
  BY DEF Inv, Handle, connection
<1> DEFINE ev == hand[1]
<1>1. ev \in Events /\ (ev.kind = "ack" \/ ev.note \in 1 .. Len(epochs))
  BY <1>0, NumberedEvents DEF EventsKnown
<1>2. Distinct' /\ EventsKnown'
  BY <1>0, DistinctIsSorted, HandleKeepsKnown DEF Distinct
<1>3. CASE ev.kind = "ack"
  <2>1. UNCHANGED <<queue, delivered, dropped>>
    BY <1>3 DEF Handle
  <2>2. \A n : Queued(n) => Queued(n)'
    BY <1>3, <2>1 DEF Queued
  <2>3. QED
    BY <1>0, <1>2, <2>1, <2>2 DEF Inv, Gapless, NotedIsHandled
<1>4. CASE ev.kind = "decrypted"
  <2>1. UNCHANGED <<queue, dropped>> /\ delivered' = [delivered EXCEPT ![ev.note] = @ + 1]
    BY <1>4 DEF Handle
  <2>2. delivered \in [Notes -> Nat]
    BY <1>0 DEF EventsKnown
  <2>3. \A n \in Notes : delivered[n] > 0 \/ n = ev.note => delivered'[n] > 0
    BY <2>1, <2>2
  <2>4. \A n : Queued(n) => Queued(n)' \/ n = ev.note
    BY <2>1 DEF Queued
  <2>5. \A n \in 1 .. Len(epochs) : n \in Notes
    BY <1>0 DEF Distinct
  <2>6. NotedIsHandled'
    BY <1>0, <2>1, <2>3, <2>4, <2>5 DEF NotedIsHandled
  <2>7. QED
    BY <1>0, <1>2, <2>1, <2>6 DEF Inv, Gapless
<1>5. CASE ev.kind = "raw" /\ queue' = Append(queue, Decrypted(ev.note))
  <2>1. UNCHANGED <<dropped, delivered>>
    BY <1>5 DEF Handle
  <2>2. /\ Decrypted(ev.note) \in Events /\ Decrypted(ev.note).kind = "decrypted"
        /\ Decrypted(ev.note).note = ev.note
    BY <1>1 DEF Decrypted, Events
  <2>3. /\ queue' \in Seq(Events) /\ Len(queue') = Len(queue) + 1
        /\ queue'[Len(queue) + 1] = Decrypted(ev.note)
        /\ \A i \in 1 .. Len(queue) : queue'[i] = queue[i]
        /\ \A n : Queued(n) => Queued(n)' \/ ev.note = n
    BY <1>0, <1>5, <2>2, PutKeepsQueued
  <2>4. Len(queue) \in Nat /\ Len(queue) + 1 \in 1 .. Len(queue')
    BY <1>0, <2>3 DEF EventsKnown
  <2>5. Gapless'
    BY <1>0, <1>5, <2>2, PutKeepsGapless
  <2>6. \A n : Queued(n) => Queued(n)'
    BY <2>2, <2>3, <2>4 DEF Queued
  <2>7. QED
    BY <1>0, <1>2, <2>1, <2>5, <2>6 DEF Inv, NotedIsHandled
<1>6. CASE ev.kind = "raw" /\ dropped' = dropped \cup {ev.note} /\ UNCHANGED queue
  <2>1. UNCHANGED <<queue, delivered>>
    BY <1>6 DEF Handle
  <2>2. \A n : Queued(n) => Queued(n)' \/ n \in dropped'
    BY <1>6 DEF Queued
  <2>3. QED
    BY <1>0, <1>2, <1>6, <2>1, <2>2 DEF Inv, Gapless, NotedIsHandled
<1>7. QED
  <2>1. ev.kind \in {"raw", "decrypted", "ack"}
    BY <1>1 DEF Events
  <2>2. ev.kind = "raw" => \/ queue' = Append(queue, Decrypted(ev.note))
                           \/ dropped' = dropped \cup {ev.note} /\ UNCHANGED queue
    BY DEF Handle
  <2>3. QED
    BY <1>3, <1>4, <1>5, <1>6, <2>1, <2>2

(* No other step touches the queue or the noted epochs, and a connection   *)
(* comes to life only by StartMonitor.                                     *)
LEMMA InvStep == ASSUME ~SameMillis PROVE Inv /\ [Next]_vars => Inv'
<1> SUFFICES ASSUME Inv, [Next]_vars PROVE Inv'
  OBVIOUS
<1>1. ASSUME UNCHANGED <<epochs, cursor, queue, hand, lastEpoch, delivered, dropped>>,
             conn' = "live" => conn = "live"
      PROVE  Inv'
  BY <1>1 DEF Inv, Distinct, EventsKnown, Gapless, NotedIsHandled, Queued
<1>2. CASE Break \/ LoopTop \/ BuildDone \/ BuildFails \/ StartFails \/ ConnectHangs \/ MonitorEnds \/ Wake
  BY <1>1, <1>2 DEF Break, LoopTop, BuildDone, BuildFails, StartFails, ConnectHangs, MonitorEnds, Wake, connection,
                    consumerVars
<1>3. CASE ConsumerExits \/ Tick \/ WatchdogTick \/ Stop \/ UNCHANGED vars
  BY <1>1, <1>3 DEF ConsumerExits, Tick, WatchdogTick, Stop, Disconnect, connection,
                    consumerVars, vars
<1>4. QED
  BY <1>2, <1>3, NotifyKeepsInv, StreamKeepsInv, AckKeepsInv, StartKeepsInv, TakeKeepsInv,
     HandleKeepsInv DEF Next, Loop, Consume

(* "Nothing is missed during the gap", when epochs are distinct: start(),  *)
(* _consume and the resume from _last_epoch.                               *)
THEOREM NothingIsMissed == ASSUME ~SameMillis PROVE Spec => []NothingMissed
<1>1. Inv => NothingMissed
  BY DEF Inv, Distinct, NotedIsHandled, NothingMissed
<1>2. QED
  BY InvInit, InvStep, <1>1, PTL DEF Spec
-----------------------------------------------------------------------------
(* Types                                                                   *)

(* What Inv leaves open: the flags, the places, the bounded clocks and the *)
(* records of what was delivered last and of what was given up.            *)
FlagsTyped == running \in BOOLEAN /\ consuming \in BOOLEAN
RestTyped ==
  /\ loop \in {"top", "build", "attach", "monitor", "sleep", "hung", "exited"}
  /\ conn \in {"none", "live", "silent", "closed"}
  /\ silence \in 0 .. MaxSilence + 1 /\ breaks \in 0 .. MaxBreaks
  /\ latest \in 0 .. MaxNotes /\ dropped \subseteq Notes

(* Initially nothing has happened.                                         *)
LEMMA RestInit == Init => FlagsTyped /\ RestTyped
BY DEF Init, FlagsTyped, RestTyped

(* The two flags are only ever put down.                                   *)
LEMMA FlagsStep == FlagsTyped /\ [Next]_vars => FlagsTyped'
<1> SUFFICES ASSUME FlagsTyped, [Next]_vars PROVE FlagsTyped'
  OBVIOUS
<1> USE DEF FlagsTyped, connection, consumerVars
<1>1. CASE Notify \/ Stream \/ HeartbeatAck \/ Break \/ Loop
  BY <1>1, Zenon DEF Notify, Stream, HeartbeatAck, Break, Loop, LoopTop, BuildDone, BuildFails,
                     StartFails, ConnectHangs, StartMonitor, MonitorEnds, Wake
<1>2. CASE Consume \/ Tick \/ WatchdogTick \/ Stop \/ UNCHANGED vars
  BY <1>2, Zenon DEF Consume, Take, Handle, ConsumerExits, Tick, WatchdogTick, Stop, vars
<1>3. QED
  BY <1>1, <1>2 DEF Next

(* An event is handled for a notification the server has sent.             *)
LEMMA HandleKeepsRest ==
  ASSUME Sorted, EventsKnown, RestTyped, Handle PROVE RestTyped'
<1>1. /\ UNCHANGED <<loop, conn, silence, breaks>>
      /\ latest' = latest \/ (hand[1].kind = "decrypted" /\ latest' = hand[1].note)
      /\ dropped' = dropped \/ (hand[1].kind = "raw" /\ dropped' = dropped \cup {hand[1].note})
  BY DEF Handle, connection
<1>2. hand[1].kind # "ack" => hand[1].note \in Notes
  <2>1. hand # <<>> /\ Len(epochs) \in Nat /\ Len(epochs) <= MaxNotes
    BY DEF Handle, Sorted
  <2>2. hand[1].kind # "ack" => hand[1].note \in 1 .. Len(epochs)
    BY <2>1 DEF EventsKnown
  <2>3. QED
    BY <2>1, <2>2
<1>3. latest' \in 0 .. MaxNotes
  BY <1>1, <1>2 DEF RestTyped
<1>4. dropped' \subseteq Notes
  BY <1>1, <1>2 DEF RestTyped
<1>5. QED
  BY <1>1, <1>3, <1>4 DEF RestTyped

(* Every other step moves only places and clocks: one is taken from a      *)
(* fixed set, the other advances below its bound or starts again.          *)
LEMMA RestStep == Sorted /\ EventsKnown /\ RestTyped /\ [Next]_vars => RestTyped'
<1> SUFFICES ASSUME Sorted, EventsKnown, RestTyped, [Next]_vars PROVE RestTyped'
  OBVIOUS
<1>1. ASSUME UNCHANGED <<latest, dropped>>,
             loop' \in {loop, "top", "build", "attach", "monitor", "sleep", "hung", "exited"},
             conn' \in {conn, "none", "live", "silent", "closed"},
             silence' \in {silence, 0} \/ (silence <= MaxSilence /\ silence' = silence + 1),
             breaks' = breaks \/ (breaks < MaxBreaks /\ breaks' = breaks + 1)
      PROVE  RestTyped'
  BY <1>1 DEF RestTyped
<1> USE DEF connection, consumerVars
<1>2. CASE Notify \/ Stream \/ HeartbeatAck \/ Break
  BY <1>1, <1>2 DEF Notify, Stream, HeartbeatAck, Break
<1>3. CASE Loop
  BY <1>1, <1>3 DEF Loop, LoopTop, BuildDone, BuildFails, StartFails, ConnectHangs, StartMonitor, MonitorEnds, Wake
<1>4. CASE Take \/ ConsumerExits
  BY <1>1, <1>4 DEF Take, ConsumerExits
<1>5. CASE Tick \/ Stop
  BY <1>1, <1>5 DEF Tick, Stop, Disconnect
<1>6. CASE WatchdogTick
  <2>1. UNCHANGED <<latest, dropped, loop>> /\ silence' = 0
    BY <1>6 DEF WatchdogTick
  <2>2. conn' \in {conn, "closed"}
    BY <1>6 DEF WatchdogTick, Disconnect
  <2>3. breaks' = breaks \/ (breaks < MaxBreaks /\ breaks' = breaks + 1)
    BY <1>6 DEF WatchdogTick
  <2>4. QED
    BY <1>1, <2>1, <2>2, <2>3
<1>7. CASE UNCHANGED vars
  BY <1>1, <1>7 DEF vars
<1>8. QED
  BY <1>2, <1>3, <1>4, <1>5, <1>6, <1>7, HandleKeepsRest DEF Next, Consume

(* Every variable of the subscriber keeps its type, its cursor within what *)
(* the server has, whether or not two notifications bear one epochMillis.  *)
THEOREM TypeCorrect == Spec => []TypeOK
<1>1. Sorted /\ EventsKnown /\ FlagsTyped /\ RestTyped => TypeOK
  BY DEF Sorted, EventsKnown, FlagsTyped, RestTyped, TypeOK
<1>2. Init => Sorted /\ EventsKnown
  BY InvInit, DistinctIsSorted DEF Inv
<1>3. QED
  BY <1>1, <1>2, KnownStep, RestInit, FlagsStep, RestStep, PTL DEF Spec
-----------------------------------------------------------------------------
(* One lost connection, one replay                                         *)

(* What is still to be handled, in hand or on the queue, by its place.      *)
pending == hand \o queue
NotesIn(s) == {i \in 1 .. Len(s) : s[i].kind # "ack"}

(* Which of two events in s reaches on_record first: a raw one goes once   *)
(* more to the end of the queue.                                           *)
Precedes(s, i, j) ==
  \/ i < j /\ s[i].kind = "raw" /\ s[j].kind = "raw"
  \/ i < j /\ s[i].kind = "decrypted" /\ s[j].kind = "decrypted"
  \/ s[i].kind = "decrypted" /\ s[j].kind = "raw"
Ascending(s) ==
  \A i, j \in 1 .. Len(s) : Precedes(s, i, j) => s[i].note < s[j].note
LastIs(s, n) ==
  \E i \in NotesIn(s) : s[i].note = n /\ \A j \in 1 .. Len(s) : ~Precedes(s, i, j)

(* Until something is replayed, notifications reach on_record in the order *)
(* they were sent in, each of them once.                                   *)
InOrder ==
  /\ Ascending(pending)
  /\ \A i \in NotesIn(pending) : latest < pending[i].note
  /\ \A n \in Notes : delivered[n] > 0 => n <= latest
Streamed == latest <= cursor /\ \A i \in NotesIn(pending) : pending[i].note <= cursor

(* The last call of on_record, as things stand, is for n.                  *)
EndsOn(n) == LastIs(pending, n) \/ (NotesIn(pending) = {} /\ latest = n)

(* No connection has replayed anything, and one may still do.               *)
Unreplayed == IF conn = "live" THEN breaks = 0 ELSE running \/ loop \in {"build", "attach"}

(* The places of start() and of its connection, and the first connection.   *)
Connection ==
  /\ conn = "live" => loop = "monitor"
  /\ loop = "attach" => conn = "none"
  /\ latest \in 0 .. Len(epochs)
  /\ conn # "live" /\ breaks = 0 /\ Unreplayed =>
       pending = <<>> /\ latest = 0 /\ \A n \in Notes : delivered[n] = 0

OneReplay ==
  /\ Unreplayed => InOrder /\ (conn = "live" => Streamed)
  /\ conn = "live" /\ cursor = Len(epochs) =>
       EndsOn(Len(epochs)) \/ Len(epochs) \in dropped

(* What is pending, place by place.                                        *)
LEMMA PendingFacts ==
  ASSUME Distinct, EventsKnown
  PROVE  /\ pending \in Seq(Events) /\ Len(pending) = Len(hand) + Len(queue)
         /\ Len(pending) \in Nat /\ Len(epochs) \in Nat
         /\ \A i \in 1 .. Len(pending) :
              /\ pending[i] \in Events
              /\ pending[i].kind \in {"raw", "decrypted", "ack"}
              /\ pending[i].kind # "ack" => pending[i].note \in 1 .. Len(epochs)
         /\ hand = <<>> => pending = queue
         /\ hand # <<>> => /\ Len(hand) = 1 /\ Len(pending) = Len(queue) + 1
                           /\ pending[1] = hand[1] /\ 1 \in 1 .. Len(pending)
                           /\ \A i \in 1 .. Len(queue) : pending[i + 1] = queue[i]
<1>1. /\ queue \in Seq(Events) /\ hand \in Seq(Events)
      /\ Len(queue) \in Nat /\ Len(hand) \in Nat /\ Len(hand) <= 1 /\ Len(epochs) \in Nat
  BY LenProperties DEF EventsKnown, Distinct
<1>2. /\ pending \in Seq(Events) /\ Len(pending) = Len(hand) + Len(queue)
      /\ \A i \in 1 .. Len(hand) + Len(queue) :
           pending[i] = IF i <= Len(hand) THEN hand[i] ELSE queue[i - Len(hand)]
  BY <1>1, ConcatProperties DEF pending
<1>3. hand = <<>> => pending = queue
  BY <1>1, ConcatEmptySeq DEF pending
<1>4. ASSUME hand # <<>> PROVE Len(hand) = 1
  <2>1. Len(hand) # 0
    BY <1>1, <1>4, TailFacts
  <2>2. \A n \in Nat : n <= 1 /\ n # 0 => n = 1
    OBVIOUS
  <2>3. QED
    BY <1>1, <2>1, <2>2
<1>5. hand # <<>> => /\ Len(pending) = Len(queue) + 1 /\ pending[1] = hand[1] /\ 1 \in 1 .. Len(pending)
                     /\ \A i \in 1 .. Len(queue) : pending[i + 1] = queue[i]
  BY <1>1, <1>2, <1>4
<1>6. ASSUME NEW i \in 1 .. Len(pending)
      PROVE  /\ pending[i] \in Events /\ pending[i].kind \in {"raw", "decrypted", "ack"}
             /\ pending[i].kind # "ack" => pending[i].note \in 1 .. Len(epochs)
  <2>1. pending[i] \in Events
    BY <1>2, ElementOfSeq
  <2>2. pending[i].kind \in {"raw", "decrypted", "ack"}
    BY <2>1 DEF Events
  <2>3. CASE hand = <<>>
    BY <1>1, <1>3, <2>1, <2>2, <2>3 DEF EventsKnown
  <2>4. CASE hand # <<>> /\ i = 1
    BY <1>1, <1>5, <2>1, <2>2, <2>4 DEF EventsKnown
  <2>5. CASE hand # <<>> /\ i # 1
    <3>a. i - 1 \in 1 .. Len(queue) /\ (i - 1) + 1 = i
      BY <1>1, <1>5, <2>5
    <3>1. i - 1 \in 1 .. Len(queue) /\ pending[i] = queue[i - 1]
      BY <1>5, <2>5, <3>a
    <3>2. QED
      BY <2>1, <2>2, <3>1 DEF EventsKnown
  <2>6. QED
    BY <2>3, <2>4, <2>5
<1>7. QED
  BY <1>1, <1>2, <1>3, <1>4, <1>5, <1>6

(* The notifications among them are ones the server has sent.               *)
LEMMA PendingNotes ==
  ASSUME Distinct, EventsKnown
  PROVE  \A i \in NotesIn(pending) : /\ pending[i].note \in 1 .. Len(epochs)
                                     /\ pending[i].note \in Nat
                                     /\ pending[i].kind \in {"raw", "decrypted"}
<1>1. ASSUME NEW i \in NotesIn(pending)
      PROVE  /\ pending[i].note \in 1 .. Len(epochs)
             /\ pending[i].kind \in {"raw", "decrypted", "ack"}
  <2>1. i \in 1 .. Len(pending) /\ pending[i].kind # "ack"
    BY DEF NotesIn
  <2>2. QED
    BY <2>1, PendingFacts
<1>2. QED
  BY <1>1 DEF NotesIn

(* An event taken in hand is still pending, at its place.                   *)
LEMMA TakeKeepsPending == ASSUME Inv, Take PROVE pending' = pending
<1>1. /\ Distinct /\ EventsKnown /\ Distinct' /\ EventsKnown'
      /\ hand = <<>> /\ queue # <<>> /\ hand' = <<Head(queue)>> /\ queue' = Tail(queue)
  BY TakeKeepsInv DEF Inv, Take
<1>2. /\ Len(queue) \in Nat \ {0} /\ Head(queue) = queue[1] /\ Len(queue') = Len(queue) - 1
      /\ \A i \in 1 .. Len(queue') : queue'[i] = queue[i + 1]
  BY <1>1, TailFacts DEF EventsKnown
<1>3. pending = queue /\ pending \in Seq(Events)
  BY <1>1, PendingFacts
<1>4. hand' # <<>> /\ hand'[1] = queue[1]
  BY <1>1, <1>2
<1>5. /\ pending' \in Seq(Events) /\ Len(pending') = Len(queue') + 1 /\ pending'[1] = hand'[1]
      /\ \A i \in 1 .. Len(queue') : pending'[i + 1] = queue'[i]
  <2>1. (Distinct /\ EventsKnown =>
           /\ pending \in Seq(Events)
           /\ hand # <<>> =>
                /\ Len(pending) = Len(queue) + 1 /\ pending[1] = hand[1]
                /\ \A i \in 1 .. Len(queue) : pending[i + 1] = queue[i])'
    BY PendingFacts, PTL
  <2>2. QED
    BY <1>1, <1>4, <2>1
<1>6. ASSUME NEW i \in 1 .. Len(pending) PROVE pending'[i] = pending[i]
  <2>1. CASE i = 1
    BY <1>3, <1>4, <1>5, <2>1
  <2>2. CASE i # 1
    <3>1. i - 1 \in 1 .. Len(queue')
      BY <1>2, <1>3, <2>2
    <3>2. pending'[(i - 1) + 1] = queue'[i - 1] /\ queue'[i - 1] = queue[(i - 1) + 1]
      BY <1>2, <1>5, <3>1
    <3>3. QED
      BY <1>3, <3>2
  <2>3. QED
    BY <2>1, <2>2
<1>7. QED
  BY <1>2, <1>3, <1>5, <1>6, SeqEqual

(* An event put on the queue is pending behind all others.                  *)
LEMMA PutOnPending ==
  ASSUME Distinct, EventsKnown, NEW e \in Events, queue' = Append(queue, e), hand' = hand
  PROVE  /\ Len(pending') = Len(pending) + 1 /\ pending'[Len(pending) + 1] = e
         /\ \A i \in 1 .. Len(pending) : pending'[i] = pending[i]
<1>1. /\ queue \in Seq(Events) /\ hand \in Seq(Events) /\ Len(queue) \in Nat /\ Len(hand) \in Nat
      /\ pending \in Seq(Events)
  BY LenProperties, PendingFacts DEF EventsKnown
<1>2. <<e>> \in Seq(Events) /\ queue' = queue \o <<e>>
  BY <1>1, AppendIsConcat
<1>3. pending' = pending \o <<e>>
  BY <1>1, <1>2, ConcatAssociative DEF pending
<1>4. pending' = Append(pending, e)
  BY <1>1, <1>3, AppendIsConcat
<1>5. QED
  BY <1>1, <1>4, AppendFacts

(* Handling takes the first pending event away.                            *)
LEMMA HandledFromPending ==
  ASSUME Distinct, EventsKnown, hand # <<>>, hand' = <<>>, UNCHANGED queue
  PROVE  /\ Len(pending') = Len(pending) - 1
         /\ \A i \in 1 .. Len(pending) - 1 : pending'[i] = pending[i + 1]
<1>1. queue \in Seq(Events) /\ Len(queue) \in Nat
  BY DEF EventsKnown
<1>2. pending' = queue
  BY <1>1, ConcatEmptySeq DEF pending
<1>3. /\ Len(pending) = Len(queue) + 1
      /\ \A i \in 1 .. Len(queue) : pending[i + 1] = queue[i]
  BY PendingFacts
<1>4. QED
  BY <1>1, <1>2, <1>3

(* A decrypted event takes the place behind all that is left.               *)
LEMMA HandledOntoPending ==
  ASSUME Distinct, EventsKnown, hand # <<>>, hand' = <<>>, NEW e \in Events,
         queue' = Append(queue, e)
  PROVE  /\ Len(pending') = Len(pending) /\ pending'[Len(pending)] = e
         /\ \A i \in 1 .. Len(pending) - 1 : pending'[i] = pending[i + 1]
<1>1. /\ queue \in Seq(Events) /\ Len(queue) \in Nat
      /\ queue' \in Seq(Events) /\ Len(queue') = Len(queue) + 1 /\ queue'[Len(queue) + 1] = e
      /\ \A i \in 1 .. Len(queue) : queue'[i] = queue[i]
  BY AppendFacts DEF EventsKnown
<1>2. pending' = queue'
  BY <1>1, ConcatEmptySeq DEF pending
<1>3. QED
  BY <1>1, <1>2, PendingFacts

(* A raw notification put behind all others comes last.                    *)
LEMMA RawComesLast ==
  ASSUME NEW s \in Seq(Events), NEW t \in Seq(Events), NEW n \in Nat,
         Len(t) = Len(s) + 1, t[Len(s) + 1] = Raw(n), \A i \in 1 .. Len(s) : t[i] = s[i]
  PROVE  /\ LastIs(t, n)
         /\ NotesIn(t) = NotesIn(s) \cup {Len(s) + 1}
         /\ (\A i \in NotesIn(s) : s[i].note < n) /\ Ascending(s) => Ascending(t)
<1>1. Len(s) \in Nat /\ t[Len(s) + 1].kind = "raw" /\ t[Len(s) + 1].note = n
  BY DEF Raw
<1>2. LastIs(t, n)
  BY <1>1 DEF LastIs, NotesIn, Precedes
<1>3. NotesIn(t) = NotesIn(s) \cup {Len(s) + 1}
  BY <1>1 DEF NotesIn
<1>4. ASSUME \A i \in NotesIn(s) : s[i].note < n, Ascending(s),
             NEW i \in 1 .. Len(t), NEW j \in 1 .. Len(t), Precedes(t, i, j)
      PROVE  t[i].note < t[j].note
  <2>1. CASE i \in 1 .. Len(s) /\ j \in 1 .. Len(s)
    BY <1>4, <2>1 DEF Ascending, Precedes
  <2>2. CASE i \in 1 .. Len(s) /\ j = Len(s) + 1
    BY <1>1, <1>4, <2>2 DEF NotesIn, Precedes
  <2>3. i # Len(s) + 1
    BY <1>1, <1>4 DEF Precedes
  <2>4. QED
    BY <1>1, <2>1, <2>2, <2>3
<1>5. QED
  BY <1>2, <1>3, <1>4 DEF Ascending

(* An ack comes neither before nor after anything.                         *)
LEMMA AckIsNoNote ==
  ASSUME NEW s \in Seq(Events), NEW t \in Seq(Events),
         Len(t) = Len(s) + 1, t[Len(s) + 1] = Ack, \A i \in 1 .. Len(s) : t[i] = s[i]
  PROVE  /\ NotesIn(t) = NotesIn(s)
         /\ Ascending(s) => Ascending(t)
         /\ \A n : LastIs(s, n) => LastIs(t, n)
<1>1. Len(s) \in Nat /\ t[Len(s) + 1].kind = "ack"
  BY DEF Ack
<1>2. NotesIn(t) = NotesIn(s)
  BY <1>1 DEF NotesIn
<1>3. \A i, j \in 1 .. Len(t) : Precedes(t, i, j) => /\ i \in 1 .. Len(s) /\ j \in 1 .. Len(s)
                                                    /\ Precedes(s, i, j)
  BY <1>1 DEF Precedes
<1>4. Ascending(s) => Ascending(t)
  BY <1>3 DEF Ascending
<1>5. ASSUME NEW n, LastIs(s, n) PROVE LastIs(t, n)
  <2>1. PICK i \in NotesIn(s) : s[i].note = n /\ \A j \in 1 .. Len(s) : ~Precedes(s, i, j)
    BY <1>5 DEF LastIs
  <2>2. i \in NotesIn(t) /\ i \in 1 .. Len(t) /\ t[i] = s[i]
    BY <1>1, <1>2, <2>1 DEF NotesIn
  <2>3. \A j \in 1 .. Len(t) : ~Precedes(t, i, j)
    BY <1>3, <2>1, <2>2
  <2>4. QED
    BY <2>1, <2>2, <2>3 DEF LastIs
<1>6. QED
  BY <1>2, <1>4, <1>5

(* When the first event leaves, the order of the others stays, and if it   *)
(* was the last to be delivered, no other notification is left.            *)
LEMMA FirstLeaves ==
  ASSUME NEW s \in Seq(Events), NEW t \in Seq(Events), Len(s) # 0,
         Len(t) = Len(s) - 1, \A i \in 1 .. Len(s) - 1 : t[i] = s[i + 1]
  PROVE  /\ \A i \in NotesIn(t) : i + 1 \in NotesIn(s) /\ t[i] = s[i + 1]
         /\ NotesIn(s) = {} => NotesIn(t) = {}
         /\ Ascending(s) => Ascending(t)
         /\ \A n : LastIs(s, n) => \/ LastIs(t, n)
                                   \/ s[1].kind # "ack" /\ s[1].note = n
         /\ s[1].kind = "decrypted" /\ Ascending(s) =>
              \A i \in NotesIn(t) : s[1].note < t[i].note
         /\ s[1].kind = "decrypted" =>
              \A n : LastIs(s, n) => LastIs(t, n) \/ (s[1].note = n /\ NotesIn(t) = {})
<1>1. Len(s) \in Nat /\ Len(t) \in Nat /\ \A i \in 1 .. Len(t) : i + 1 \in 1 .. Len(s)
  OBVIOUS
<1>2. \A i \in NotesIn(t) : i + 1 \in NotesIn(s) /\ t[i] = s[i + 1]
  BY <1>1 DEF NotesIn
<1>3. \A i, j \in 1 .. Len(t) : Precedes(t, i, j) <=> Precedes(s, i + 1, j + 1)
  BY <1>1, SMTT(30) DEF Precedes
<1>4. Ascending(s) => Ascending(t)
  BY <1>1, <1>3 DEF Ascending
<1>5. ASSUME NEW n, NEW i \in NotesIn(s), s[i].note = n,
             \A j \in 1 .. Len(s) : ~Precedes(s, i, j), i # 1
      PROVE  LastIs(t, n)
  <2>1. i - 1 \in 1 .. Len(t) /\ t[i - 1] = s[i]
    BY <1>1, <1>5 DEF NotesIn
  <2>2. i - 1 \in NotesIn(t)
    BY <1>5, <2>1 DEF NotesIn
  <2>3. ASSUME NEW j \in 1 .. Len(t) PROVE ~Precedes(t, i - 1, j)
    <3>1. (i - 1) + 1 = i /\ j + 1 \in 1 .. Len(s)
      BY <1>1, <1>5, <2>1 DEF NotesIn
    <3>2. QED
      BY <1>3, <1>5, <2>1, <3>1
  <2>4. QED
    BY <1>5, <2>1, <2>2, <2>3 DEF LastIs
<1>6. \A n : LastIs(s, n) => LastIs(t, n) \/ (s[1].kind # "ack" /\ s[1].note = n)
  BY <1>5 DEF LastIs, NotesIn
<1>7. \A i \in NotesIn(t) : t[i].kind \in {"raw", "decrypted"}
  <2>1. \A i \in 1 .. Len(t) : t[i] \in Events
    BY <1>1, ElementOfSeq
  <2>2. QED
    BY <2>1 DEF NotesIn, Events
<1>8. ASSUME s[1].kind = "decrypted", NEW i \in NotesIn(t)
      PROVE  Precedes(s, 1, i + 1) /\ i + 1 \in 1 .. Len(s)
  BY <1>1, <1>2, <1>7, <1>8 DEF Precedes, NotesIn
<1>9. 1 \in 1 .. Len(s)
  BY <1>1
<1>10. s[1].kind = "decrypted" /\ Ascending(s) => \A i \in NotesIn(t) : s[1].note < t[i].note
  BY <1>2, <1>8, <1>9 DEF Ascending
<1>11. ASSUME s[1].kind = "decrypted", NEW n, LastIs(s, n)
       PROVE  LastIs(t, n) \/ (s[1].note = n /\ NotesIn(t) = {})
  BY <1>5, <1>8, <1>11 DEF LastIs
<1>12. NotesIn(s) = {} => NotesIn(t) = {}
  BY <1>2
<1>13. QED
  BY <1>2, <1>4, <1>6, <1>10, <1>11, <1>12

(* Decrypting the first event changes no order and no last word.            *)
LEMMA FirstDecrypted ==
  ASSUME NEW s \in Seq(Events), NEW t \in Seq(Events), Len(s) # 0, s[1].kind = "raw",
         Len(t) = Len(s), t[Len(s)] = Decrypted(s[1].note),
         \A i \in 1 .. Len(s) - 1 : t[i] = s[i + 1]
  PROVE  /\ \A i \in NotesIn(t) : \E k \in NotesIn(s) : t[i].note = s[k].note
         /\ Ascending(s) => Ascending(t)
         /\ \A n : LastIs(s, n) => LastIs(t, n)
<1>1. /\ Len(s) \in Nat \ {0} /\ 1 \in NotesIn(s)
      /\ t[Len(s)].kind = "decrypted" /\ t[Len(s)].note = s[1].note
  BY DEF Decrypted, NotesIn
<1>2. \A i \in 1 .. Len(t) : i = Len(s) \/ (i \in 1 .. Len(s) - 1 /\ i + 1 \in 1 .. Len(s))
  BY <1>1
<1>3. \A i \in NotesIn(t) : \E k \in NotesIn(s) : t[i].note = s[k].note
  BY <1>1, <1>2 DEF NotesIn
<1>4. \A i, j \in 1 .. Len(s) - 1 : Precedes(t, i, j) <=> Precedes(s, i + 1, j + 1)
  BY <1>1 DEF Precedes
<1>5. \A i \in 1 .. Len(s) - 1 : /\ Precedes(t, i, Len(s)) <=> t[i].kind = "decrypted"
                                 /\ Precedes(t, Len(s), i) <=> t[i].kind = "raw"
  BY <1>1 DEF Precedes
<1>6. ~Precedes(t, Len(s), Len(s))
  BY <1>1 DEF Precedes
<1>7. \A i \in 1 .. Len(s) - 1 : /\ Precedes(s, i + 1, 1) <=> t[i].kind = "decrypted"
                                 /\ Precedes(s, 1, i + 1) <=> t[i].kind = "raw"
  BY <1>1 DEF Precedes
<1>8. ASSUME Ascending(s), NEW i \in 1 .. Len(t), NEW j \in 1 .. Len(t), Precedes(t, i, j)
      PROVE  t[i].note < t[j].note
  <2>1. CASE i # Len(s) /\ j # Len(s)
    BY <1>2, <1>4, <1>8, <2>1 DEF Ascending
  <2>2. CASE i # Len(s) /\ j = Len(s)
    BY <1>1, <1>2, <1>5, <1>7, <1>8, <2>2 DEF Ascending
  <2>3. CASE i = Len(s) /\ j # Len(s)
    BY <1>1, <1>2, <1>5, <1>7, <1>8, <2>3 DEF Ascending
  <2>4. QED
    BY <1>6, <1>8, <2>1, <2>2, <2>3
<1>9. ASSUME NEW n, LastIs(s, n) PROVE LastIs(t, n)
  <2>1. PICK i \in NotesIn(s) : s[i].note = n /\ \A j \in 1 .. Len(s) : ~Precedes(s, i, j)
    BY <1>9 DEF LastIs
  <2>2. CASE i = 1
    <3>1. Len(s) \in NotesIn(t) /\ t[Len(s)].note = n
      BY <1>1, <2>1, <2>2 DEF NotesIn
    <3>2. \A j \in 1 .. Len(t) : ~Precedes(t, Len(s), j)
      BY <1>2, <1>5, <1>6, <1>7, <2>1, <2>2
    <3>3. QED
      BY <3>1, <3>2 DEF LastIs
  <2>3. CASE i # 1
    <3>1. i - 1 \in 1 .. Len(s) - 1 /\ (i - 1) + 1 = i /\ t[i - 1] = s[i] /\ s[i].kind # "ack"
      BY <1>1, <2>1, <2>3 DEF NotesIn
    <3>2. i - 1 \in NotesIn(t)
      BY <1>1, <3>1 DEF NotesIn
    <3>3. ASSUME NEW j \in 1 .. Len(t) PROVE ~Precedes(t, i - 1, j)
      <4>1. CASE j = Len(s)
        BY <1>1, <1>5, <1>7, <2>1, <3>1, <4>1
      <4>2. CASE j # Len(s)
        BY <1>2, <1>4, <2>1, <3>1, <4>2
      <4>3. QED
        BY <4>1, <4>2
    <3>4. QED
      BY <2>1, <3>1, <3>2, <3>3 DEF LastIs
  <2>4. QED
    BY <2>2, <2>3
<1>10. QED
  BY <1>3, <1>8, <1>9 DEF Ascending

(* What the monitor passes on comes last of all.                           *)
LEMMA StreamKeepsOrder ==
  ASSUME Inv, Stream, OneReplay, Connection
  PROVE  OneReplay' /\ Connection'
<1>0. /\ Distinct /\ EventsKnown /\ Distinct' /\ EventsKnown'
      /\ UNCHANGED <<epochs, conn, breaks, running, loop, hand, delivered, latest, dropped>>
      /\ conn = "live" /\ cursor < Len(epochs) /\ cursor' = cursor + 1
      /\ queue' = Append(queue, Raw(cursor + 1))
  BY StreamKeepsInv DEF Inv, Stream, consumerVars
<1>1. /\ cursor \in Nat /\ Len(epochs) \in Nat /\ pending \in Seq(Events)
      /\ Len(pending) \in Nat /\ latest \in Nat
      /\ \A i \in NotesIn(pending) : pending[i].note \in Nat
  <2>1. pending \in Seq(Events) /\ Len(pending) \in Nat /\ Len(epochs) \in Nat
    BY <1>0, PendingFacts
  <2>2. QED
    BY <1>0, <2>1, PendingNotes DEF Distinct, Connection
<1>2. Raw(cursor + 1) \in Events /\ Raw(cursor + 1).note = cursor + 1
  BY <1>0, <1>1 DEF Raw, Events, Distinct
<1>3. /\ Len(pending') = Len(pending) + 1 /\ pending'[Len(pending) + 1] = Raw(cursor + 1)
      /\ \A i \in 1 .. Len(pending) : pending'[i] = pending[i]
  BY <1>0, <1>2, PutOnPending
<1>4. pending' \in Seq(Events)
  BY <1>0, ConcatProperties DEF EventsKnown, pending
<1>5. /\ LastIs(pending', cursor + 1)
      /\ NotesIn(pending') = NotesIn(pending) \cup {Len(pending) + 1}
      /\ (\A i \in NotesIn(pending) : pending[i].note < cursor + 1) /\ Ascending(pending) =>
           Ascending(pending')
  BY <1>1, <1>3, <1>4, RawComesLast
<1>6. ASSUME Unreplayed PROVE InOrder' /\ Streamed'
  <2>1. InOrder /\ Streamed
    BY <1>0, <1>6 DEF OneReplay
  <2>2. \A i \in NotesIn(pending) : pending[i].note < cursor + 1
    BY <1>1, <2>1 DEF Streamed
  <2>3. Ascending(pending')
    BY <1>5, <2>1, <2>2 DEF InOrder
  <2>4. latest < cursor + 1 /\ latest <= cursor + 1
    BY <1>1, <2>1 DEF Streamed
  <2>5. ASSUME NEW i \in NotesIn(pending')
        PROVE  latest < pending'[i].note /\ pending'[i].note <= cursor + 1
    <3>1. CASE i \in NotesIn(pending)
      BY <1>1, <1>3, <2>1, <2>2, <3>1 DEF InOrder, NotesIn
    <3>2. CASE i = Len(pending) + 1
      BY <1>1, <1>2, <1>3, <2>4, <3>2
    <3>3. QED
      BY <1>5, <2>5, <3>1, <3>2
  <2>6. QED
    BY <1>0, <2>1, <2>3, <2>4, <2>5 DEF InOrder, Streamed
<1>7. Unreplayed' <=> Unreplayed
  BY <1>0 DEF Unreplayed
<1>8. \A n : n = cursor + 1 => EndsOn(n)'
  BY <1>5 DEF EndsOn
<1>9. OneReplay'
  <2>1. cursor' = Len(epochs') => EndsOn(Len(epochs))'
    BY <1>0, <1>8
  <2>2. QED
    BY <1>0, <1>6, <1>7, <2>1 DEF OneReplay
<1>10. QED
  BY <1>0, <1>9 DEF Connection

(* An ack waiting to be handled changes no order.                          *)
LEMMA AckKeepsOrder ==
  ASSUME Inv, HeartbeatAck, OneReplay, Connection
  PROVE  OneReplay' /\ Connection'
<1>0. /\ Distinct /\ EventsKnown /\ EventsKnown'
      /\ UNCHANGED <<epochs, conn, cursor, breaks, running, loop, hand, delivered, latest, dropped>>
      /\ conn = "live" /\ queue' = Append(queue, Ack)
  BY AckKeepsInv DEF Inv, HeartbeatAck, connection, consumerVars
<1>1. Ack \in Events /\ pending \in Seq(Events) /\ pending' \in Seq(Events)
  BY <1>0, ConcatProperties DEF Ack, Events, EventsKnown, pending
<1>2. /\ Len(pending') = Len(pending) + 1 /\ pending'[Len(pending) + 1] = Ack
      /\ \A i \in 1 .. Len(pending) : pending'[i] = pending[i]
  BY <1>0, <1>1, PutOnPending
<1>3. /\ NotesIn(pending') = NotesIn(pending)
      /\ Ascending(pending) => Ascending(pending')
      /\ \A n : LastIs(pending, n) => LastIs(pending', n)
  BY <1>1, <1>2, AckIsNoNote
<1>4. \A i \in NotesIn(pending) : pending'[i] = pending[i]
  BY <1>2 DEF NotesIn
<1>5. InOrder => InOrder'
  BY <1>0, <1>3, <1>4 DEF InOrder
<1>6. Streamed => Streamed'
  BY <1>0, <1>3, <1>4 DEF Streamed
<1>7. \A n : EndsOn(n) => EndsOn(n)'
  BY <1>0, <1>3 DEF EndsOn
<1>8. Unreplayed' <=> Unreplayed
  BY <1>0 DEF Unreplayed
<1>9. OneReplay'
  BY <1>0, <1>5, <1>6, <1>7, <1>8 DEF OneReplay
<1>10. QED
  BY <1>0, <1>9 DEF Connection

(* Handling delivers in order, and the last word is kept until it is given *)
(* up.                                                                     *)
LEMMA HandleKeepsOrder ==
  ASSUME Inv, Handle, OneReplay, Connection
  PROVE  OneReplay' /\ Connection'
<1> DEFINE ev == hand[1]
<1>0. /\ Distinct /\ EventsKnown /\ Distinct' /\ EventsKnown'
      /\ UNCHANGED <<epochs, conn, cursor, breaks, running, loop>>
      /\ hand # <<>> /\ hand' = <<>>
  BY HandleKeepsInv DEF Inv, Handle, connection
<1>1. /\ pending \in Seq(Events) /\ pending' \in Seq(Events) /\ Len(pending) \in Nat
      /\ Len(pending) # 0 /\ pending[1] = ev /\ ev \in Events
      /\ ev.kind # "ack" => ev.note \in 1 .. Len(epochs)
      /\ Len(epochs) \in Nat /\ Len(epochs) <= MaxNotes /\ cursor \in Nat /\ latest \in Nat
      /\ \A i \in NotesIn(pending) : pending[i].note \in Nat
  <2>1. pending' \in Seq(Events)
    BY <1>0, ConcatProperties DEF EventsKnown, pending
  <2>2. /\ pending \in Seq(Events) /\ Len(pending) \in Nat /\ 1 \in 1 .. Len(pending)
        /\ pending[1] = ev /\ Len(epochs) \in Nat
    BY <1>0, PendingFacts
  <2>3. ev.kind # "ack" => ev.note \in 1 .. Len(epochs)
    BY <1>0 DEF EventsKnown
  <2>4. \A i \in NotesIn(pending) : pending[i].note \in Nat
    BY <1>0, PendingNotes
  <2>5. Len(pending) # 0 /\ ev \in Events
    BY <1>0, <2>2, NumberedEvents
  <2>6. Len(epochs) <= MaxNotes /\ cursor \in Nat /\ latest \in Nat
    BY <1>0, <2>2 DEF Distinct, Connection
  <2>7. QED
    BY <2>1, <2>2, <2>3, <2>4, <2>5, <2>6
<1>2. pending # <<>>
  BY <1>1, EmptySeq
<1>3. ~(conn # "live" /\ breaks = 0 /\ Unreplayed)
  BY <1>2 DEF Connection
<1>4. Unreplayed' <=> Unreplayed
  BY <1>0 DEF Unreplayed
<1>5. ASSUME latest' \in 0 .. Len(epochs), InOrder => InOrder', Streamed /\ InOrder => Streamed',
             \A n : EndsOn(n) => EndsOn(n)' \/ n \in dropped', dropped \subseteq dropped'
      PROVE  OneReplay' /\ Connection'
  <2>1. OneReplay'
    BY <1>0, <1>4, <1>5 DEF OneReplay
  <2>2. Connection'
    BY <1>0, <1>3, <1>4, <1>5 DEF Connection
  <2>3. QED
    BY <2>1, <2>2
<1>6. ASSUME UNCHANGED queue
      PROVE  /\ \A i \in NotesIn(pending') : i + 1 \in NotesIn(pending) /\ pending'[i] = pending[i + 1]
             /\ NotesIn(pending) = {} => NotesIn(pending') = {}
             /\ Ascending(pending) => Ascending(pending')
             /\ \A n : LastIs(pending, n) => \/ LastIs(pending', n)
                                             \/ ev.kind # "ack" /\ ev.note = n
             /\ ev.kind = "decrypted" /\ Ascending(pending) =>
                  \A i \in NotesIn(pending') : ev.note < pending'[i].note
             /\ ev.kind = "decrypted" =>
                  \A n : LastIs(pending, n) =>
                           LastIs(pending', n) \/ (ev.note = n /\ NotesIn(pending') = {})
  <2>1. /\ Len(pending') = Len(pending) - 1
        /\ \A i \in 1 .. Len(pending) - 1 : pending'[i] = pending[i + 1]
    BY <1>0, <1>6, HandledFromPending
  <2>2. /\ \A i \in NotesIn(pending') : i + 1 \in NotesIn(pending) /\ pending'[i] = pending[i + 1]
        /\ NotesIn(pending) = {} => NotesIn(pending') = {}
        /\ Ascending(pending) => Ascending(pending')
        /\ \A n : LastIs(pending, n) => \/ LastIs(pending', n)
                                        \/ pending[1].kind # "ack" /\ pending[1].note = n
        /\ pending[1].kind = "decrypted" /\ Ascending(pending) =>
             \A i \in NotesIn(pending') : pending[1].note < pending'[i].note
        /\ pending[1].kind = "decrypted" =>
             \A n : LastIs(pending, n) => LastIs(pending', n) \/ (pending[1].note = n /\ NotesIn(pending') = {})
    <3>1. pending \in Seq(Events) /\ pending' \in Seq(Events) /\ Len(pending) # 0
      BY <1>1
    <3>2. QED
      BY <2>1, <3>1, FirstLeaves, SMTT(30)
  <2>3. pending[1] = ev
    BY <1>1
  <2>4. QED
    BY <2>2, <2>3, Zenon
<1>7. CASE ev.kind = "ack" \/ (ev.kind = "raw" /\ dropped' = dropped \cup {ev.note} /\ UNCHANGED queue)
  <2>1. /\ UNCHANGED <<queue, delivered, latest>> /\ dropped \subseteq dropped'
        /\ ev.kind # "ack" => ev.note \in dropped'
    BY <1>7 DEF Handle
  <2>2. InOrder => InOrder'
    BY <1>6, <2>1 DEF InOrder
  <2>3. Streamed => Streamed'
    BY <1>0, <1>6, <2>1 DEF Streamed
  <2>4. \A n : EndsOn(n) => EndsOn(n)' \/ n \in dropped'
    BY <1>6, <2>1 DEF EndsOn
  <2>5. latest' \in 0 .. Len(epochs)
    BY <2>1 DEF Connection
  <2>6. QED
    BY <1>5, <2>1, <2>2, <2>3, <2>4, <2>5
<1>8. CASE ev.kind = "decrypted"
  <2>1. /\ UNCHANGED <<queue, dropped>> /\ latest' = ev.note
        /\ delivered' = [delivered EXCEPT ![ev.note] = @ + 1]
    BY <1>8 DEF Handle
  <2>2. 1 \in NotesIn(pending) /\ ev.note \in 1 .. Len(epochs)
    BY <1>1, <1>8 DEF NotesIn
  <2>3. ASSUME InOrder PROVE InOrder'
    <3>1. latest < ev.note /\ \A n \in Notes : delivered[n] > 0 => n <= latest
      BY <1>1, <2>2, <2>3 DEF InOrder
    <3>2. ASSUME NEW n \in Notes, delivered'[n] > 0 PROVE n <= latest'
      <4>1. CASE n = ev.note
        BY <2>1, <2>2, <4>1
      <4>2. CASE n # ev.note
        <5>1. delivered'[n] = delivered[n]
          BY <1>0, <2>1, <4>2 DEF EventsKnown
        <5>2. n <= latest
          BY <3>1, <3>2, <5>1
        <5>3. QED
          BY <1>1, <2>1, <2>2, <3>1, <5>2
      <4>3. QED
        BY <4>1, <4>2
    <3>3. Ascending(pending') /\ \A i \in NotesIn(pending') : ev.note < pending'[i].note
      BY <1>6, <1>8, <2>1, <2>3 DEF InOrder
    <3>4. QED
      BY <2>1, <3>2, <3>3 DEF InOrder
  <2>4. Streamed => Streamed'
    <3>1. Streamed => ev.note <= cursor
      BY <1>1, <2>2 DEF Streamed
    <3>2. QED
      BY <1>0, <1>6, <2>1, <3>1 DEF Streamed
  <2>5. \A n : EndsOn(n) => EndsOn(n)'
    BY <1>6, <1>8, <2>1, <2>2 DEF EndsOn
  <2>6. latest' \in 0 .. Len(epochs)
    BY <1>1, <2>1, <2>2
  <2>7. QED
    BY <1>5, <2>1, <2>3, <2>4, <2>5, <2>6
<1>9. CASE ev.kind = "raw" /\ queue' = Append(queue, Decrypted(ev.note))
  <2>1. UNCHANGED <<delivered, latest, dropped>>
    BY <1>9 DEF Handle
  <2>2. Decrypted(ev.note) \in Events
    BY <1>1, <1>9 DEF Decrypted, Events
  <2>3. /\ Len(pending') = Len(pending) /\ pending'[Len(pending)] = Decrypted(pending[1].note)
        /\ \A i \in 1 .. Len(pending) - 1 : pending'[i] = pending[i + 1]
    BY <1>0, <1>1, <1>9, <2>2, HandledOntoPending
  <2>4. /\ \A i \in NotesIn(pending') : \E k \in NotesIn(pending) : pending'[i].note = pending[k].note
        /\ Ascending(pending) => Ascending(pending')
        /\ \A n : LastIs(pending, n) => LastIs(pending', n)
    BY <1>1, <1>9, <2>3, FirstDecrypted
  <2>5. InOrder => InOrder'
    BY <2>1, <2>4 DEF InOrder
  <2>6. Streamed => Streamed'
    BY <1>0, <2>1, <2>4 DEF Streamed
  <2>7. NotesIn(pending) # {}
    BY <1>1, <1>9, SMTT(30) DEF NotesIn
  <2>8. \A n : EndsOn(n) => EndsOn(n)'
    BY <2>4, <2>7 DEF EndsOn
  <2>9. latest' \in 0 .. Len(epochs)
    BY <2>1 DEF Connection
  <2>10. QED
    BY <1>5, <2>1, <2>5, <2>6, <2>8, <2>9
<1>10. QED
  <2>1. ev.kind \in {"raw", "decrypted", "ack"}
    BY <1>1 DEF Events
  <2>2. ev.kind = "raw" => \/ queue' = Append(queue, Decrypted(ev.note))
                           \/ dropped' = dropped \cup {ev.note} /\ UNCHANGED queue
    BY DEF Handle
  <2>3. QED
    BY <1>7, <1>8, <1>9, <2>1, <2>2

(* What is queued or in hand has its place among what is pending.          *)
LEMMA QueuedIsPending ==
  ASSUME Distinct, EventsKnown, NEW n, Queued(n)
  PROVE  \E i \in NotesIn(pending) : pending[i].note = n
<1>1. CASE \E i \in 1 .. Len(queue) : queue[i].kind # "ack" /\ queue[i].note = n
  <2>1. PICK i \in 1 .. Len(queue) : queue[i].kind # "ack" /\ queue[i].note = n
    BY <1>1
  <2>2. CASE hand = <<>>
    BY <2>1, <2>2, PendingFacts DEF NotesIn
  <2>3. CASE hand # <<>>
    <3>1. i + 1 \in 1 .. Len(pending) /\ pending[i + 1] = queue[i]
      BY <2>1, <2>3, PendingFacts DEF EventsKnown
    <3>2. QED
      BY <2>1, <3>1 DEF NotesIn
  <2>4. QED
    BY <2>2, <2>3
<1>2. CASE hand # <<>> /\ hand[1].kind # "ack" /\ hand[1].note = n
  BY <1>2, PendingFacts DEF NotesIn
<1>3. QED
  BY <1>1, <1>2 DEF Queued

(* A connection that replays nothing new finds the newest last in order.    *)
LEMMA StartKeepsOrder ==
  ASSUME Inv, StartMonitor, OneReplay, Connection
  PROVE  OneReplay' /\ Connection'
<1>0. /\ Distinct /\ EventsKnown /\ NotedIsHandled
      /\ UNCHANGED <<epochs, breaks, running, hand, queue, lastEpoch, delivered, latest, dropped>>
      /\ loop = "attach" /\ conn = "none" /\ conn' = "live" /\ loop' = "monitor"
  BY DEF Inv, StartMonitor, consumerVars, Connection
<1>1. cursor' = lastEpoch /\ lastEpoch \in 0 .. Len(epochs)
  BY <1>0, ResumesAfterTheNoted DEF Distinct
<1>2. UNCHANGED pending
  BY <1>0 DEF pending
<1>3. Unreplayed /\ InOrder
  BY <1>0 DEF Unreplayed, OneReplay
<1>4. InOrder'
  BY <1>0, <1>2, <1>3 DEF InOrder
<1>5. /\ Len(epochs) \in Nat /\ latest \in 0 .. Len(epochs)
      /\ \A i \in NotesIn(pending) : /\ pending[i].note \in 1 .. Len(epochs)
                                     /\ pending[i].kind \in {"raw", "decrypted"}
  BY <1>0, PendingFacts, PendingNotes DEF Connection
<1>6. ASSUME breaks = 0 PROVE Streamed'
  <2>1. pending = <<>> /\ latest = 0
    BY <1>0, <1>3, <1>6 DEF Connection
  <2>2. NotesIn(pending') = {}
    BY <1>2, <2>1 DEF NotesIn
  <2>3. QED
    BY <1>0, <1>1, <2>1, <2>2 DEF Streamed
<1>7. ASSUME lastEpoch = Len(epochs) PROVE EndsOn(Len(epochs)) \/ Len(epochs) \in dropped
  <2> DEFINE N == Len(epochs)
  <2>1. CASE N = 0
    BY <1>5, <2>1 DEF EndsOn
  <2>2. CASE N # 0 /\ delivered[N] > 0
    <3>1. N \in Notes
      BY <1>0, <1>5, <2>2 DEF Distinct
    <3>2. latest = N
      BY <1>3, <1>5, <2>2, <3>1 DEF InOrder
    <3>3. NotesIn(pending) = {}
      BY <1>3, <1>5, <3>2 DEF InOrder
    <3>4. QED
      BY <3>2, <3>3 DEF EndsOn
  <2>3. CASE N # 0 /\ Queued(N)
    <3>1. PICK i \in NotesIn(pending) : pending[i].note = N
      BY <1>0, <2>3, QueuedIsPending
    <3>2. ASSUME NEW j \in 1 .. Len(pending) PROVE ~Precedes(pending, i, j)
      <4>1. SUFFICES ASSUME Precedes(pending, i, j) PROVE FALSE
        OBVIOUS
      <4>2. j \in NotesIn(pending) /\ i \in 1 .. Len(pending)
        BY <4>1 DEF Precedes, NotesIn
      <4>3. N < pending[j].note
        BY <1>3, <3>1, <4>1, <4>2 DEF InOrder, Ascending
      <4>4. QED
        BY <1>5, <4>2, <4>3
    <3>3. QED
      BY <3>1, <3>2 DEF EndsOn, LastIs
  <2>4. N # 0 => delivered[N] > 0 \/ Queued(N) \/ N \in dropped
    BY <1>0, <1>5, <1>7 DEF NotedIsHandled
  <2>5. QED
    BY <2>1, <2>2, <2>3, <2>4
<1>8. OneReplay'
  <2>1. \A n : EndsOn(n) => EndsOn(n)'
    BY <1>0, <1>2 DEF EndsOn
  <2>2. Unreplayed' => breaks = 0
    BY <1>0 DEF Unreplayed
  <2>3. QED
    BY <1>0, <1>1, <1>4, <1>6, <1>7, <2>1, <2>2 DEF OneReplay
<1>9. Connection'
  BY <1>0, <1>2 DEF Connection
<1>10. QED
  BY <1>8, <1>9

(* Every other step leaves what is pending, and ends the first connection  *)
(* only by the one break there may be, or for good.                        *)
LEMMA OrderStep ==
  ASSUME MaxBreaks <= 1, Inv, Inv', RestTyped, [Next]_vars, OneReplay, Connection
  PROVE  OneReplay' /\ Connection'
<1> USE DEF connection, consumerVars
<1>1. ASSUME UNCHANGED <<epochs, cursor, pending, latest, delivered, dropped>>,
             conn' = "live" => conn = "live" /\ loop' = "monitor",
             loop' = "attach" => conn' = "none",
             Unreplayed' => Unreplayed,
             breaks' = 0 /\ Unreplayed' /\ conn = "live" => conn' = "live",
             breaks' = 0 => breaks = 0
      PROVE  OneReplay' /\ Connection'
  <2>1. \A n : EndsOn(n) => EndsOn(n)'
    BY <1>1 DEF EndsOn
  <2>2. (InOrder => InOrder') /\ (Streamed => Streamed')
    BY <1>1 DEF InOrder, Streamed
  <2>3. OneReplay'
    BY <1>1, <2>1, <2>2 DEF OneReplay
  <2>4. Connection'
    BY <1>1 DEF Connection
  <2>5. QED
    BY <2>3, <2>4
<1>2. breaks \in Nat /\ (breaks < MaxBreaks => breaks = 0 /\ breaks + 1 # 0)
  BY DEF RestTyped
<1>3. CASE Notify
  <2>1. /\ UNCHANGED <<cursor, pending, latest, delivered, dropped, conn, breaks, running, loop>>
        /\ Len(epochs') = Len(epochs) + 1
    BY <1>3 DEF Notify, pending, Inv, Distinct
  <2>2. cursor # Len(epochs') /\ \A n : n \in 0 .. Len(epochs) => n \in 0 .. Len(epochs')
    BY <2>1 DEF Inv, Distinct
  <2>3. (InOrder => InOrder') /\ (Streamed => Streamed') /\ (Unreplayed' => Unreplayed)
    BY <2>1 DEF InOrder, Streamed, Unreplayed
  <2>4. OneReplay'
    BY <2>1, <2>2, <2>3 DEF OneReplay
  <2>5. Connection'
    BY <2>1, <2>2, <2>3 DEF Connection
  <2>6. QED
    BY <2>4, <2>5
<1>4. CASE Break
  <2>1. /\ UNCHANGED <<epochs, cursor, pending, latest, delivered, dropped, loop, running>>
        /\ conn = "live" /\ conn' # "live" /\ breaks = 0 /\ breaks' # 0
    BY <1>2, <1>4 DEF Break, pending
  <2>2. Unreplayed /\ loop' = "monitor"
    BY <2>1 DEF Unreplayed, Connection
  <2>3. QED
    BY <1>1, <2>1, <2>2
<1>5. CASE LoopTop \/ BuildDone \/ BuildFails \/ StartFails \/ ConnectHangs \/ MonitorEnds \/ Wake
  <2>1. /\ UNCHANGED <<epochs, cursor, pending, latest, delivered, dropped, running, breaks>>
        /\ loop \in {"top", "build", "attach", "monitor", "sleep"}
        /\ loop = "monitor" => conn = "closed"
        /\ conn' = conn \/ conn' = "none"
        /\ loop' = "attach" => conn' = "none"
        /\ loop' \in {"build", "attach"} => running \/ loop = "build"
    BY <1>5 DEF LoopTop, BuildDone, BuildFails, StartFails, ConnectHangs, MonitorEnds, Wake, pending
  <2>2. conn # "live" /\ conn' # "live"
    BY <2>1 DEF Connection
  <2>3. Unreplayed' => Unreplayed
    BY <2>1, <2>2 DEF Unreplayed
  <2>4. QED
    BY <1>1, <2>1, <2>2, <2>3
<1>6. CASE Take \/ ConsumerExits \/ Tick \/ UNCHANGED vars
  <2>1. UNCHANGED <<epochs, cursor, latest, delivered, dropped, conn, loop, running, breaks>>
    BY <1>6 DEF Take, ConsumerExits, Tick, vars
  <2>2. UNCHANGED pending
    <3>1. CASE Take
      BY <3>1, TakeKeepsPending
    <3>2. CASE ConsumerExits \/ Tick \/ UNCHANGED vars
      BY <3>2 DEF ConsumerExits, Tick, vars, pending
    <3>3. QED
      BY <1>6, <3>1, <3>2
  <2>3. Unreplayed' => Unreplayed
    BY <2>1 DEF Unreplayed
  <2>4. QED
    BY <1>1, <2>1, <2>2, <2>3 DEF Connection
<1>7. CASE WatchdogTick
  <2>1. /\ UNCHANGED <<epochs, cursor, pending, latest, delivered, dropped, loop, running>>
        /\ conn' = IF conn \in {"live", "silent"} THEN "closed" ELSE conn
        /\ conn = "live" => breaks = 0 /\ breaks' # 0
        /\ conn # "live" => breaks' = breaks
    BY <1>2, <1>7 DEF WatchdogTick, Disconnect, pending
  <2>2. conn' # "live"
    BY <2>1
  <2>3. Unreplayed' => Unreplayed
    BY <2>1, <2>2 DEF Unreplayed
  <2>4. QED
    BY <1>1, <2>1, <2>2, <2>3 DEF Connection
<1>8. CASE Stop
  <2>1. /\ UNCHANGED <<epochs, cursor, pending, latest, delivered, dropped, loop, breaks>>
        /\ conn' = IF conn \in {"live", "silent"} THEN "closed" ELSE conn
        /\ ~running'
    BY <1>8 DEF Stop, Disconnect, pending
  <2>2. conn' # "live"
    BY <2>1
  <2>3. Unreplayed' => conn # "live" /\ Unreplayed
    BY <2>1, <2>2 DEF Unreplayed, Connection
  <2>4. QED
    BY <1>1, <2>1, <2>2, <2>3 DEF Connection
<1>9. QED
  BY <1>3, <1>4, <1>5, <1>6, <1>7, <1>8, StreamKeepsOrder, AckKeepsOrder, StartKeepsOrder,
     HandleKeepsOrder DEF Next, Loop, Consume

(* Initially nothing is pending.                                           *)
LEMMA OrderInit == Init => OneReplay /\ Connection
<1> SUFFICES ASSUME Init PROVE OneReplay /\ Connection
  OBVIOUS
<1>1. pending = <<>> /\ latest = 0 /\ \A n \in Notes : delivered[n] = 0
  BY DEF Init, pending
<1>2. InOrder
  BY <1>1 DEF InOrder, Ascending, NotesIn
<1>3. QED
  BY <1>1, <1>2 DEF Init, OneReplay, Connection

(* Once all is handled, the record delivered last is the newest one, if no *)
(* two notifications bear one millisecond and at most one connection was   *)
(* lost: start() resuming while the queue still holds what was streamed.   *)
THEOREM TheLastRecordIsTheNewest ==
  ASSUME ~SameMillis, MaxBreaks <= 1 PROVE Spec => []EndsOnTheNewest
<1>1. ASSUME OneReplay PROVE EndsOnTheNewest
  <2>1. SUFFICES ASSUME conn = "live", cursor = Len(epochs), hand = <<>>, queue = <<>>
                 PROVE  latest = Len(epochs) \/ Len(epochs) \in dropped
    BY DEF EndsOnTheNewest
  <2>2. NotesIn(pending) = {}
    BY <2>1 DEF NotesIn, pending
  <2>3. EndsOn(Len(epochs)) \/ Len(epochs) \in dropped
    BY <1>1, <2>1 DEF OneReplay
  <2>4. QED
    BY <2>2, <2>3 DEF EndsOn, LastIs
<1>2. Inv /\ RestTyped /\ OneReplay /\ Connection /\ [Next]_vars =>
        (Inv /\ RestTyped /\ OneReplay /\ Connection)'
  BY InvStep, RestStep, OrderStep, DistinctIsSorted DEF Inv
<1>3. Init => Inv /\ RestTyped /\ OneReplay /\ Connection
  BY InvInit, RestInit, OrderInit
<1>4. QED
  BY <1>1, <1>2, <1>3, PTL DEF Spec
=============================================================================

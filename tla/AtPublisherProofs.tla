-------------------------- MODULE AtPublisherProofs --------------------------
(***************************************************************************)
(* Proofs about the publisher, for any threads, any deadline, any number   *)
(* of sends and of abandoned sends.                                        *)
(***************************************************************************)
EXTENDS AtPublisher, FiniteSetTheorems, TLAPS

USE PublisherAssumption DEF Sends, Nobody, callers, workers, shared, history

-----------------------------------------------------------------------------
(* The send lock                                                           *)

(* The lock's holder is the one caller in a join.                          *)
HolderJoins ==
  /\ lock \in Callers \cup {Nobody}
  /\ joined \in [Callers -> 0 .. MaxSends]
  /\ call \in [Callers -> {"out", "wait", "join"}]
  /\ \A c \in Callers : call[c] = "join" <=> lock = c

(* Any worker still running is the one joined under the lock or has been   *)
(* abandoned: this is what makes the lock, not the worker, the guard.      *)
NoOrphan ==
  /\ at \in [Sends -> Places] /\ sends \in 0 .. MaxSends
  /\ \A n \in Sends : at[n] \notin {"none", "ok", "error"} =>
       Abandoned(n) \/ (lock \in Callers /\ joined[lock] = n)

LockInv == HolderJoins /\ NoOrphan

(* Initially nobody holds the lock and nothing runs.                       *)
LEMMA LockInit == Init => LockInv
BY DEF Init, LockInv, HolderJoins, NoOrphan, Places

(* A worker's own steps touch neither the lock nor the joins, and never    *)
(* bring a finished or unborn worker to life.                              *)
LEMMA WorkerKeepsLockInv ==
  ASSUME LockInv, NEW n \in Sends, Worker(n)
  PROVE  LockInv'
<1>1. /\ UNCHANGED <<lock, call, joined, sends, abandoned>>
      /\ at[n] \notin {"none", "ok", "error"}
      /\ \E place \in Places : at' = [at EXCEPT ![n] = place]
  BY DEF Worker, CheckStale, BuildDone, BeginSend, SendDone, AttemptFails, RebuildDone,
         RebuildFails, Goto, AfterFailure, Places
<1>2. QED
  BY <1>1 DEF LockInv, HolderJoins, NoOrphan, Abandoned

(* Every step keeps the lock invariant.                                    *)
LEMMA LockStep == LockInv /\ [Next]_vars => LockInv'
<1> SUFFICES ASSUME LockInv, [Next]_vars PROVE LockInv'
  OBVIOUS
<1> USE DEF LockInv, HolderJoins, NoOrphan, Abandoned
<1>1. CASE Tick
  BY <1>1 DEF Tick
<1>2. ASSUME NEW c \in Callers, Notify(c) PROVE LockInv'
  BY <1>2 DEF Notify
<1>3. ASSUME NEW c \in Callers, StartSend(c) PROVE LockInv'
  <2>1. HolderJoins'
    BY <1>3 DEF StartSend, LockFree
  <2>2. NoOrphan'
    BY <1>3 DEF StartSend, LockFree, Places
  <2>3. QED
    BY <2>1, <2>2
<1>4. ASSUME NEW c \in Callers, LockTimesOut(c) PROVE LockInv'
  BY <1>4 DEF LockTimesOut, Leave
<1>5. ASSUME NEW c \in Callers, JoinReturns(c) PROVE LockInv'
  BY <1>5 DEF JoinReturns, Leave, Done
<1>6. ASSUME NEW c \in Callers, JoinTimesOut(c) PROVE LockInv'
  BY <1>6 DEF JoinTimesOut, Leave, Done
<1>7. CASE UNCHANGED vars
  BY <1>7 DEF vars
<1>8. QED
  BY <1>1, <1>2, <1>3, <1>4, <1>5, <1>6, <1>7, WorkerKeepsLockInv DEF Next, Caller

(* The lock is enough to keep two sends apart, except from the abandoned:  *)
(* notify() and its worker, AtPublisher._send_lock.                        *)
THEOREM LockSeparatesSends == Spec => []SharedOnlyAfterAbandon
<1>1. LockInv => SharedOnlyAfterAbandon
  BY DEF LockInv, NoOrphan, SharedOnlyAfterAbandon, Sharing
<1>2. QED
  BY LockInit, LockStep, <1>1, PTL DEF Spec
-----------------------------------------------------------------------------
(* How long notify() lasts                                                 *)

(* Each of the two waits is within its deadline, and a caller that waited  *)
(* for the lock carries that wait into its join.                           *)
WaitsBounded ==
  /\ call \in [Callers -> {"out", "wait", "join"}]
  /\ timer \in [Callers -> Nat] /\ spent \in [Callers -> Nat]
  /\ \A c \in Callers :
       /\ timer[c] <= Deadline
       /\ call[c] = "out" => spent[c] = 0
       /\ call[c] = "wait" => spent[c] = timer[c]
       /\ call[c] = "join" => spent[c] <= Deadline + timer[c]

(* Initially no clock runs.                                                *)
LEMMA WaitsInit == Init => WaitsBounded
BY DEF Init, WaitsBounded

(* The clock advances only while nobody's wait is over, and every other    *)
(* step leaves a caller's clocks or resets them.                           *)
LEMMA WaitsStep == WaitsBounded /\ [Next]_vars => WaitsBounded'
<1> SUFFICES ASSUME WaitsBounded, [Next]_vars PROVE WaitsBounded'
  OBVIOUS
<1> USE DEF WaitsBounded
<1>1. CASE Tick
  BY <1>1 DEF Tick, Due
<1>2. ASSUME NEW c \in Callers, Notify(c) PROVE WaitsBounded'
  BY <1>2 DEF Notify
<1>3. ASSUME NEW c \in Callers, StartSend(c) PROVE WaitsBounded'
  BY <1>3 DEF StartSend
<1>4. ASSUME NEW c \in Callers, LockTimesOut(c) PROVE WaitsBounded'
  BY <1>4 DEF LockTimesOut, Leave
<1>5. ASSUME NEW c \in Callers, JoinReturns(c) PROVE WaitsBounded'
  BY <1>5 DEF JoinReturns, Leave
<1>6. ASSUME NEW c \in Callers, JoinTimesOut(c) PROVE WaitsBounded'
  BY <1>6 DEF JoinTimesOut, Leave
<1>7. ASSUME NEW n \in Sends, Worker(n) PROVE WaitsBounded'
  BY <1>7 DEF Worker, CheckStale, BuildDone, BeginSend, SendDone, AttemptFails, RebuildDone,
              RebuildFails
<1>8. CASE UNCHANGED vars
  BY <1>8 DEF vars
<1>9. QED
  BY <1>1, <1>2, <1>3, <1>4, <1>5, <1>6, <1>7, <1>8 DEF Next, Caller

(* A call to notify() never lasts more than twice its deadline.            *)
THEOREM NotifyIsBounded == Spec => []ReturnsWithinTwiceDeadline
<1>1. WaitsBounded => ReturnsWithinTwiceDeadline
  BY DEF WaitsBounded, ReturnsWithinTwiceDeadline
<1>2. QED
  BY WaitsInit, WaitsStep, <1>1, PTL DEF Spec
-----------------------------------------------------------------------------
(* The retry                                                               *)

(* A worker in its first attempt has failed on nothing; one in its second  *)
(* has failed only on clients older than the current one.                  *)
RetryInv ==
  /\ client \in Nat \ {0} /\ sends \in 0 .. MaxSends
  /\ at \in [Sends -> Places] /\ attempt \in [Sends -> {0, 1}] /\ using \in [Sends -> Nat]
  /\ \A n \in Sends :
       /\ n > sends => at[n] = "none"
       /\ at[n] = "rebuild" => attempt[n] = 0
       /\ using[n] <= client
       /\ \A k \in Nat : <<n, k>> \in failedOn =>
            /\ k <= client
            /\ at[n] \notin {"rebuild", "error"} => attempt[n] = 1 /\ k < client

(* Initially no send has failed.                                           *)
LEMMA RetryInit == Init => RetryInv
BY DEF Init, RetryInv, Places

(* Every step keeps it: the rebuild before a second attempt makes a newer  *)
(* client, and a client once replaced never comes back.                    *)
LEMMA RetryStep == RetryInv /\ [Next]_vars => RetryInv'
<1> SUFFICES ASSUME RetryInv, [Next]_vars PROVE RetryInv'
  OBVIOUS
<1> USE DEF RetryInv, Places
<1>1. CASE Tick
  BY <1>1 DEF Tick
<1>2. ASSUME NEW c \in Callers, Notify(c) \/ LockTimesOut(c) \/ JoinReturns(c) \/ JoinTimesOut(c)
      PROVE RetryInv'
  BY <1>2 DEF Notify, LockTimesOut, JoinReturns, JoinTimesOut
<1>3. ASSUME NEW c \in Callers, StartSend(c) PROVE RetryInv'
  BY <1>3 DEF StartSend
<1>4. ASSUME NEW n \in Sends, CheckStale(n) PROVE RetryInv'
  BY <1>4 DEF CheckStale, Goto
<1>5. ASSUME NEW n \in Sends, BuildDone(n) PROVE RetryInv'
  BY <1>5 DEF BuildDone, NewClient, Goto
<1>6. ASSUME NEW n \in Sends, BeginSend(n) PROVE RetryInv'
  BY <1>6 DEF BeginSend, Goto
<1>7. ASSUME NEW n \in Sends, SendDone(n) PROVE RetryInv'
  BY <1>7 DEF SendDone, Goto
<1>8. ASSUME NEW n \in Sends, AttemptFails(n) PROVE RetryInv'
  BY <1>8 DEF AttemptFails, AfterFailure, Goto
<1>9. ASSUME NEW n \in Sends, RebuildDone(n) PROVE RetryInv'
  BY <1>9 DEF RebuildDone, NewClient, Goto
<1>10. ASSUME NEW n \in Sends, RebuildFails(n) PROVE RetryInv'
  BY <1>10 DEF RebuildFails, Goto
<1>11. CASE UNCHANGED vars
  BY <1>11 DEF vars
<1>12. QED
  BY <1>1, <1>2, <1>3, <1>4, <1>5, <1>6, <1>7, <1>8, <1>9, <1>10, <1>11 DEF Next, Caller, Worker

(* A send that begins runs on the client that is current then.             *)
LEMMA BeginsFromSend ==
  ASSUME RetryInv, Next, NEW n \in Sends, NEW k, BeginsOn(n, k)
  PROVE  at[n] = "send" /\ k = client
<1>1. ASSUME NEW m \in Sends, Worker(m) PROVE at[n] = "send" /\ k = client
  BY <1>1 DEF BeginsOn, Worker, CheckStale, BuildDone, BeginSend, SendDone, AttemptFails,
              AfterFailure, RebuildDone, RebuildFails, Goto, RetryInv
<1>2. ASSUME NEW c \in Callers, Caller(c) PROVE FALSE
  BY <1>2 DEF BeginsOn, Caller, Notify, StartSend, LockTimesOut, JoinReturns, JoinTimesOut,
              RetryInv
<1>3. CASE Tick
  BY <1>3 DEF BeginsOn, Tick
<1>4. QED
  BY <1>1, <1>2, <1>3 DEF Next

(* A send that starts runs on the current client, so never on one its own  *)
(* worker failed on before: _notify_once's retry.                          *)
THEOREM RetryIsFresh == Spec => RetryOnFreshClient
<1>1. RetryInv /\ [Next]_vars =>
        [\A n \in Sends, k \in 1 .. client : BeginsOn(n, k) => <<n, k>> \notin failedOn]_vars
  <2> SUFFICES ASSUME RetryInv, Next, NEW n \in Sends, NEW k \in 1 .. client, BeginsOn(n, k)
               PROVE  <<n, k>> \notin failedOn
    OBVIOUS
  <2>1. at[n] = "send" /\ k = client
    BY BeginsFromSend
  <2>2. QED
    BY <2>1, SMTT(30) DEF RetryInv
<1>2. QED
  BY RetryInit, RetryStep, <1>1, PTL DEF Spec, RetryOnFreshClient
-----------------------------------------------------------------------------
(* Types                                                                   *)

(* What the records of failed and abandoned sends are made of: a caller in *)
(* a join has a send to abandon.                                           *)
RecordsTyped ==
  /\ stale \in BOOLEAN
  /\ \A c \in Callers : call[c] = "join" => joined[c] \in Sends
  /\ failedOn \subseteq Sends \X Nat /\ halfRead \subseteq Nat
  /\ abandoned \subseteq Sends

(* Initially nothing is recorded.                                          *)
LEMMA RecordsInit == Init => RecordsTyped
BY DEF Init, RecordsTyped

(* Every step records sends that were started and clients that were built. *)
LEMMA RecordsStep == LockInv /\ RetryInv /\ RecordsTyped /\ [Next]_vars => RecordsTyped'
<1> SUFFICES ASSUME LockInv, RetryInv, RecordsTyped, [Next]_vars PROVE RecordsTyped'
  OBVIOUS
<1> USE DEF RecordsTyped
<1>a. /\ call \in [Callers -> {"out", "wait", "join"}] /\ joined \in [Callers -> 0 .. MaxSends]
      /\ sends \in 0 .. MaxSends /\ using \in [Sends -> Nat]
  BY DEF LockInv, HolderJoins, RetryInv
<1>1. CASE Tick
  BY <1>1 DEF Tick
<1>2. ASSUME NEW c \in Callers, Notify(c) PROVE RecordsTyped'
  BY <1>2, <1>a DEF Notify
<1>3. ASSUME NEW c \in Callers, StartSend(c) PROVE RecordsTyped'
  BY <1>3, <1>a DEF StartSend
<1>4. ASSUME NEW c \in Callers, LockTimesOut(c) \/ JoinReturns(c) PROVE RecordsTyped'
  BY <1>4, <1>a DEF LockTimesOut, JoinReturns, Leave
<1>5. ASSUME NEW c \in Callers, JoinTimesOut(c) PROVE RecordsTyped'
  <2>1. joined[c] \in Sends
    BY <1>5 DEF JoinTimesOut
  <2>2. stale' \in BOOLEAN /\ abandoned' \subseteq Sends /\ halfRead' \subseteq Nat
    BY <1>5, <1>a, <2>1 DEF JoinTimesOut, MarkStale
  <2>3. (\A d \in Callers : call[d] = "join" => joined[d] \in Sends)'
    BY <1>5, <1>a DEF JoinTimesOut, Leave
  <2>4. QED
    BY <1>5, <2>2, <2>3 DEF JoinTimesOut
<1>6. ASSUME NEW n \in Sends, Worker(n) PROVE RecordsTyped'
  <2>1. UNCHANGED <<call, joined, halfRead, abandoned>>
    BY <1>6 DEF Worker, CheckStale, BuildDone, BeginSend, SendDone, AttemptFails, RebuildDone,
                RebuildFails
  <2>2. stale' \in BOOLEAN
    BY <1>6 DEF Worker, CheckStale, BuildDone, BeginSend, SendDone, AttemptFails, RebuildDone,
                RebuildFails, MarkStale
  <2>3. failedOn' = failedOn \/ failedOn' = failedOn \cup {<<n, using[n]>>}
    BY <1>6 DEF Worker, CheckStale, BuildDone, BeginSend, SendDone, AttemptFails, RebuildDone,
                RebuildFails
  <2>4. <<n, using[n]>> \in Sends \X Nat
    BY <1>a
  <2>5. QED
    BY <2>1, <2>2, <2>3, <2>4
<1>7. CASE UNCHANGED vars
  BY <1>7 DEF vars
<1>8. QED
  BY <1>1, <1>2, <1>3, <1>4, <1>5, <1>6, <1>7 DEF Next, Caller

(* Every variable of the publisher keeps its type; in particular           *)
(* _notify_once tries no send more than twice.                             *)
THEOREM TypeCorrect == Spec => []TypeOK
<1>1. LockInv /\ WaitsBounded /\ RetryInv /\ RecordsTyped => TypeOK
  BY DEF LockInv, HolderJoins, NoOrphan, WaitsBounded, RetryInv, RecordsTyped, TypeOK
<1>2. QED
  BY LockInit, LockStep, WaitsInit, WaitsStep, RetryInit, RetryStep, RecordsInit, RecordsStep, <1>1,
     PTL DEF Spec
-----------------------------------------------------------------------------
(* A half-read client is not inherited                                     *)

(* Who can be recorded: only sends that were joined and given up, and the  *)
(* clients they were on.                                                   *)
AbandonInv ==
  /\ abandoned \subseteq 1 .. sends /\ halfRead \subseteq 0 .. client
  /\ abandoned = {} => halfRead = {}
  /\ lock \in Callers => joined[lock] \in (1 .. sends) \ abandoned
  /\ \A n \in Sends : at[n] = "none" => attempt[n] = 0

(* While the one half-read client is still the current one, nobody is      *)
(* about to send, and whoever comes to look finds it marked stale -- or    *)
(* the mark is in the hands of the one worker that is replacing it.        *)
HalfReadGuarded ==
  /\ \A n \in Sends : at[n] # "send"
  /\ \A n \in abandoned : at[n] \in {"io", "rebuild", "ok", "error"}
  /\ \A n \in Sends : at[n] \in {"check", "build"} => attempt[n] = 0
  /\ ~stale => \E n \in Sends \ abandoned : at[n] \in {"build", "rebuild"}

HalfReadInv == Cardinality(abandoned) <= 1 /\ client \in halfRead => HalfReadGuarded

(* Initially nothing is abandoned.                                         *)
LEMMA AbandonInit == Init => AbandonInv /\ HalfReadInv
BY DEF Init, AbandonInv, HalfReadInv

(* Every step keeps the records in order.                                  *)
LEMMA AbandonStep == LockInv /\ RetryInv /\ AbandonInv /\ [Next]_vars => AbandonInv'
<1> SUFFICES ASSUME LockInv, RetryInv, AbandonInv, [Next]_vars PROVE AbandonInv'
  OBVIOUS
<1> USE DEF AbandonInv
<1>a. /\ call \in [Callers -> {"out", "wait", "join"}] /\ joined \in [Callers -> 0 .. MaxSends]
      /\ sends \in 0 .. MaxSends /\ using \in [Sends -> Nat] /\ client \in Nat \ {0}
      /\ at \in [Sends -> Places] /\ attempt \in [Sends -> {0, 1}]
      /\ \A n \in Sends : using[n] <= client
      /\ \A c \in Callers : call[c] = "join" <=> lock = c
  BY DEF LockInv, HolderJoins, RetryInv
<1>1. CASE Tick
  BY <1>1 DEF Tick
<1>2. ASSUME NEW c \in Callers, Notify(c) PROVE AbandonInv'
  BY <1>2 DEF Notify
<1>3. ASSUME NEW c \in Callers, StartSend(c) PROVE AbandonInv'
  BY <1>3, <1>a DEF StartSend
<1>4. ASSUME NEW c \in Callers, LockTimesOut(c) PROVE AbandonInv'
  BY <1>4, <1>a DEF LockTimesOut, Leave
<1>5. ASSUME NEW c \in Callers, JoinReturns(c) PROVE AbandonInv'
  BY <1>5, <1>a DEF JoinReturns
<1>6. ASSUME NEW c \in Callers, JoinTimesOut(c) PROVE AbandonInv'
  <2>1. lock = c /\ joined[c] \in 1 .. sends
    BY <1>6, <1>a DEF JoinTimesOut
  <2>2. at[joined[c]] = "io" => using[joined[c]] \in 0 .. client
    BY <1>6, <1>a, <2>1 DEF JoinTimesOut, LockInv
  <2>3. QED
    BY <1>6, <1>a, <2>1, <2>2 DEF JoinTimesOut
<1>7. ASSUME NEW n \in Sends, Worker(n) PROVE AbandonInv'
  <2>1. UNCHANGED <<lock, joined, sends, abandoned, halfRead>>
    BY <1>7 DEF Worker, CheckStale, BuildDone, BeginSend, SendDone, AttemptFails, RebuildDone,
                RebuildFails
  <2>2. client' = client \/ client' = client + 1
    BY <1>7 DEF Worker, CheckStale, BuildDone, BeginSend, SendDone, AttemptFails, RebuildDone,
                RebuildFails, NewClient
  <2>3. at'[n] # "none" /\ \A m \in Sends \ {n} : at'[m] = at[m] /\ attempt'[m] = attempt[m]
    BY <1>7, <1>a DEF Worker, CheckStale, BuildDone, BeginSend, SendDone, AttemptFails, RebuildDone,
                RebuildFails, Goto, AfterFailure
  <2>4. halfRead' \subseteq 0 .. client'
    BY <1>a, <2>1, <2>2
  <2>5. \A m \in Sends : at'[m] = "none" => attempt'[m] = 0
    BY <2>3
  <2>6. QED
    BY <2>1, <2>4, <2>5
<1>8. CASE UNCHANGED vars
  BY <1>8 DEF vars
<1>9. QED
  BY <1>1, <1>2, <1>3, <1>4, <1>5, <1>6, <1>7, <1>8 DEF Next, Caller

(* A worker that is at work and not abandoned is the one being joined.     *)
LEMMA OneAtWork ==
  ASSUME LockInv, NEW n \in Sends \ abandoned, at[n] \notin {"none", "ok", "error"}
  PROVE  lock \in Callers /\ joined[lock] = n
BY DEF LockInv, NoOrphan, Abandoned

(* Giving up the first send leaves one that is guarded, giving up another  *)
(* leaves two.                                                             *)
LEMMA GiveUpGuarded ==
  ASSUME LockInv, RetryInv, AbandonInv, NEW c \in Callers, JoinTimesOut(c)
  PROVE  HalfReadInv'
<1>1. lock = c /\ joined[c] \in (1 .. sends) \ abandoned /\ joined[c] \in Sends
  BY DEF JoinTimesOut, LockInv, HolderJoins, AbandonInv, RetryInv
<1>2. abandoned' = abandoned \cup {joined[c]} /\ stale' = TRUE /\ UNCHANGED <<at, attempt, client>>
  BY DEF JoinTimesOut, MarkStale
<1>3. CASE abandoned = {}
  <2>1. \A n \in Sends \ {joined[c]} : at[n] \in {"none", "ok", "error"}
    BY <1>1, <1>3, OneAtWork
  <2>2. halfRead' # {} => at[joined[c]] = "io"
    BY <1>3 DEF JoinTimesOut, AbandonInv
  <2>3. halfRead' # {} => HalfReadGuarded'
    BY <1>1, <1>2, <1>3, <2>1, <2>2 DEF HalfReadGuarded
  <2>4. QED
    BY <2>3 DEF HalfReadInv
<1>4. CASE abandoned # {}
  <2>1. IsFiniteSet(1 .. sends)
    BY FS_Interval DEF RetryInv
  <2>2. IsFiniteSet(abandoned)
    BY <2>1, FS_Subset DEF AbandonInv
  <2>3. Cardinality(abandoned) \in Nat /\ Cardinality(abandoned) # 0
    BY <1>4, <2>2, FS_CardinalityType, FS_EmptySet
  <2>4. Cardinality(abandoned') = Cardinality(abandoned) + 1
    BY <1>1, <1>2, <2>2, FS_AddElement
  <2>5. QED
    BY <2>3, <2>4 DEF HalfReadInv
<1>5. QED
  BY <1>3, <1>4

(* A worker's step keeps the guard, or makes the half-read client an old   *)
(* one.                                                                    *)
LEMMA WorkerGuarded ==
  ASSUME LockInv, RetryInv, AbandonInv, HalfReadGuarded, NEW n \in Sends, Worker(n),
         client' = client
  PROVE  HalfReadGuarded'
<1>a. at \in [Sends -> Places] /\ attempt \in [Sends -> {0, 1}] /\ client \in Nat
  BY DEF RetryInv
<1>b. UNCHANGED abandoned /\ \A m \in Sends \ {n} : at'[m] = at[m] /\ attempt'[m] = attempt[m]
  BY <1>a DEF Worker, CheckStale, BuildDone, BeginSend, SendDone, AttemptFails, RebuildDone,
              RebuildFails, Goto, AfterFailure
<1>c. abandoned \subseteq Sends
  BY DEF AbandonInv, RetryInv
<1>1. CASE CheckStale(n)
  <2>1. at[n] = "check" /\ n \notin abandoned
    BY <1>1 DEF CheckStale, HalfReadGuarded
  <2>2. stale
    <3> SUFFICES ASSUME ~stale PROVE FALSE
      OBVIOUS
    <3>1. PICK m \in Sends \ abandoned : at[m] \in {"build", "rebuild"}
      BY DEF HalfReadGuarded
    <3>2. joined[lock] = m /\ joined[lock] = n
      BY <2>1, <3>1, OneAtWork
    <3>3. QED
      BY <2>1, <3>1, <3>2
  <2>3. at'[n] = "build" /\ attempt'[n] = attempt[n]
    BY <1>1, <1>a, <2>2 DEF CheckStale, Goto
  <2>4. QED
    BY <1>b, <1>c, <2>1, <2>3 DEF HalfReadGuarded
<1>2. CASE BuildDone(n) \/ RebuildDone(n)
  BY <1>2, <1>a DEF BuildDone, RebuildDone, NewClient
<1>3. CASE BeginSend(n)
  BY <1>3 DEF BeginSend, HalfReadGuarded
<1>4. CASE SendDone(n)
  <2>1. at[n] = "io" /\ at'[n] = "ok" /\ stale' = stale
    BY <1>4, <1>a DEF SendDone, Goto
  <2>2. QED
    BY <1>b, <1>c, <2>1 DEF HalfReadGuarded
<1>5. CASE AttemptFails(n)
  <2>1. at[n] \in {"build", "io"} /\ at'[n] \in {"rebuild", "error"} /\ stale' = stale
        /\ (at[n] = "build" => at'[n] = "rebuild")
    BY <1>5, <1>a DEF AttemptFails, AfterFailure, Goto, HalfReadGuarded
  <2>2. QED
    BY <1>b, <1>c, <2>1 DEF HalfReadGuarded
<1>6. CASE RebuildFails(n)
  <2>1. stale' = TRUE /\ at'[n] = "error"
    BY <1>6, <1>a DEF RebuildFails, MarkStale, Goto
  <2>2. QED
    BY <1>b, <1>c, <2>1 DEF HalfReadGuarded
<1>7. QED
  BY <1>1, <1>2, <1>3, <1>4, <1>5, <1>6 DEF Worker

(* Every step keeps the guard.                                             *)
LEMMA HalfReadStep ==
  LockInv /\ RetryInv /\ AbandonInv /\ HalfReadInv /\ [Next]_vars => HalfReadInv'
<1> SUFFICES ASSUME LockInv, RetryInv, AbandonInv, HalfReadInv, [Next]_vars PROVE HalfReadInv'
  OBVIOUS
<1>1. ASSUME NEW c \in Callers, JoinTimesOut(c) PROVE HalfReadInv'
  BY <1>1, GiveUpGuarded
<1>2. ASSUME NEW c \in Callers, StartSend(c) PROVE HalfReadInv'
  <2>1. lock = Nobody /\ sends + 1 \in Sends /\ at' = [at EXCEPT ![sends + 1] = "check"]
        /\ UNCHANGED <<attempt, stale, client, abandoned, halfRead>>
    BY <1>2 DEF StartSend, LockFree, RetryInv
  <2>2. at[sends + 1] = "none" /\ attempt[sends + 1] = 0 /\ sends + 1 \notin abandoned
    BY <2>1 DEF RetryInv, AbandonInv
  <2>3. at'[sends + 1] = "check" /\ \A n \in Sends \ {sends + 1} : at'[n] = at[n]
    BY <2>1 DEF RetryInv
  <2>4. HalfReadGuarded => HalfReadGuarded'
    BY <2>1, <2>2, <2>3 DEF HalfReadGuarded
  <2>5. QED
    BY <2>1, <2>4 DEF HalfReadInv
<1>3. ASSUME NEW c \in Callers, Notify(c) \/ LockTimesOut(c) \/ JoinReturns(c) PROVE HalfReadInv'
  <2>1. UNCHANGED <<at, attempt, stale, client, abandoned, halfRead>>
    BY <1>3 DEF Notify, LockTimesOut, JoinReturns
  <2>2. QED
    BY <2>1 DEF HalfReadInv, HalfReadGuarded
<1>4. CASE Tick \/ UNCHANGED vars
  <2>1. UNCHANGED <<at, attempt, stale, client, abandoned, halfRead>>
    BY <1>4 DEF Tick, vars
  <2>2. QED
    BY <2>1 DEF HalfReadInv, HalfReadGuarded
<1>5. ASSUME NEW n \in Sends, Worker(n) PROVE HalfReadInv'
  <2>1. UNCHANGED <<abandoned, halfRead>>
    BY <1>5 DEF Worker, CheckStale, BuildDone, BeginSend, SendDone, AttemptFails, RebuildDone,
                RebuildFails
  <2>2. client' = client \/ client' = client + 1
    BY <1>5 DEF Worker, CheckStale, BuildDone, BeginSend, SendDone, AttemptFails, RebuildDone,
                RebuildFails, NewClient
  <2>3. CASE client' = client
    BY <1>5, <2>1, <2>3, WorkerGuarded DEF HalfReadInv
  <2>4. CASE client' = client + 1
    <3>1. client' \notin halfRead'
      BY <2>1, <2>4 DEF AbandonInv, RetryInv
    <3>2. QED
      BY <3>1 DEF HalfReadInv
  <2>5. QED
    BY <2>2, <2>3, <2>4
<1>6. QED
  BY <1>1, <1>2, <1>3, <1>4, <1>5 DEF Next, Caller

(* While one send at most has been abandoned, no other one begins on the   *)
(* client it was half-way through: the stale mark of _notify_bounded is    *)
(* found, or whoever took it is replacing the client.                      *)
THEOREM HalfReadIsReplaced == Spec => FirstHalfReadNotInherited
<1>1. RetryInv /\ HalfReadInv /\ [Next]_vars =>
        [Cardinality(abandoned) <= 1 => \A n \in Sends, k \in halfRead : ~BeginsOn(n, k)]_vars
  <2> SUFFICES ASSUME RetryInv, HalfReadInv, Next, Cardinality(abandoned) <= 1,
                      NEW n \in Sends, NEW k \in halfRead, BeginsOn(n, k)
               PROVE  FALSE
    OBVIOUS
  <2>1. at[n] = "send" /\ k = client
    BY BeginsFromSend
  <2>2. QED
    BY <2>1 DEF HalfReadInv, HalfReadGuarded
<1>2. QED
  BY LockInit, LockStep, RetryInit, RetryStep, AbandonInit, AbandonStep, HalfReadStep, <1>1,
     PTL DEF Spec, FirstHalfReadNotInherited
=============================================================================

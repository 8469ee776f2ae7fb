----------------------------- MODULE AtPublisher -----------------------------
(***************************************************************************)
(* AtPublisher (atsign/atsign_io.py): one publisher, one AtClient, used by *)
(* several threads.  notify() takes the send lock, runs the send on a      *)
(* worker thread and joins it with a deadline; a worker still alive then   *)
(* is abandoned, but keeps running and keeps sharing `client` and `stale`  *)
(* with every later send.  The SDK and the network may block a worker for  *)
(* ever, or fail it, at any point.                                         *)
(***************************************************************************)
EXTENDS Naturals, FiniteSets

CONSTANTS
  Callers,      \* threads that call notify()
  Deadline,     \* deadline_s, in ticks
  MaxSends,     \* bound: workers ever started
  MaxAbandoned, \* bound: sends abandoned at the deadline
  SendsFail     \* whether a send or a client build may raise

ASSUME PublisherAssumption ==
  /\ Deadline \in Nat \ {0} /\ MaxSends \in Nat /\ MaxAbandoned \in Nat
  /\ SendsFail \in BOOLEAN
  /\ "nobody" \notin Callers

Sends == 1 .. MaxSends
Nobody == "nobody"

VARIABLES
  stale,      \* _stale
  client,     \* self.client: the how-many-th build made it
  lock,       \* _send_lock
  call,       \* where each caller is in notify()
  joined,     \* the send each caller joins (0: none)
  timer,      \* ticks in the current wait: for the lock, then for the worker
  spent,      \* ticks since notify() was called
  at,         \* where each worker is in _notify_once()
  attempt,    \* each worker's attempt
  using,      \* the client each worker's send runs on (0: none)
  sends,      \* workers started so far
  (* history *)
  failedOn,   \* <<worker, client>>: its send on that client failed
  halfRead,   \* clients on which a send was abandoned
  abandoned   \* sends given up at the deadline

callers == <<lock, call, joined, timer, spent>>
workers == <<at, attempt, using>>
shared  == <<stale, client, sends>>
history == <<failedOn, halfRead, abandoned>>
vars == <<callers, workers, shared, history>>

Places == {"none", "check", "build", "send", "io", "rebuild", "ok", "error"}
Done(n) == at[n] \in {"ok", "error"}

(* Every variable keeps its type; in particular nobody tries more than twice. *)
TypeOK ==
  /\ stale \in BOOLEAN
  /\ client \in Nat \ {0} /\ sends \in 0 .. MaxSends
  /\ lock \in Callers \cup {Nobody}
  /\ call \in [Callers -> {"out", "wait", "join"}]
  /\ joined \in [Callers -> 0 .. MaxSends]
  /\ timer \in [Callers -> Nat] /\ spent \in [Callers -> Nat]
  /\ at \in [Sends -> Places]
  /\ attempt \in [Sends -> {0, 1}]
  /\ using \in [Sends -> Nat]
  /\ failedOn \subseteq Sends \X Nat /\ halfRead \subseteq Nat
  /\ abandoned \subseteq Sends

Init ==
  /\ stale = FALSE /\ client = 1 /\ sends = 0
  /\ lock = Nobody
  /\ call = [c \in Callers |-> "out"]
  /\ joined = [c \in Callers |-> 0]
  /\ timer = [c \in Callers |-> 0] /\ spent = [c \in Callers |-> 0]
  /\ at = [n \in Sends |-> "none"]
  /\ attempt = [n \in Sends |-> 0]
  /\ using = [n \in Sends |-> 0]
  /\ failedOn = {} /\ halfRead = {} /\ abandoned = {}
-----------------------------------------------------------------------------
(* The caller's side: notify() and _notify_bounded()                       *)

Notify(c) ==
  /\ call[c] = "out" /\ sends < MaxSends
  /\ call' = [call EXCEPT ![c] = "wait"]
  /\ timer' = [timer EXCEPT ![c] = 0] /\ spent' = [spent EXCEPT ![c] = 0]
  /\ UNCHANGED <<lock, joined, workers, shared, history>>

LockIgnored == TRUE
LockFree == lock = Nobody

(* The lock is held from here across the join; the worker starts at once.  *)
StartSend(c) ==
  /\ call[c] = "wait" /\ LockFree /\ sends < MaxSends
  /\ lock' = c
  /\ sends' = sends + 1
  /\ call' = [call EXCEPT ![c] = "join"]
  /\ joined' = [joined EXCEPT ![c] = sends + 1]
  /\ timer' = [timer EXCEPT ![c] = 0]
  /\ at' = [at EXCEPT ![sends + 1] = "check"]
  /\ UNCHANGED <<spent, attempt, using, stale, client, history>>

Leave(c) ==
  /\ call' = [call EXCEPT ![c] = "out"]
  /\ joined' = [joined EXCEPT ![c] = 0]
  /\ timer' = [timer EXCEPT ![c] = 0] /\ spent' = [spent EXCEPT ![c] = 0]

JoinUnbounded(c) == call[c] = "wait" /\ timer[c] >= Deadline
(* The wait the caller is in has used up its deadline.                     *)
Due(c) == call[c] # "out" /\ timer[c] >= Deadline

LockTimesOut(c) ==
  /\ call[c] = "wait" /\ Due(c)
  /\ Leave(c)
  /\ UNCHANGED <<lock, workers, shared, history>>

(* The worker finished, either way.                                        *)
JoinReturns(c) ==
  /\ call[c] = "join" /\ Done(joined[c])
  /\ Leave(c)
  /\ lock' = Nobody
  /\ UNCHANGED <<workers, shared, history>>

NotMarkedStale == UNCHANGED stale
MarkStale == stale' = TRUE

(* The worker is still alive at the deadline: drop its client, leave it.   *)
JoinTimesOut(c) ==
  /\ call[c] = "join" /\ ~Done(joined[c]) /\ Due(c)
  /\ Cardinality(abandoned) < MaxAbandoned
  /\ MarkStale
  /\ abandoned' = abandoned \cup {joined[c]}
  /\ halfRead' = IF at[joined[c]] = "io" THEN halfRead \cup {using[joined[c]]} ELSE halfRead
  /\ Leave(c)
  /\ lock' = Nobody
  /\ UNCHANGED <<workers, client, sends, failedOn>>

(* Time passes while nobody's deadline is due.                             *)
Tick ==
  /\ \E c \in Callers : call[c] # "out"
  /\ \A c \in Callers : ~Due(c) /\ spent[c] <= 2 * Deadline
  /\ timer' = [c \in Callers |-> IF call[c] = "out" THEN timer[c] ELSE timer[c] + 1]
  /\ spent' = [c \in Callers |-> IF call[c] = "out" THEN spent[c] ELSE spent[c] + 1]
  /\ UNCHANGED <<lock, call, joined, workers, shared, history>>
-----------------------------------------------------------------------------
(* The worker's side: _notify_once()                                       *)

Goto(n, place) == at' = [at EXCEPT ![n] = place]

NewClient == client' = client + 1

(* Top of an attempt: a stale client is replaced first, and the flag is    *)
(* cleared before the build, whoever raised it.                            *)
CheckStale(n) ==
  /\ at[n] = "check"
  /\ IF stale THEN stale' = FALSE /\ Goto(n, "build")
              ELSE UNCHANGED stale /\ Goto(n, "send")
  /\ UNCHANGED <<callers, attempt, using, client, sends, history>>

BuildDone(n) ==
  /\ at[n] = "build"
  /\ NewClient
  /\ Goto(n, "send")
  /\ UNCHANGED <<callers, attempt, using, stale, sends, history>>

(* self.client is read when the call is made, not when it was checked.     *)
BeginSend(n) ==
  /\ at[n] = "send"
  /\ using' = [using EXCEPT ![n] = client]
  /\ Goto(n, "io")
  /\ UNCHANGED <<callers, attempt, shared, history>>

SendDone(n) ==
  /\ at[n] = "io"
  /\ using' = [using EXCEPT ![n] = 0]
  /\ Goto(n, "ok")
  /\ UNCHANGED <<callers, attempt, shared, history>>

RetriesOnSameClient(n) == IF attempt[n] = 0 THEN "check" ELSE "error"
AfterFailure(n) == IF attempt[n] = 0 THEN "rebuild" ELSE "error"

(* The build of a stale path, or the send itself, raises: the first time   *)
(* round the client is rebuilt, the second time the error is the caller's. *)
AttemptFails(n) ==
  /\ SendsFail /\ at[n] \in {"build", "io"}
  /\ failedOn' = IF at[n] = "io" THEN failedOn \cup {<<n, using[n]>>} ELSE failedOn
  /\ using' = [using EXCEPT ![n] = 0]
  /\ Goto(n, AfterFailure(n))
  /\ attempt' = IF AfterFailure(n) = "check" THEN [attempt EXCEPT ![n] = 1] ELSE attempt
  /\ UNCHANGED <<callers, shared, halfRead, abandoned>>

RebuildDone(n) ==
  /\ at[n] = "rebuild"
  /\ NewClient
  /\ attempt' = [attempt EXCEPT ![n] = @ + 1]
  /\ Goto(n, "check")
  /\ UNCHANGED <<callers, using, stale, sends, history>>

RebuildFails(n) ==
  /\ SendsFail /\ at[n] = "rebuild"
  /\ MarkStale
  /\ Goto(n, "error")
  /\ UNCHANGED <<callers, attempt, using, client, sends, history>>
-----------------------------------------------------------------------------
Caller(c) == Notify(c) \/ StartSend(c) \/ LockTimesOut(c) \/ JoinReturns(c) \/ JoinTimesOut(c)
Worker(n) ==
  \/ CheckStale(n) \/ BuildDone(n) \/ BeginSend(n) \/ SendDone(n)
  \/ AttemptFails(n) \/ RebuildDone(n) \/ RebuildFails(n)

Next == Tick \/ (\E c \in Callers : Caller(c)) \/ (\E n \in Sends : Worker(n))

(* Clocks advance and a caller whose wait is over goes on.  Nothing is     *)
(* assumed of the workers: the SDK may block each of them for ever.        *)
Fairness ==
  /\ WF_vars(Tick)
  /\ \A c \in Callers : /\ WF_vars(LockTimesOut(c) \/ StartSend(c))
                        /\ WF_vars(JoinReturns(c) \/ JoinTimesOut(c))

Spec == Init /\ [][Next]_vars
FairSpec == Spec /\ Fairness
-----------------------------------------------------------------------------
(* What the publisher promises                                             *)

Abandoned(n) == n \in abandoned
Sharing(n, m) == n # m /\ at[n] = "io" /\ at[m] = "io" /\ using[n] = using[m]
BeginsOn(n, k) == at[n] # "io" /\ at'[n] = "io" /\ using'[n] = k

(* The send lock does its work: two sends are on one client at once only   *)
(* when one of them has been abandoned at its deadline.                    *)
SharedOnlyAfterAbandon == \A n, m \in Sends : Sharing(n, m) => Abandoned(n) \/ Abandoned(m)

(* "A failed send must never be retried on the same client": a worker's    *)
(* second attempt is not on the client its first one failed on.            *)
RetryOnFreshClient == [][\A n \in Sends, k \in 1 .. client : BeginsOn(n, k) => <<n, k>> \notin failedOn]_vars

(* Waiting for the lock and for the worker, a call lasts at most twice the *)
(* deadline it was given.                                                  *)
ReturnsWithinTwiceDeadline == \A c \in Callers : spent[c] <= 2 * Deadline

(* Every notify() comes back, though any worker may be blocked for ever.   *)
NotifyReturns == \A c \in Callers : call[c] = "wait" ~> call[c] = "out"

(* A client whose send was abandoned half-way is not used for another one, *)
(* "the waiting thread rebuilds rather than inheriting a half-read socket":*)
(* so it is for as long as only one send has been abandoned.  A second     *)
(* one's stale mark can be consumed by the first one's worker.             *)
FirstHalfReadNotInherited ==
  [][Cardinality(abandoned) <= 1 => \A n \in Sends, k \in halfRead : ~BeginsOn(n, k)]_vars
=============================================================================

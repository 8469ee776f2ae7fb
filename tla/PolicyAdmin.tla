----------------------------- MODULE PolicyAdmin -----------------------------
(***************************************************************************)
(* The policy admin (dart_client/bin/policy_admin.dart): a page on the     *)
(* rule set the policy engine holds.  The engine mirrors its rules here; a *)
(* toggle is a request, pushed to the engine, pushed again while the       *)
(* engine has not mirrored it back, and reported when it never does.       *)
(*                                                                         *)
(* One event loop runs three things that take turns at their awaits: the   *)
(* web server, which serves one request at a time, the timer's chase, one  *)
(* at a time as well, and the listener.                                    *)
(*                                                                         *)
(* The engine is what PolicyEngine shows of it.  Its callback clears       *)
(* `granted` and then fills it; its callback and its heartbeat each write  *)
(* down what `granted` holds before they wait for their turn to send it.   *)
(* So what is mirrored may be older than what was mirrored before, and may *)
(* be the empty set of the moment between the two.                         *)
(***************************************************************************)
EXTENDS Naturals, FiniteSets

CONSTANTS
  Publishers,   \* roleToAtSign
  RetryAfter,   \* kRetryAfter, in ticks of the timer
  GiveUpAfter,  \* kGiveUpAfter, in ticks
  MaxAttempts,  \* kMaxAttempts
  MaxMoves      \* bound: toggles and restarts of the admin

ASSUME AdminAssumption ==
  /\ IsFiniteSet(Publishers)
  /\ RetryAfter \in Nat /\ GiveUpAfter \in Nat /\ MaxAttempts \in Nat \ {0}
  /\ MaxMoves \in Nat

VARIABLES
  (* the admin *)
  synced, granted,  \* what the engine last said
  wanted,           \* the set asked for, until the engine confirms it
  age,              \* ticks since wantedSince
  attempts,
  report,           \* unappliedReport is set
  push,             \* the pushes in flight: the web server's and the chase's
  clock,            \* wall clock, advanced once per push: two pushes differ
  (* the engine and the wires *)
  rules, lastVer,   \* the rules decided on and their version
  clearing,         \* on_admin is between `granted.clear()` and `granted.update()`
  mail,             \* pushes on their way
  mirror,           \* of each engine thread, the set it has written down: waiting to be
                    \* sent or on its way; bound: one of each
  (* history *)
  held,             \* every set the engine has decided on
  torn,             \* it has serialised the empty set between clear() and update()
  calm,             \* the last toggle was made with nothing pending and nothing on its way
  asked,            \* the set it asked for, if so
  moves             \* toggles and restarts so far

page == <<synced, granted, wanted, age, attempts, report>>
engine == <<rules, lastVer, clearing, held, torn>>
history == <<asked, calm, moves>>
vars == <<page, push, clock, engine, mail, mirror, history>>

Callers == {"web", "chase"}
Threads == {"on_admin", "heartbeat"}
NoSet == [known |-> FALSE, set |-> {}]
Known(s) == [known |-> TRUE, set |-> s]
NoPush == [busy |-> FALSE, ver |-> 0, grants |-> {}]

(* Every variable keeps its type, and a change is pushed a bounded number  *)
(* of times.                                                               *)
TypeOK ==
  /\ synced \in BOOLEAN /\ report \in BOOLEAN /\ calm \in BOOLEAN
  /\ granted \subseteq Publishers /\ rules \subseteq Publishers
  /\ wanted \in [known : BOOLEAN, set : SUBSET Publishers]
  /\ asked \in [known : BOOLEAN, set : SUBSET Publishers]
  /\ age \in 0 .. GiveUpAfter + 1 /\ attempts \in 0 .. MaxAttempts
  /\ push \in [Callers -> [busy : BOOLEAN, ver : Nat, grants : SUBSET Publishers]]
  /\ clock \in Nat /\ lastVer \in 0 .. clock
  /\ mail \subseteq [ver : 1 .. clock, grants : SUBSET Publishers]
  /\ mirror \in [Threads -> [known : BOOLEAN, set : SUBSET Publishers]]
  /\ held \subseteq SUBSET Publishers /\ clearing \in BOOLEAN /\ torn \in BOOLEAN
  /\ moves \in 0 .. MaxMoves

(* The engine may hold any rules when the admin starts.                    *)
Init ==
  /\ synced = FALSE /\ granted = {} /\ wanted = NoSet /\ age = 0 /\ attempts = 0 /\ report = FALSE
  /\ push = [c \in Callers |-> NoPush] /\ clock = 0
  /\ rules \in SUBSET Publishers /\ lastVer = 0 /\ mail = {} /\ mirror = [e \in Threads |-> NoSet]
  /\ clearing = FALSE /\ held = {rules} /\ torn = FALSE
  /\ asked = NoSet /\ calm = FALSE /\ moves = 0
-----------------------------------------------------------------------------
(* The admin                                                               *)

(* _pushGrants, up to its await.                                           *)
StartPush(c, grants) ==
  /\ clock' = clock + 1
  /\ push' = [push EXCEPT ![c] = [busy |-> TRUE, ver |-> clock + 1, grants |-> grants]]

NotSynced == TRUE
MayToggle == synced

NothingUnderWay ==
  /\ ~wanted.known /\ mail = {} /\ granted = rules
  /\ \A c \in Callers : ~push[c].busy
  /\ ~clearing /\ \A e \in Threads : ~mirror[e].known

(* The web server's /toggle.  Before the engine has told its rules it only *)
(* answers that it does not know them.                                     *)
Toggle(p, on) ==
  /\ moves < MaxMoves /\ ~push["web"].busy
  /\ MayToggle
  /\ wanted' = Known(IF on THEN granted \cup {p} ELSE granted \ {p})
  /\ age' = 0 /\ attempts' = 1 /\ report' = FALSE
  /\ StartPush("web", wanted'.set)
  /\ calm' = NothingUnderWay /\ asked' = IF calm' THEN wanted' ELSE NoSet
  /\ moves' = moves + 1
  /\ UNCHANGED <<synced, granted, engine, mail, mirror>>

(* notify() comes back: the engine's subscription has missed it, or gets   *)
(* it yet.  A copy of what the engine took is left out: it ignores it.     *)
PushReturns(c) ==
  /\ push[c].busy
  /\ push' = [push EXCEPT ![c] = NoPush]
  /\ \/ UNCHANGED mail
     \/ push[c].ver > lastVer /\ mail' = mail \cup {[ver |-> push[c].ver, grants |-> push[c].grants]}
  /\ UNCHANGED <<page, clock, engine, mirror, history>>

(* ... or has delivered, and does not come back yet.                       *)
PushArrives(c) ==
  /\ push[c].busy
  /\ mail' = mail \cup {[ver |-> push[c].ver, grants |-> push[c].grants]}
  /\ push[c].ver > lastVer /\ mail' # mail
  /\ UNCHANGED <<page, push, clock, engine, mirror, history>>

AnyMirrorConfirms(g) == TRUE
Confirms(g) == g = wanted.set

PendingOnly(g) == IF wanted.known THEN g ELSE granted
Shown(g) == g

(* _watchEngine: the mirrored set takes over, and settles a change that it *)
(* confirms.                                                               *)
WatchEngine(e) ==
  /\ mirror[e].known
  /\ LET g == mirror[e].set
     IN  /\ granted' = Shown(g) /\ synced' = TRUE
         /\ \/ /\ wanted.known /\ Confirms(g)
               /\ wanted' = NoSet /\ age' = 0 /\ attempts' = 0 /\ report' = FALSE
            \/ /\ ~(wanted.known /\ Confirms(g))
               /\ UNCHANGED <<wanted, age, attempts, report>>
  /\ mirror' = [mirror EXCEPT ![e] = NoSet]
  /\ UNCHANGED <<push, clock, engine, mail, history>>

Exhausted == attempts >= MaxAttempts

AgeStuck == age
Older == IF age > GiveUpAfter THEN age ELSE age + 1

(* _chaseOnce up to its await: confirmed, given up, pushed again or left   *)
(* for a later tick.                                                       *)
ChaseOnce ==
  \/ /\ granted = wanted.set
     /\ wanted' = NoSet /\ age' = 0 /\ attempts' = 0
     /\ UNCHANGED <<report, push, clock>>
  \/ /\ granted # wanted.set /\ (Older > GiveUpAfter \/ Exhausted)
     /\ wanted' = NoSet /\ age' = 0 /\ attempts' = 0 /\ report' = TRUE
     /\ UNCHANGED <<push, clock>>
  \/ /\ granted # wanted.set /\ ~(Older > GiveUpAfter \/ Exhausted)
     /\ age' = Older
     /\ \/ /\ Older > RetryAfter * attempts
           /\ attempts' = attempts + 1
           /\ StartPush("chase", wanted.set)
        \/ /\ Older <= RetryAfter * attempts
           /\ UNCHANGED <<attempts, push, clock>>
     /\ UNCHANGED <<wanted, report>>

(* The timer.  While a chase waits for its push only time passes.          *)
Tick ==
  /\ wanted.known
  /\ \/ ~push["chase"].busy /\ ChaseOnce
     \/ push["chase"].busy /\ age' = Older /\ UNCHANGED <<wanted, attempts, report, push, clock>>
  /\ UNCHANGED <<synced, granted, engine, mail, mirror, history>>

(* The page's state is in memory only; a push on its way is lost unless it *)
(* arrived before.                                                         *)
Restart ==
  /\ moves < MaxMoves
  /\ synced' = FALSE /\ granted' = {} /\ wanted' = NoSet /\ age' = 0 /\ attempts' = 0 /\ report' = FALSE
  /\ push' = [c \in Callers |-> NoPush]
  /\ asked' = NoSet /\ calm' = FALSE /\ moves' = moves + 1
  /\ UNCHANGED <<clock, engine, mail, mirror>>
-----------------------------------------------------------------------------
(* The engine, as PolicyEngine shows it, and the wires                     *)

(* on_admin decides on a newer version and clears `granted`.  Any other is *)
(* ignored as it comes.                                                    *)
EngineTakes(m) ==
  /\ ~clearing /\ m \in mail /\ m.ver > lastVer
  /\ rules' = m.grants /\ lastVer' = m.ver /\ held' = held \cup {m.grants}
  /\ clearing' = TRUE
  /\ mail' = {n \in mail : n.ver > m.ver}
  /\ UNCHANGED <<page, push, clock, torn, mirror, history>>

(* It fills it and, after persist(), publish() writes that set down.       *)
EngineUpdates ==
  /\ clearing /\ ~mirror["on_admin"].known
  /\ clearing' = FALSE
  /\ mirror' = [mirror EXCEPT !["on_admin"] = Known(rules)]
  /\ UNCHANGED <<page, push, clock, rules, lastVer, held, torn, mail, history>>

(* The heartbeat's publish() writes down what `granted` holds.             *)
Heartbeat ==
  /\ ~mirror["heartbeat"].known
  /\ LET seen == IF clearing THEN {} ELSE rules
     IN  /\ mirror' = [mirror EXCEPT !["heartbeat"] = Known(seen)]
         /\ torn' = (torn \/ seen # rules)
  /\ UNCHANGED <<page, push, clock, rules, lastVer, clearing, held, mail, history>>

(* It cannot be sent, or is lost on the way.                               *)
MirrorLost(e) ==
  /\ mirror[e].known
  /\ mirror' = [mirror EXCEPT ![e] = NoSet]
  /\ UNCHANGED <<page, push, clock, engine, mail, history>>
-----------------------------------------------------------------------------
Next ==
  \/ \E p \in Publishers, on \in BOOLEAN : Toggle(p, on)
  \/ \E c \in Callers : PushReturns(c) \/ PushArrives(c)
  \/ Tick \/ Restart
  \/ \E m \in mail : EngineTakes(m)
  \/ EngineUpdates \/ Heartbeat
  \/ \E e \in Threads : MirrorLost(e) \/ WatchEngine(e)

(* The timer fires and notify() returns.  The engine runs: its heartbeat   *)
(* keeps coming, and in the end one gets through; what its callback sent   *)
(* arrives or does not.  The callback is not assumed to take a push:       *)
(* persist() may never have returned from the one before.                  *)
Spec == Init /\ [][Next]_vars
FairSpec ==
  /\ Spec
  /\ WF_vars(Tick) /\ \A c \in Callers : WF_vars(PushReturns(c))
  /\ WF_vars(MirrorLost("on_admin") \/ WatchEngine("on_admin"))
  /\ WF_vars(EngineUpdates) /\ WF_vars(Heartbeat) /\ SF_vars(WatchEngine("heartbeat"))
-----------------------------------------------------------------------------
(* What the admin promises                                                 *)

Apart(a, b) == Cardinality((a \ b) \cup (b \ a))

(* "Pushing now would send a set built from nothing and revoke everything  *)
(* else": whatever is pushed, across restarts and however late it arrives, *)
(* is one publisher away from a set the engine had decided on -- or from   *)
(* the empty one, once the engine has told that between its clear() and    *)
(* its update().                                                           *)
BuiltFromEngineSet ==
  \A g \in {m.grants : m \in mail} \cup {push[c].grants : c \in {d \in Callers : push[d].busy}} :
    \/ \E h \in held : Apart(g, h) <= 1
    \/ torn /\ Apart(g, {}) <= 1

(* "retried and then reported rather than silently reverting the switch":  *)
(* a change made while nothing else was under way is pending, or reported, *)
(* or in force, whatever was lost, late or repeated since.                 *)
NeverSilentlyReverted ==
  calm /\ asked.known /\ ~wanted.known /\ ~report => rules = asked.set

(* A change does not stay pending: the engine confirms it or the page      *)
(* reports that it did not, even when a push takes long to come back.      *)
ChangeIsSettled == wanted.known ~> ~wanted.known

(* The page comes to show what the engine has decided on, although pushes  *)
(* and their retries overtake one another, and although what is mirrored   *)
(* last may be an older set, or the empty one of an update in progress: a  *)
(* later heartbeat puts it right.                                          *)
PageCatchesUp == <>[](granted = rules)

(* "a toggle changes exactly one publisher and cannot carry a stale view   *)
(* of the others": no change of the rules in force is more than one toggle *)
(* wide.                                                                   *)
ToggleChangesOne == [][Apart(rules, rules') <= 1]_vars

(* That much holds of a toggle made while nothing else was under way,      *)
(* until the next one, however often it is pushed again.                   *)
LoneToggleChangesOne == [][calm => Apart(rules, rules') <= 1]_vars
=============================================================================

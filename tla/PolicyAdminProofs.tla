-------------------------- MODULE PolicyAdminProofs --------------------------
(***************************************************************************)
(* Proofs that the policy admin never pushes a set it made up, and that a  *)
(* change made with nothing else under way neither reverts in silence nor  *)
(* touches another publisher: for any publishers, limits and restarts, and *)
(* however pushes, retries and mirrored records overtake one another.      *)
(***************************************************************************)
EXTENDS PolicyAdmin, FiniteSetTheorems, TLAPS

USE AdminAssumption DEF Callers, Threads, page, engine, history

-----------------------------------------------------------------------------
(* Where the sets come from                                                *)

(* A set the engine decided on, or the one it told in the middle of an     *)
(* update; and one toggle away from such a set.                            *)
Told(g) == g \in held \/ (torn /\ g = {})
Near(g) == (\E h \in held : Apart(g, h) <= 1) \/ (torn /\ Apart(g, {}) <= 1)

SetRecord == [known : BOOLEAN, set : SUBSET Publishers]

(* What the page shows and the engine mirrors are sets the engine told;    *)
(* what is asked for, being pushed or on its way is one toggle from one.   *)
Provenance ==
  /\ rules \in held
  /\ \A e \in Threads : mirror[e].known => Told(mirror[e].set)
  /\ synced => Told(granted)
  /\ wanted.known => Near(wanted.set)
  /\ push \in [Callers -> [busy : BOOLEAN, ver : Nat, grants : SUBSET Publishers]]
  /\ \A c \in Callers : push[c].busy => Near(push[c].grants)
  /\ \A m \in mail : Near(m.grants)

(* What the pushes are made of.                                            *)
SetsTyped ==
  /\ granted \subseteq Publishers /\ clock \in Nat
  /\ held \subseteq SUBSET Publishers
  /\ \A m \in mail : m.grants \subseteq Publishers
  /\ wanted \in SetRecord /\ mirror \in [Threads -> SetRecord]

(* One toggle changes at most one publisher.                               *)
LEMMA OneToggleApart ==
  ASSUME NEW g, NEW p, NEW on \in BOOLEAN
  PROVE  Apart(IF on THEN g \cup {p} ELSE g \ {p}, g) <= 1
<1> DEFINE h == IF on THEN g \cup {p} ELSE g \ {p}
           diff == (h \ g) \cup (g \ h)
<1>1. diff \subseteq {p}
  OBVIOUS
<1>2. IsFiniteSet({p}) /\ Cardinality({p}) = 1
  BY FS_Singleton
<1>3. Cardinality(diff) <= 1
  BY <1>1, <1>2, FS_Subset
<1>4. QED
  BY <1>3 DEF Apart

(* Initially the engine holds its rules and nothing was asked.             *)
LEMMA ProvenanceInit == Init => SetsTyped /\ Provenance
BY DEF Init, SetsTyped, SetRecord, Provenance, Told, NoSet, NoPush

(* A toggle starts from a set the engine told.                             *)
LEMMA ToggleKeeps ==
  ASSUME SetsTyped, Provenance, NEW p \in Publishers, NEW on \in BOOLEAN, Toggle(p, on)
  PROVE  (SetsTyped /\ Provenance)'
<1> DEFINE h == IF on THEN granted \cup {p} ELSE granted \ {p}
<1>1. /\ wanted' = [known |-> TRUE, set |-> h] /\ clock' = clock + 1
      /\ push' = [push EXCEPT !["web"] = [busy |-> TRUE, ver |-> clock + 1, grants |-> h]]
      /\ synced /\ UNCHANGED <<synced, granted, rules, held, torn, mail, mirror>>
  BY DEF Toggle, StartPush, MayToggle, Known
<1>2. h \in SUBSET Publishers
  BY DEF SetsTyped
<1>3. Near(h)
  BY <1>1, OneToggleApart DEF Provenance, Told, Near
<1>4. SetsTyped'
  BY <1>1, <1>2 DEF SetsTyped, SetRecord
<1>5. push' \in [Callers -> [busy : BOOLEAN, ver : Nat, grants : SUBSET Publishers]]
  BY <1>1, <1>2 DEF Provenance, SetsTyped
<1>6. \A c \in Callers : push'[c].busy => Near(push'[c].grants)
  BY <1>1, <1>3 DEF Provenance
<1>7. QED
  BY <1>1, <1>3, <1>4, <1>5, <1>6 DEF Provenance, Told, Near

(* A chase pushes again what was asked for.                                *)
LEMMA ChaseKeeps ==
  ASSUME SetsTyped, Provenance, Tick
  PROVE  (SetsTyped /\ Provenance)'
<1>1. UNCHANGED <<synced, granted, rules, held, torn, mail, mirror>> /\ wanted.known
  BY DEF Tick
<1>2. wanted' = wanted \/ wanted' = NoSet
  BY DEF Tick, ChaseOnce
<1>3. \/ UNCHANGED <<push, clock>>
      \/ /\ clock' = clock + 1
         /\ push' = [push EXCEPT !["chase"] =
                       [busy |-> TRUE, ver |-> clock + 1, grants |-> wanted.set]]
  BY DEF Tick, ChaseOnce, StartPush
<1>a. /\ wanted.set \in SUBSET Publishers /\ clock + 1 \in Nat
      /\ NoSet \in SetRecord
  BY DEF SetsTyped, SetRecord, NoSet
<1>4. SetsTyped'
  <2>1. wanted' \in SetRecord
    BY <1>2, <1>a DEF SetsTyped
  <2>2. clock' \in Nat
    BY <1>3, <1>a DEF SetsTyped
  <2>3. QED
    BY <1>1, <2>1, <2>2 DEF SetsTyped
<1>5. Near(wanted.set)
  BY <1>1 DEF Provenance
<1>6. push' \in [Callers -> [busy : BOOLEAN, ver : Nat, grants : SUBSET Publishers]]
  <2>1. [busy |-> TRUE, ver |-> clock + 1, grants |-> wanted.set] \in
          [busy : BOOLEAN, ver : Nat, grants : SUBSET Publishers]
    BY <1>a
  <2>2. QED
    BY <1>3, <2>1 DEF Provenance
<1>7. \A c \in Callers : push'[c].busy => Near(push'[c].grants)
  BY <1>3, <1>5 DEF Provenance
<1>8. QED
  BY <1>1, <1>2, <1>4, <1>6, <1>7 DEF Provenance, Told, Near, NoSet

(* The engine's own steps.                                                 *)
EngineStep ==
  (\E m \in mail : EngineTakes(m)) \/ EngineUpdates \/ Heartbeat \/ \E e \in Threads : MirrorLost(e)

(* The engine takes one of the sets pushed, and writes down the set it     *)
(* decided on or, between clear() and update(), the empty one.             *)
LEMMA EngineKeeps ==
  ASSUME SetsTyped, Provenance, EngineStep
  PROVE  (SetsTyped /\ Provenance)'
<1> USE DEF EngineStep
<1>1. UNCHANGED <<synced, granted, wanted, push, clock>> /\ mail' \subseteq mail
  BY DEF EngineTakes, EngineUpdates, Heartbeat, MirrorLost
<1>2. held \subseteq held' /\ rules' \in held' /\ (torn => torn')
  <2>1. held \subseteq held' /\ rules' \in held'
    BY DEF EngineTakes, EngineUpdates, Heartbeat, MirrorLost, Provenance
  <2>2. torn => torn'
    BY Zenon DEF EngineTakes, EngineUpdates, Heartbeat, MirrorLost
  <2>3. QED
    BY <2>1, <2>2
<1> DEFINE ToldNow(g) == g \in held' \/ (torn' /\ g = {})
<1>3. \A g : (Near(g) => Near(g)') /\ (Told(g) => ToldNow(g))
  BY <1>2 DEF Near, Told
<1>4. \A g : g = rules \/ (g = {} /\ torn') => ToldNow(g)
  BY <1>2 DEF Provenance
<1>5. PICK e \in Threads, r \in SetRecord :
        /\ mirror' = mirror \/ mirror' = [mirror EXCEPT ![e] = r]
        /\ r.known => ToldNow(r.set)
  <2>1. /\ NoSet \in SetRecord /\ ~NoSet.known
        /\ \A g \in SUBSET Publishers : Known(g) \in SetRecord /\ Known(g).set = g
    BY DEF NoSet, Known, SetRecord
  <2>2. rules \in SUBSET Publishers
    BY DEF SetsTyped, Provenance
  <2>3. CASE (\E m \in mail : EngineTakes(m)) \/ \E e \in Threads : MirrorLost(e)
    BY <2>1, <2>3 DEF EngineTakes, MirrorLost
  <2>4. CASE EngineUpdates
    BY <1>4, <2>1, <2>2, <2>4 DEF EngineUpdates
  <2>5. CASE Heartbeat
    <3> DEFINE seen == IF clearing THEN {} ELSE rules
    <3>1. /\ mirror' = [mirror EXCEPT !["heartbeat"] = Known(seen)]
          /\ torn' = (torn \/ seen # rules) /\ seen \in SUBSET Publishers
      BY <2>2, <2>5 DEF Heartbeat
    <3>2. seen = rules \/ (seen = {} /\ torn')
      BY <3>1, Zenon
    <3>3. ToldNow(seen)
      BY <1>4, <3>2, Zenon
    <3>4. /\ "heartbeat" \in Threads /\ Known(seen) \in SetRecord
          /\ Known(seen).set = seen
      BY <2>1, <3>1, Zenon DEF Threads
    <3> HIDE DEF seen
    <3>5. QED
      BY <3>1, <3>3, <3>4, Zenon
  <2>6. QED
    BY <2>3, <2>4, <2>5
<1>6. SetsTyped'
  <2>1. held' = held \/ \E m \in mail : held' = held \cup {m.grants}
    BY DEF EngineTakes, EngineUpdates, Heartbeat, MirrorLost
  <2>2. held' \subseteq SUBSET Publishers
    BY <2>1 DEF SetsTyped
  <2>3. mirror' \in [Threads -> SetRecord]
    BY <1>5 DEF SetsTyped
  <2>4. QED
    BY <1>1, <2>2, <2>3 DEF SetsTyped
<1>7. \A d \in Threads : mirror'[d].known => ToldNow(mirror'[d].set)
  <2> TAKE d \in Threads
  <2>1. mirror'[d] = mirror[d] \/ mirror'[d] = r
    BY <1>5 DEF SetsTyped
  <2>2. QED
    BY <1>3, <1>5, <2>1 DEF Provenance
<1>8. synced' => ToldNow(granted')
  BY <1>1, <1>3 DEF Provenance
<1>9. QED
  BY <1>1, <1>2, <1>3, <1>6, <1>7, <1>8 DEF Provenance, Told

(* Every step keeps the provenance.                                        *)
LEMMA ProvenanceStep == SetsTyped /\ Provenance /\ [Next]_vars => (SetsTyped /\ Provenance)'
<1> SUFFICES ASSUME SetsTyped, Provenance, [Next]_vars PROVE (SetsTyped /\ Provenance)'
  OBVIOUS
<1>1. ASSUME NEW c \in Callers, PushReturns(c) \/ PushArrives(c)
      PROVE  (SetsTyped /\ Provenance)'
  <2>1. UNCHANGED <<synced, granted, wanted, clock, rules, held, torn, mirror>> /\ push[c].busy
    BY <1>1 DEF PushReturns, PushArrives
  <2>2. push' = push \/ push' = [push EXCEPT ![c] = NoPush]
    BY <1>1 DEF PushReturns, PushArrives
  <2>3. \A m \in mail' : m \in mail \/ m.grants = push[c].grants
    BY <1>1 DEF PushReturns, PushArrives
  <2>4. push[c].grants \subseteq Publishers /\ Near(push[c].grants)
    BY <2>1 DEF Provenance
  <2>5. SetsTyped'
    BY <2>1, <2>3, <2>4 DEF SetsTyped
  <2>6. /\ push' \in [Callers -> [busy : BOOLEAN, ver : Nat, grants : SUBSET Publishers]]
        /\ \A d \in Callers : push'[d].busy => push[d].busy /\ push'[d] = push[d]
    <3>1. /\ NoPush \in [busy : BOOLEAN, ver : Nat, grants : SUBSET Publishers]
          /\ NoPush.busy = FALSE
      BY DEF NoPush
    <3>2. push \in [Callers -> [busy : BOOLEAN, ver : Nat, grants : SUBSET Publishers]]
      BY DEF Provenance
    <3>3. CASE push' = push
      BY <3>2, <3>3
    <3>4. CASE push' = [push EXCEPT ![c] = NoPush]
      BY <3>1, <3>2, <3>4
    <3>5. QED
      BY <2>2, <3>3, <3>4
  <2>7. QED
    BY <2>1, <2>3, <2>4, <2>5, <2>6 DEF Provenance, Told, Near
<1>2. ASSUME NEW e \in Threads, WatchEngine(e) PROVE (SetsTyped /\ Provenance)'
  <2>1. /\ UNCHANGED <<push, clock, rules, held, torn, mail>>
        /\ mirror[e].known /\ granted' = mirror[e].set
        /\ mirror' = [mirror EXCEPT ![e] = NoSet]
        /\ wanted' = wanted \/ wanted' = NoSet
    BY <1>2 DEF WatchEngine, Shown
  <2>2. NoSet \in SetRecord /\ ~NoSet.known
    BY DEF NoSet, SetRecord
  <2>3. SetsTyped'
    BY <2>1, <2>2 DEF SetsTyped, SetRecord
  <2>4. \A d \in Threads : mirror'[d].known => mirror'[d] = mirror[d]
    BY <2>1, <2>2 DEF SetsTyped
  <2>5. QED
    BY <2>1, <2>2, <2>3, <2>4 DEF Provenance, Told, Near
<1>3. CASE Restart
  BY <1>3 DEF Restart, SetsTyped, SetRecord, Provenance, Told, Near, NoSet, NoPush
<1>4. CASE UNCHANGED vars
  BY <1>4 DEF vars, SetsTyped, Provenance, Told, Near
<1>5. QED
  BY <1>1, <1>2, <1>3, <1>4, ToggleKeeps, ChaseKeeps, EngineKeeps DEF Next, EngineStep

(* "Pushing now would send a set built from nothing": whatever /toggle or  *)
(* the chase pushes is one publisher away from a set the engine decided    *)
(* on, or from the empty one it told in the middle of an update.           *)
THEOREM PushesAreBuiltFromEngineSets == Spec => []BuiltFromEngineSet
<1>1. Provenance => BuiltFromEngineSet
  BY DEF Provenance, Near, BuiltFromEngineSet
<1>2. QED
  BY ProvenanceInit, ProvenanceStep, <1>1, PTL DEF Spec
-----------------------------------------------------------------------------
(* No change reverts in silence                                            *)

(* From a calm toggle to the next one, only the set asked for is pushed;   *)
(* and until the engine has taken it, it is in no update and nothing shows *)
(* that set.                                                               *)
AllPushTheSetAsked ==
  /\ wanted.known => wanted.set = asked.set
  /\ \A c \in Callers : push[c].busy => push[c].grants = asked.set
  /\ \A m \in mail : m.grants = asked.set
ShownIsHeld ==
  rules # asked.set =>
    /\ ~clearing /\ granted # asked.set
    /\ \A e \in Threads : mirror[e].known => mirror[e].set # asked.set
Settled == ~wanted.known /\ ~report => rules = asked.set
OneSetUnderWay == calm => AllPushTheSetAsked /\ ShownIsHeld /\ Settled

(* A calm toggle starts with nothing under way.                            *)
LEMMA ToggleIsAlone ==
  ASSUME Provenance, NEW p \in Publishers, NEW on \in BOOLEAN, Toggle(p, on)
  PROVE  OneSetUnderWay'
<1> SUFFICES ASSUME calm' PROVE (AllPushTheSetAsked /\ ShownIsHeld /\ Settled)'
  BY DEF OneSetUnderWay
<1>1. /\ wanted'.known /\ asked' = wanted'
      /\ push' = [push EXCEPT !["web"] = [busy |-> TRUE, ver |-> clock + 1, grants |-> wanted'.set]]
      /\ UNCHANGED <<granted, rules, clearing, mail, mirror>>
  BY DEF Toggle, StartPush, Known
<1>2. /\ mail = {} /\ granted = rules /\ ~clearing /\ \A c \in Callers : ~push[c].busy
      /\ \A e \in Threads : ~mirror[e].known
  BY DEF Toggle, NothingUnderWay
<1>3. \A c \in Callers : push'[c].busy => push'[c].grants = wanted'.set
  BY <1>1, <1>2 DEF Provenance
<1>4. AllPushTheSetAsked'
  BY <1>1, <1>2, <1>3 DEF AllPushTheSetAsked
<1>5. ShownIsHeld'
  BY <1>1, <1>2 DEF ShownIsHeld
<1>6. Settled'
  BY <1>1 DEF Settled
<1>7. QED
  BY <1>4, <1>5, <1>6

(* A chase ends with the set in force or with a report.                    *)
LEMMA ChaseReports == ASSUME SetsTyped, Provenance, OneSetUnderWay, Tick PROVE OneSetUnderWay'
<1> SUFFICES ASSUME calm PROVE (AllPushTheSetAsked /\ ShownIsHeld /\ Settled)'
  BY DEF OneSetUnderWay, Tick
<1>1. AllPushTheSetAsked /\ ShownIsHeld /\ Settled
  BY DEF OneSetUnderWay
<1>2. wanted.known /\ wanted.set = asked.set /\ UNCHANGED <<granted, rules, clearing, mail, mirror, asked>>
  BY <1>1 DEF Tick, AllPushTheSetAsked
<1>3. \/ wanted' = wanted
      \/ wanted' = NoSet /\ granted = wanted.set
      \/ wanted' = NoSet /\ report'
  BY DEF Tick, ChaseOnce
<1>4. ~NoSet.known
  BY DEF NoSet
<1>5. \/ UNCHANGED push
      \/ push' = [push EXCEPT !["chase"] = [busy |-> TRUE, ver |-> clock + 1, grants |-> wanted.set]]
  BY DEF Tick, ChaseOnce, StartPush
<1>6. \A c \in Callers : push'[c].busy => push'[c].grants = asked.set
  BY <1>1, <1>2, <1>5 DEF AllPushTheSetAsked, Provenance
<1>7. AllPushTheSetAsked'
  BY <1>1, <1>2, <1>3, <1>4, <1>6 DEF AllPushTheSetAsked
<1>8. ShownIsHeld'
  BY <1>1, <1>2 DEF ShownIsHeld
<1>9. Settled'
  BY <1>1, <1>2, <1>3 DEF Settled, ShownIsHeld
<1>10. QED
  BY <1>7, <1>8, <1>9

(* The mirror confirms the set asked for only when the engine holds it.    *)
LEMMA ConfirmedIsHeld ==
  ASSUME SetsTyped, OneSetUnderWay, NEW e \in Threads, WatchEngine(e) PROVE OneSetUnderWay'
<1> SUFFICES ASSUME calm PROVE (AllPushTheSetAsked /\ ShownIsHeld /\ Settled)'
  BY DEF OneSetUnderWay, WatchEngine
<1>1. AllPushTheSetAsked /\ ShownIsHeld /\ Settled
  BY DEF OneSetUnderWay
<1>2. /\ UNCHANGED <<push, rules, clearing, mail, asked>>
      /\ mirror[e].known /\ mirror' = [mirror EXCEPT ![e] = NoSet] /\ granted' = mirror[e].set
      /\ \/ wanted.known /\ mirror[e].set = wanted.set /\ wanted' = NoSet
         \/ UNCHANGED <<wanted, report>>
  BY DEF WatchEngine, Shown, Confirms
<1>3. \A d \in Threads : mirror'[d].known => mirror'[d] = mirror[d]
  BY <1>2 DEF SetsTyped, NoSet
<1>4. AllPushTheSetAsked'
  BY <1>1, <1>2 DEF AllPushTheSetAsked, NoSet
<1>5. ShownIsHeld'
  BY <1>1, <1>2, <1>3 DEF ShownIsHeld
<1>6. Settled'
  <2>1. CASE wanted.known /\ mirror[e].set = wanted.set
    BY <1>1, <1>2, <2>1 DEF AllPushTheSetAsked, ShownIsHeld, Settled
  <2>2. CASE UNCHANGED <<wanted, report>>
    BY <1>1, <1>2, <2>2 DEF Settled
  <2>3. QED
    BY <1>2, <2>1, <2>2
<1>7. QED
  BY <1>4, <1>5, <1>6

(* The engine can only take the set asked for, and is in an update only    *)
(* once it has.                                                            *)
LEMMA EngineTakesTheSetAsked ==
  ASSUME SetsTyped, OneSetUnderWay, EngineStep PROVE OneSetUnderWay'
<1> USE DEF EngineStep
<1> SUFFICES ASSUME calm PROVE (AllPushTheSetAsked /\ ShownIsHeld /\ Settled)'
  BY DEF OneSetUnderWay, EngineTakes, EngineUpdates, Heartbeat, MirrorLost
<1>1. AllPushTheSetAsked /\ ShownIsHeld /\ Settled
  BY DEF OneSetUnderWay
<1>2. /\ UNCHANGED <<granted, wanted, report, push, asked>> /\ mail' \subseteq mail
      /\ rules' = rules \/ \E m \in mail : rules' = m.grants
  BY DEF EngineTakes, EngineUpdates, Heartbeat, MirrorLost
<1>3. rules' = rules \/ rules' = asked.set
  BY <1>1, <1>2 DEF AllPushTheSetAsked
<1>4. AllPushTheSetAsked'
  BY <1>1, <1>2 DEF AllPushTheSetAsked
<1>5. Settled'
  BY <1>1, <1>2, <1>3 DEF Settled
<1>6. ASSUME rules' # asked.set
      PROVE  ~clearing' /\ \A d \in Threads : mirror'[d].known => mirror'[d].set # asked.set
  <2>1. /\ rules' = rules /\ ~clearing
        /\ \A d \in Threads : mirror[d].known => mirror[d].set # asked.set
    BY <1>1, <1>3, <1>6 DEF ShownIsHeld
  <2>2. CASE \E m \in mail : EngineTakes(m)
    BY <1>1, <1>6, <2>2 DEF EngineTakes, AllPushTheSetAsked
  <2>3. CASE EngineUpdates
    BY <2>1, <2>3 DEF EngineUpdates
  <2>4. CASE Heartbeat
    <3>1. mirror' = [mirror EXCEPT !["heartbeat"] = Known(rules)] /\ ~clearing'
      BY <2>1, <2>4 DEF Heartbeat
    <3>2. QED
      BY <1>6, <2>1, <3>1 DEF SetsTyped, Known
  <2>5. CASE \E e \in Threads : MirrorLost(e)
    BY <2>1, <2>5 DEF MirrorLost, SetsTyped, NoSet
  <2>6. QED
    BY <2>2, <2>3, <2>4, <2>5
<1>7. ShownIsHeld'
  BY <1>1, <1>2, <1>3, <1>6 DEF ShownIsHeld
<1>8. QED
  BY <1>4, <1>5, <1>7

(* A push carries the set asked for wherever it is.                        *)
LEMMA UnderWayStep ==
  SetsTyped /\ Provenance /\ OneSetUnderWay /\ [Next]_vars => OneSetUnderWay'
<1> SUFFICES ASSUME SetsTyped, Provenance, OneSetUnderWay, [Next]_vars PROVE OneSetUnderWay'
  OBVIOUS
<1>1. ASSUME NEW c \in Callers, PushReturns(c) \/ PushArrives(c) PROVE OneSetUnderWay'
  <2>1. /\ UNCHANGED <<granted, wanted, report, rules, clearing, mirror, asked, calm>> /\ push[c].busy
        /\ push' = push \/ push' = [push EXCEPT ![c] = NoPush]
        /\ \A m \in mail' : m \in mail \/ m.grants = push[c].grants
    BY <1>1 DEF PushReturns, PushArrives
  <2>2. \A d \in Callers : push'[d].busy => push[d].busy /\ push'[d] = push[d]
    BY <2>1 DEF Provenance, NoPush
  <2>3. AllPushTheSetAsked => AllPushTheSetAsked'
    BY <2>1, <2>2 DEF AllPushTheSetAsked
  <2>4. QED
    BY <2>1, <2>3 DEF OneSetUnderWay, ShownIsHeld, Settled
<1>2. CASE Restart
  BY <1>2 DEF Restart, OneSetUnderWay
<1>3. CASE UNCHANGED vars
  BY <1>3 DEF vars, OneSetUnderWay, AllPushTheSetAsked, ShownIsHeld, Settled
<1>4. QED
  BY <1>1, <1>2, <1>3, ToggleIsAlone, ChaseReports, ConfirmedIsHeld, EngineTakesTheSetAsked
     DEF Next, EngineStep

(* "retried and then reported rather than silently reverting the switch":  *)
(* a change made alone is pending, reported or in force, whatever of its   *)
(* pushes and of the mirrored records is lost, late or repeated.           *)
THEOREM NoChangeRevertsInSilence == Spec => []NeverSilentlyReverted
<1>1. OneSetUnderWay => NeverSilentlyReverted
  BY DEF OneSetUnderWay, Settled, NeverSilentlyReverted
<1>2. Init => OneSetUnderWay
  BY DEF Init, OneSetUnderWay
<1>3. QED
  BY ProvenanceInit, ProvenanceStep, UnderWayStep, <1>1, <1>2, PTL DEF Spec

(* Apart does not depend on the order, and nothing is apart from itself.    *)
LEMMA ApartFacts == \A a, b : Apart(a, b) = Apart(b, a) /\ Apart(a, a) = 0
<1>1. \A a, b : (a \ b) \cup (b \ a) = (b \ a) \cup (a \ b)
  OBVIOUS
<1>2. \A a : (a \ a) \cup (a \ a) = {}
  OBVIOUS
<1>3. QED
  BY <1>1, <1>2, FS_EmptySet DEF Apart

(* The engine holds the set asked for or the one that was toggled.          *)
LoneInv == calm => Apart(rules, asked.set) <= 1

(* A toggle starts from the rules in force; what the engine takes then is  *)
(* the set asked for.                                                      *)
LEMMA LoneStep ==
  Provenance /\ OneSetUnderWay /\ LoneInv /\ [Next]_vars => LoneInv'
<1> SUFFICES ASSUME Provenance, OneSetUnderWay, LoneInv, [Next]_vars, calm' PROVE LoneInv'
  BY DEF LoneInv
<1>1. ASSUME NEW p \in Publishers, NEW on \in BOOLEAN, Toggle(p, on) PROVE LoneInv'
  <2>1. /\ granted = rules /\ rules' = rules
        /\ asked'.set = IF on THEN granted \cup {p} ELSE granted \ {p}
    BY <1>1 DEF Toggle, NothingUnderWay, Known
  <2>2. Apart(asked'.set, rules) <= 1
    BY <2>1, OneToggleApart
  <2>3. QED
    BY <2>1, <2>2, ApartFacts DEF LoneInv
<1>2. ASSUME NEW m \in mail, EngineTakes(m) PROVE LoneInv'
  <2>1. calm /\ asked' = asked /\ (rules' = rules \/ rules' = m.grants)
    BY <1>2 DEF EngineTakes
  <2>2. m.grants = asked.set
    BY <2>1 DEF OneSetUnderWay, AllPushTheSetAsked
  <2>3. rules' = rules \/ rules' = asked.set
    BY <2>1, <2>2
  <2>4. CASE rules' = rules
    BY <2>1, <2>4 DEF LoneInv
  <2>5. CASE rules' = asked.set
    <3>1. Apart(rules', asked'.set) = 0
      BY <2>1, <2>5, ApartFacts
    <3>2. QED
      BY <3>1 DEF LoneInv
  <2>6. QED
    BY <2>3, <2>4, <2>5
<1>3. ASSUME UNCHANGED <<rules, asked, calm>> PROVE LoneInv'
  BY <1>3 DEF LoneInv
<1>4. ASSUME NEW c \in Callers, PushReturns(c) \/ PushArrives(c) PROVE LoneInv'
  BY <1>3, <1>4 DEF PushReturns, PushArrives
<1>5. CASE Tick \/ EngineUpdates \/ Heartbeat \/ UNCHANGED vars
  BY <1>3, <1>5 DEF Tick, EngineUpdates, Heartbeat, vars
<1>6. ASSUME NEW e \in Threads, MirrorLost(e) \/ WatchEngine(e) PROVE LoneInv'
  BY <1>3, <1>6 DEF MirrorLost, WatchEngine
<1>7. ~Restart
  BY DEF Restart
<1>8. QED
  BY <1>1, <1>2, <1>4, <1>5, <1>6, <1>7 DEF Next

(* "A toggle changes exactly one publisher": so it does, however often the *)
(* chase pushes it again, when it was made alone (main's /toggle).         *)
THEOREM ALoneToggleChangesOne == Spec => LoneToggleChangesOne
<1>1. ASSUME Provenance, OneSetUnderWay, LoneInv, [Next]_vars
      PROVE  [calm => Apart(rules, rules') <= 1]_vars
  <2>1. SUFFICES ASSUME Next, calm PROVE Apart(rules, rules') <= 1
    BY <1>1
  <2>2. rules' = rules \/ \E m \in mail : rules' = m.grants
    BY <2>1 DEF Next, Toggle, PushReturns, PushArrives, WatchEngine, Tick, Restart, EngineTakes,
               EngineUpdates, Heartbeat, MirrorLost
  <2>3. rules' = rules \/ rules' = asked.set
    BY <1>1, <2>1, <2>2 DEF OneSetUnderWay, AllPushTheSetAsked
  <2>4. CASE rules' = rules
    BY <2>4, ApartFacts
  <2>5. CASE rules' = asked.set
    BY <1>1, <2>1, <2>5 DEF LoneInv
  <2>6. QED
    BY <2>3, <2>4, <2>5
<1>2. Init => OneSetUnderWay /\ LoneInv
  BY DEF Init, OneSetUnderWay, LoneInv
<1>3. QED
  BY ProvenanceInit, ProvenanceStep, UnderWayStep, LoneStep, <1>1, <1>2, PTL
     DEF Spec, LoneToggleChangesOne
-----------------------------------------------------------------------------
(* Types                                                                   *)

FlagsTyped ==
  /\ synced \in BOOLEAN /\ report \in BOOLEAN /\ calm \in BOOLEAN
  /\ clearing \in BOOLEAN /\ torn \in BOOLEAN /\ asked \in SetRecord

(* A change is chased within its limits.                                   *)
WithinLimits ==
  /\ age \in 0 .. GiveUpAfter + 1 /\ attempts \in 0 .. MaxAttempts
  /\ moves \in 0 .. MaxMoves

(* No version is newer than the clock, and only real ones are on the way.  *)
Versions ==
  /\ lastVer \in 0 .. clock
  /\ \A c \in Callers : push[c].ver <= clock
  /\ mail \subseteq [ver : 1 .. clock, grants : SUBSET Publishers]

(* Initially nothing has been counted.                                     *)
LEMMA TypesInit == Init => FlagsTyped /\ WithinLimits /\ Versions
<1> SUFFICES ASSUME Init PROVE FlagsTyped /\ WithinLimits /\ Versions
  OBVIOUS
<1>1. FlagsTyped
  <2>1. NoSet \in SetRecord
    BY DEF NoSet, SetRecord
  <2>2. QED
    BY <2>1 DEF Init, FlagsTyped
<1>2. WithinLimits
  BY DEF Init, WithinLimits
<1>3. Versions
  BY DEF Init, Versions, NoPush
<1>4. QED
  BY <1>1, <1>2, <1>3

(* The flags are put up or down by the page, and a set asked for is one of *)
(* publishers.                                                             *)
LEMMA FlagsStep == SetsTyped /\ FlagsTyped /\ [Next]_vars => FlagsTyped'
<1> SUFFICES ASSUME SetsTyped, FlagsTyped, [Next]_vars PROVE FlagsTyped'
  OBVIOUS
<1>1. synced' \in BOOLEAN
  BY DEF FlagsTyped, Next, Toggle, PushReturns, PushArrives, WatchEngine, Tick, Restart,
         EngineTakes, EngineUpdates, Heartbeat, MirrorLost, vars
<1>2. report' \in BOOLEAN
  BY DEF FlagsTyped, Next, Toggle, PushReturns, PushArrives, WatchEngine, Tick, ChaseOnce,
         Restart, EngineTakes, EngineUpdates, Heartbeat, MirrorLost, vars
<1>3. calm' \in BOOLEAN
  BY DEF FlagsTyped, Next, Toggle, NothingUnderWay, PushReturns, PushArrives, WatchEngine, Tick,
         Restart, EngineTakes, EngineUpdates, Heartbeat, MirrorLost, vars
<1>5. clearing' \in BOOLEAN
  BY DEF FlagsTyped, Next, Toggle, PushReturns, PushArrives, WatchEngine, Tick, Restart,
         EngineTakes, EngineUpdates, Heartbeat, MirrorLost, vars
<1>6. torn' \in BOOLEAN
  BY DEF FlagsTyped, Next, Toggle, PushReturns, PushArrives, WatchEngine, Tick, Restart,
         EngineTakes, EngineUpdates, Heartbeat, MirrorLost, vars
<1>4. asked' \in SetRecord
  <2>1. asked' = asked \/ asked' = NoSet
          \/ \E p \in Publishers, on \in BOOLEAN :
               asked' = Known(IF on THEN granted \cup {p} ELSE granted \ {p})
    BY DEF Next, Toggle, PushReturns, PushArrives, WatchEngine, Tick, Restart, EngineTakes,
           EngineUpdates, Heartbeat, MirrorLost, vars
  <2>2. NoSet \in SetRecord
    BY DEF NoSet, SetRecord
  <2>3. ASSUME NEW p \in Publishers, NEW on \in BOOLEAN
        PROVE  Known(IF on THEN granted \cup {p} ELSE granted \ {p}) \in SetRecord
    BY DEF Known, SetRecord, SetsTyped
  <2>4. QED
    BY <2>1, <2>2, <2>3 DEF FlagsTyped
<1>7. QED
  BY <1>1, <1>2, <1>3, <1>4, <1>5, <1>6 DEF FlagsTyped

(* The chase stops at its limits.                                          *)
LEMMA LimitsStep == WithinLimits /\ [Next]_vars => WithinLimits'
<1> SUFFICES ASSUME WithinLimits, [Next]_vars PROVE WithinLimits'
  OBVIOUS
<1> USE DEF WithinLimits
<1>1. ASSUME NEW p \in Publishers, NEW on \in BOOLEAN, Toggle(p, on) PROVE WithinLimits'
  BY <1>1 DEF Toggle
<1>2. ASSUME NEW c \in Callers, PushReturns(c) \/ PushArrives(c) PROVE WithinLimits'
  BY <1>2 DEF PushReturns, PushArrives
<1>3. ASSUME NEW e \in Threads, MirrorLost(e) \/ WatchEngine(e) PROVE WithinLimits'
  BY <1>3 DEF MirrorLost, WatchEngine
<1>4. CASE Tick
  BY <1>4 DEF Tick, ChaseOnce, Older, Exhausted
<1>5. CASE Restart
  BY <1>5 DEF Restart
<1>6. CASE (\E m \in mail : EngineTakes(m)) \/ EngineUpdates \/ Heartbeat
  BY <1>6 DEF EngineTakes, EngineUpdates, Heartbeat
<1>7. CASE UNCHANGED vars
  BY <1>7 DEF vars
<1>8. QED
  BY <1>1, <1>2, <1>3, <1>4, <1>5, <1>6, <1>7 DEF Next

(* Each push has the version of its moment, and the engine's is one of the *)
(* versions pushed.                                                        *)
LEMMA VersionsStep == SetsTyped /\ Provenance /\ Versions /\ [Next]_vars => Versions'
<1> SUFFICES ASSUME SetsTyped, Provenance, Versions, [Next]_vars PROVE Versions'
  OBVIOUS
<1>a. /\ clock \in Nat /\ lastVer \in 0 .. clock
      /\ push \in [Callers -> [busy : BOOLEAN, ver : Nat, grants : SUBSET Publishers]]
      /\ \A c \in Callers : push[c].ver <= clock
      /\ mail \subseteq [ver : 1 .. clock, grants : SUBSET Publishers]
  BY DEF SetsTyped, Provenance, Versions
<1>b. ASSUME clock' \in Nat, clock' >= clock
      PROVE  [ver : 1 .. clock, grants : SUBSET Publishers] \subseteq
             [ver : 1 .. clock', grants : SUBSET Publishers]
  BY <1>a, <1>b
<1>1. ASSUME NEW c \in Callers, NEW g, StartPush(c, g), UNCHANGED <<lastVer, mail>>
      PROVE  Versions'
  BY <1>a, <1>b, <1>1 DEF StartPush, Versions
<1>2. ASSUME NEW c \in Callers, PushReturns(c) \/ PushArrives(c) PROVE Versions'
  <2>1. UNCHANGED <<clock, lastVer>> /\ (push' = push \/ push' = [push EXCEPT ![c] = NoPush])
    BY <1>2 DEF PushReturns, PushArrives
  <2>2. \/ mail' = mail
        \/ push[c].ver > lastVer /\ mail' = mail \cup {[ver |-> push[c].ver, grants |-> push[c].grants]}
    BY <1>2 DEF PushReturns, PushArrives
  <2>3. mail' \subseteq [ver : 1 .. clock, grants : SUBSET Publishers]
    <3>1. CASE push[c].ver > lastVer
      <4>1. push[c].ver \in 1 .. clock /\ push[c].grants \in SUBSET Publishers
        BY <1>a, <3>1
      <4>2. QED
        BY <1>a, <2>2, <4>1
    <3>2. CASE mail' = mail
      BY <1>a, <3>2
    <3>3. QED
      BY <2>2, <3>1, <3>2
  <2>4. \A d \in Callers : push'[d].ver <= clock
    BY <1>a, <2>1 DEF NoPush
  <2>5. QED
    BY <1>a, <2>1, <2>3, <2>4 DEF Versions
<1>3. ASSUME NEW m \in mail, EngineTakes(m) PROVE Versions'
  <2>1. UNCHANGED <<clock, push>> /\ mail' \subseteq mail /\ lastVer' \in {lastVer, m.ver}
    BY <1>3 DEF EngineTakes
  <2>2. m.ver \in 0 .. clock
    BY <1>a
  <2>3. QED
    BY <1>a, <2>1, <2>2 DEF Versions
<1>4. CASE Restart
  BY <1>a, <1>4 DEF Restart, Versions, NoPush
<1>5. ASSUME UNCHANGED <<clock, push, lastVer, mail>> PROVE Versions'
  BY <1>5 DEF Versions
<1>6. CASE EngineUpdates \/ Heartbeat \/ UNCHANGED vars
  BY <1>5, <1>6 DEF EngineUpdates, Heartbeat, vars
<1>10. ASSUME NEW e \in Threads, MirrorLost(e) \/ WatchEngine(e) PROVE Versions'
  BY <1>5, <1>10 DEF MirrorLost, WatchEngine
<1>7. CASE Tick
  BY <1>1, <1>5, <1>7 DEF Tick, ChaseOnce
<1>8. ASSUME NEW p \in Publishers, NEW on \in BOOLEAN, Toggle(p, on) PROVE Versions'
  BY <1>1, <1>8 DEF Toggle
<1>9. QED
  BY <1>2, <1>3, <1>4, <1>6, <1>7, <1>8, <1>10 DEF Next

(* Every variable of the admin keeps its type, and no change is pushed     *)
(* more than kMaxAttempts times.                                           *)
THEOREM TypeCorrect == Spec => []TypeOK
<1>1. SetsTyped /\ Provenance /\ FlagsTyped /\ WithinLimits /\ Versions => TypeOK
  <2> SUFFICES ASSUME SetsTyped, Provenance, FlagsTyped, WithinLimits, Versions PROVE TypeOK
    OBVIOUS
  <2>1. rules \subseteq Publishers
    BY DEF SetsTyped, Provenance
  <2>2. QED
    BY <2>1 DEF SetsTyped, Provenance, FlagsTyped, SetRecord, WithinLimits, Versions, TypeOK
<1>2. QED
  BY ProvenanceInit, ProvenanceStep, TypesInit, FlagsStep, LimitsStep, VersionsStep, <1>1, PTL
     DEF Spec
=============================================================================

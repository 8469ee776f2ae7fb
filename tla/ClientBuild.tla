----------------------------- MODULE ClientBuild -----------------------------
(***************************************************************************)
(* _new_bounded_client (atsign/atsign_io.py): building an AtClient.  Every *)
(* build of a process shares the socket default timeout, which it changes  *)
(* and puts back, and one root connection, the SDK's singleton.  A build   *)
(* that fails blames the root connection, drops it under _root_lock unless *)
(* somebody else already did, and builds once more inside the lock.        *)
(* First attempts take no lock.                                            *)
(***************************************************************************)
EXTENDS Naturals

CONSTANTS
  Builders,       \* the threads that build clients
  MayHang,        \* those whose build may block for ever
  MaxFaults       \* bound: faults of the network and the silences of the planner

Nobody == 0

ASSUME BuildersAssumption ==
  /\ Builders \subseteq Nat \ {Nobody} /\ MayHang \subseteq Builders /\ MaxFaults \in Nat

VARIABLES
  instance,    \* AtRootConnection.__instance: "none", or how it answers
  rootLock,    \* _root_lock
  bounded,     \* socket.getdefaulttimeout() is CONNECT_TIMEOUT_S and not None
  previous,    \* per build: the default it found
  at,          \* per builder: where its build is
  held,        \* per build: the root connection get_instance() gave it
  blamed,      \* per build: whether `blamed` is still the instance
  faults,
  overlapped   \* history: two builds were under way at once

buildVars == <<instance, rootLock, bounded, previous, at, held, blamed, faults, overlapped>>

BuildTypeOK ==
  /\ instance \in {"none", "good", "bad"}
  /\ rootLock \in Builders \cup {Nobody}
  /\ bounded \in BOOLEAN /\ previous \in [Builders -> BOOLEAN]
  /\ at \in [Builders -> {"out", "get", "create", "lookup", "blame", "redial", "hung"}]
  /\ held \in [Builders -> {"nothing", "instance", "dropped"}]
  /\ blamed \in [Builders -> {"other", "instance"}]
  /\ faults \in 0 .. MaxFaults /\ overlapped \in BOOLEAN

BuildInit ==
  /\ instance = "none" /\ rootLock = Nobody
  /\ bounded = FALSE /\ previous = [b \in Builders |-> FALSE]
  /\ at = [b \in Builders |-> "out"]
  /\ held = [b \in Builders |-> "nothing"] /\ blamed = [b \in Builders |-> "other"]
  /\ faults = 0 /\ overlapped = FALSE

Building(b) == at[b] # "out"
Idle == \A b \in Builders : ~Building(b)
Goto(b, to) == at' = [at EXCEPT ![b] = to]

(* The build starts: the default it finds is kept, then bounded.           *)
Enter(b) ==
  /\ ~Building(b) /\ Goto(b, "get")
  /\ previous' = [previous EXCEPT ![b] = bounded] /\ bounded' = TRUE
  /\ overlapped' = (overlapped \/ ~Idle)
  /\ UNCHANGED <<instance, rootLock, held, blamed, faults>>

(* get_instance(): what is there, or an own one.                           *)
GetInstance(b) ==
  /\ at[b] = "get"
  /\ \/ instance = "none" /\ Goto(b, "create") /\ UNCHANGED held
     \/ instance # "none" /\ Goto(b, "lookup") /\ held' = [held EXCEPT ![b] = "instance"]
  /\ UNCHANGED <<instance, rootLock, bounded, previous, blamed, faults, overlapped>>

(* The new instance is none that anybody blamed.                           *)
CreateInstance(b) ==
  /\ at[b] = "create" /\ instance = "none"
  /\ instance' = "good" /\ held' = [held EXCEPT ![b] = "instance"]
  /\ blamed' = [c \in Builders |-> "other"]
  /\ Goto(b, "lookup")
  /\ UNCHANGED <<rootLock, bounded, previous, faults, overlapped>>

(* An attempt fails when another thread created the instance first         *)
(* ("Singleton class"), when the root connection does not answer, or       *)
(* because of the atServer.                                                *)
MayFail(b) == at[b] = "lookup" \/ (at[b] = "create" /\ instance # "none")

FirstAttemptFails(b) ==
  /\ MayFail(b) /\ rootLock # b
  /\ Goto(b, "blame") /\ held' = [held EXCEPT ![b] = "nothing"]
  /\ UNCHANGED <<instance, rootLock, bounded, previous, blamed, faults, overlapped>>

(* `blamed` is read some time after the failure.                           *)
Blame(b) ==
  /\ at[b] = "blame" /\ Goto(b, "redial")
  /\ blamed' = [blamed EXCEPT ![b] = "instance"]
  /\ UNCHANGED <<instance, rootLock, bounded, previous, held, faults, overlapped>>

DroppedBlameless(b) == blamed[b] = "other"
ToBeDropped(b) == blamed[b] = "instance"

(* _reset_root_connection(), for everybody who holds or blames it.         *)
DropInstance ==
  /\ instance' = "none"
  /\ held' = [c \in Builders |-> IF held[c] = "instance" THEN "dropped" ELSE held[c]]
  /\ blamed' = IF instance = "none" THEN blamed ELSE [c \in Builders |-> "other"]

Redial(b) ==
  /\ at[b] = "redial" /\ rootLock = Nobody
  /\ rootLock' = b /\ Goto(b, "get")
  /\ \/ ToBeDropped(b) /\ DropInstance
     \/ ~ToBeDropped(b) /\ UNCHANGED <<instance, held, blamed>>
  /\ UNCHANGED <<bounded, previous, faults, overlapped>>

KeptBounded(b) == bounded' = bounded
RestoreDefault(b) == bounded' = previous[b]

EndBuild(b) ==
  /\ Goto(b, "out") /\ RestoreDefault(b)
  /\ previous' = [previous EXCEPT ![b] = FALSE]
  /\ held' = [held EXCEPT ![b] = "nothing"] /\ blamed' = [blamed EXCEPT ![b] = "other"]
  /\ rootLock' = IF rootLock = b THEN Nobody ELSE rootLock
  /\ UNCHANGED <<instance, faults, overlapped>>

(* A connection dropped under a lookup may still have answered it.         *)
BuildSucceeds(b) ==
  /\ at[b] = "lookup" /\ (held[b] = "dropped" \/ instance = "good")
  /\ EndBuild(b)

(* The second attempt fails: the caller is told.                           *)
BuildFails(b) == MayFail(b) /\ rootLock = b /\ EndBuild(b)

(* A peer that accepts and never answers: the SDK's connect() takes the    *)
(* bound off the socket it is given.                                       *)
Hang(b) ==
  /\ b \in MayHang /\ at[b] = "lookup"
  /\ Goto(b, "hung")
  /\ UNCHANGED <<instance, rootLock, bounded, previous, held, blamed, faults, overlapped>>

Fault ==
  /\ faults < MaxFaults /\ faults' = faults + 1
  /\ UNCHANGED <<instance, rootLock, bounded, previous, at, held, blamed, overlapped>>

RootBreaks ==
  /\ instance = "good" /\ instance' = "bad"
  /\ faults < MaxFaults /\ faults' = faults + 1
  /\ UNCHANGED <<rootLock, bounded, previous, at, held, blamed, overlapped>>

(* The steps of a build between its start and its end.                     *)
BuildStep(b) ==
  GetInstance(b) \/ CreateInstance(b) \/ FirstAttemptFails(b) \/ Blame(b) \/ Redial(b)
-----------------------------------------------------------------------------
LockHung == \E b \in Builders : rootLock = b /\ at[b] = "hung"

(* "It is deliberately restored immediately": once no client is being      *)
(* built, sockets are unbounded again -- as long as no two builds ever     *)
(* overlapped, for then the one that ends last puts the other's back.      *)
TimeoutRestored == ~overlapped /\ Idle => ~bounded

(* A root connection that stopped answering is not kept: a first attempt   *)
(* that meets it gets it dropped, by its own thread or by another, unless  *)
(* the lock is held by a build that never comes back.                      *)
BadRootDropped ==
  \A b \in Builders :
    at[b] = "lookup" /\ rootLock # b /\ held[b] = "instance" /\ instance = "bad"
      ~> instance # "bad" \/ LockHung \/ at[b] = "hung"
=============================================================================

-------------------------- MODULE RegulatoryDataset --------------------------
(***************************************************************************)
(* The life of regulatory dataset versions: load, review, reject, activate *)
(* with supersession of the version before, by any number of regload       *)
(* commands at once. Load, review and reject are transactions that lock at *)
(* most their own row and are one step each. An activation is a            *)
(* transaction of three statements that matter: lock the dataset, look for *)
(* the active version of its key and lock it, write both.                  *)
(*                                                                         *)
(* A command takes its time from its own clock after it locked the dataset *)
(* and may then wait for the active version as long as it takes. Nothing   *)
(* is assumed of these clocks: a command may read any time.                *)
(***************************************************************************)
EXTENDS Naturals, FiniteSets

CONSTANTS
  Datasets,          \* versions; (key, version) is unique, so a version is loaded once
  Keys,              \* (jurisdiction, category, source)
  KeyOf,             \* the key of each version
  Loaders,           \* persons who load
  Reviewers,         \* persons who review; the same ones, or some of them
  Commands,          \* regload processes
  Times,             \* readings of their clocks
  None               \* NULL

ASSUME KeyAssumption == KeyOf \in [Datasets -> Keys]
ASSUME TimeAssumption == Times \subseteq Nat
ASSUME NoneAssumption == None \notin Datasets \cup Loaders \cup Reviewers \cup Times

VARIABLES
  \* regulatory_datasets
  status,            \* "ABSENT" until loaded
  loadedBy,
  reviewedBy,
  activatedAt,
  supersededAt,
  \* outbox_events
  activated,         \* DatasetActivated events: dataset and PreviousDatasetID
  \* activations under way
  pc,
  own,               \* d, locked
  now,               \* the time the command took
  previous           \* the active version: locked, or waited for when pc is "wait"

rowVars == <<status, loadedBy, reviewedBy, activatedAt, supersededAt, activated>>
commandVars == <<pc, own, now, previous>>
vars == <<rowVars, commandVars>>

Events == [dataset : Datasets, previous : Datasets \cup {None}]

\* The CHECK on the columns that go with a status.
StatusColumns(d) ==
  /\ activatedAt[d] # None <=> status[d] \in {"ACTIVE", "SUPERSEDED"}
  /\ supersededAt[d] # None <=> status[d] = "SUPERSEDED"
  /\ status[d] = "SUPERSEDED" => supersededAt[d] >= activatedAt[d]

TypeOK ==
  /\ status \in [Datasets -> {"ABSENT", "LOADED", "ACTIVE", "SUPERSEDED", "REJECTED"}]
  /\ loadedBy \in [Datasets -> Loaders \cup {None}]
  /\ reviewedBy \in [Datasets -> Reviewers \cup {None}]
  /\ activatedAt \in [Datasets -> Times \cup {None}]
  /\ supersededAt \in [Datasets -> Times \cup {None}]
  /\ \A d \in Datasets : StatusColumns(d)
  /\ activated \subseteq Events
  /\ pc \in [Commands -> {"idle", "look", "wait", "save"}]
  /\ own \in [Commands -> Datasets \cup {None}]
  /\ now \in [Commands -> Times \cup {None}]
  /\ previous \in [Commands -> Datasets \cup {None}]

Init ==
  /\ status = [d \in Datasets |-> "ABSENT"]
  /\ loadedBy = [d \in Datasets |-> None]
  /\ reviewedBy = [d \in Datasets |-> None]
  /\ activatedAt = [d \in Datasets |-> None]
  /\ supersededAt = [d \in Datasets |-> None]
  /\ activated = {}
  /\ pc = [c \in Commands |-> "idle"]
  /\ own = [c \in Commands |-> None]
  /\ now = [c \in Commands |-> None]
  /\ previous = [c \in Commands |-> None]

\* Some activation holds the lock of d's row.
Locked(d) == \E c \in Commands : own[c] = d \/ (pc[c] = "save" /\ previous[c] = d)

-----------------------------------------------------------------------------
(* Load, review, reject                                                    *)

\* The dataset and its rules are inserted together; curated data needs a review.
LoadCurated(d, by) ==
  /\ status[d] = "ABSENT"
  /\ status' = [status EXCEPT ![d] = "LOADED"]
  /\ loadedBy' = [loadedBy EXCEPT ![d] = by]
  /\ UNCHANGED <<reviewedBy, activatedAt, supersededAt, activated, commandVars>>

\* GetForUpdate waits for whoever holds the row and reads what he left.
Review(d, by) ==
  /\ ~Locked(d)
  /\ status[d] = "LOADED" /\ reviewedBy[d] = None /\ by # loadedBy[d]
  /\ reviewedBy' = [reviewedBy EXCEPT ![d] = by]
  /\ UNCHANGED <<status, loadedBy, activatedAt, supersededAt, activated, commandVars>>

Reject(d) ==
  /\ ~Locked(d)
  /\ status[d] = "LOADED"
  /\ status' = [status EXCEPT ![d] = "REJECTED"]
  /\ UNCHANGED <<loadedBy, reviewedBy, activatedAt, supersededAt, activated, commandVars>>

-----------------------------------------------------------------------------
(* Activate                                                                *)

\* Bug: the status is not looked at before the other version is.
BeginUnchecked(c, d, t) ==
  /\ pc[c] = "idle" /\ ~Locked(d)
  /\ status[d] # "ABSENT" /\ reviewedBy[d] # None
  /\ pc' = [pc EXCEPT ![c] = "look"]
  /\ own' = [own EXCEPT ![c] = d]
  /\ now' = [now EXCEPT ![c] = t]
  /\ UNCHANGED <<rowVars, previous>>

\* Lock the dataset, take the time, Dataset.Activate.
Begin(c, d, t) ==
  /\ pc[c] = "idle" /\ ~Locked(d)
  /\ status[d] = "LOADED" /\ reviewedBy[d] # None
  /\ pc' = [pc EXCEPT ![c] = "look"]
  /\ own' = [own EXCEPT ![c] = d]
  /\ now' = [now EXCEPT ![c] = t]
  /\ UNCHANGED <<rowVars, previous>>

Goto(c, l, d) ==
  /\ pc' = [pc EXCEPT ![c] = l]
  /\ previous' = [previous EXCEPT ![c] = d]
  /\ UNCHANGED <<rowVars, own, now>>

Active(k) == {d \in Datasets : KeyOf[d] = k /\ status[d] = "ACTIVE"}

\* ActiveForUpdate: the statement's snapshot shows an active version, whose lock it
\* takes or has to wait for, or none.
Look(c) ==
  LET found == Active(KeyOf[own[c]]) IN
  /\ pc[c] = "look"
  /\ \/ found = {} /\ Goto(c, "save", None)
     \/ \E d \in found : Goto(c, IF Locked(d) THEN "wait" ELSE "save", d)

\* The wait is over: a row that is not ACTIVE any more no longer matches, and the one
\* that took its place is not in the statement's snapshot.
Wake(c) ==
  /\ pc[c] = "wait"
  /\ ~Locked(previous[c])
  /\ Goto(c, "save", IF status[previous[c]] = "ACTIVE" THEN previous[c] ELSE None)

\* Bug: a version may be superseded before it was activated.
SupersedeAnyTime(d, t) == TRUE

\* Dataset.Supersede, and the CHECK behind it.
MaySupersede(d, t) == d # None => activatedAt[d] <= t

\* Bug: no unique index.
SaveUnguarded(c) == TRUE

\* One ACTIVE version per key.
UniqueActive(c) == Active(KeyOf[own[c]]) \subseteq {previous[c]}

\* The transaction is over, its locks are released.
End(c) ==
  /\ pc' = [pc EXCEPT ![c] = "idle"]
  /\ own' = [own EXCEPT ![c] = None]
  /\ now' = [now EXCEPT ![c] = None]
  /\ previous' = [previous EXCEPT ![c] = None]

\* Bug: superseded_at is not written.
CloseNothing(d, t) == UNCHANGED supersededAt

\* Bug: the version before is closed at its own activation.
EraseSuperseded(d, t) ==
  IF d = None THEN UNCHANGED supersededAt
  ELSE supersededAt' = [supersededAt EXCEPT ![d] = activatedAt[d]]

CloseSuperseded(d, t) ==
  IF d = None THEN UNCHANGED supersededAt
  ELSE supersededAt' = [supersededAt EXCEPT ![d] = t]

\* The event is written in the transaction of the activation.
CreateDatasetActivatedEvent(d, p) == activated' = activated \cup {[dataset |-> d, previous |-> p]}

\* Supersede, save, write the event, commit. Every row it writes has been locked, so
\* the writes are one step.
Save(c) ==
  LET d == own[c]
      p == previous[c]
  IN /\ pc[c] = "save"
     /\ MaySupersede(p, now[c]) /\ UniqueActive(c)
     /\ status' = [x \in Datasets |-> IF x = d THEN "ACTIVE"
                                      ELSE IF x = p THEN "SUPERSEDED" ELSE status[x]]
     /\ activatedAt' = [activatedAt EXCEPT ![d] = now[c]]
     /\ CloseSuperseded(p, now[c])
     /\ CreateDatasetActivatedEvent(d, p)
     /\ UNCHANGED <<loadedBy, reviewedBy>>
     /\ End(c)

\* ErrInvalidTransition or ErrConcurrentActivation: rolled back.
Refused(c) ==
  /\ pc[c] = "save"
  /\ ~(MaySupersede(previous[c], now[c]) /\ UniqueActive(c))
  /\ End(c)
  /\ UNCHANGED rowVars

\* The process dies or a statement fails: rolled back.
Fail(c) ==
  /\ pc[c] # "idle"
  /\ End(c)
  /\ UNCHANGED rowVars

Next ==
  \/ \E d \in Datasets, by \in Loaders : LoadCurated(d, by)
  \/ \E d \in Datasets, by \in Reviewers : Review(d, by)
  \/ \E d \in Datasets : Reject(d)
  \/ \E c \in Commands, d \in Datasets, t \in Times : Begin(c, d, t)
  \/ \E c \in Commands : Look(c) \/ Wake(c) \/ Save(c) \/ Refused(c) \/ Fail(c)

Spec == Init /\ [][Next]_vars

-----------------------------------------------------------------------------
(* ActiveAt                                                                *)

\* In force at t: activated_at <= t < superseded_at.
InForce(k, t) ==
  {d \in Datasets : /\ KeyOf[d] = k
                    /\ activatedAt[d] # None /\ activatedAt[d] <= t
                    /\ supersededAt[d] = None \/ t < supersededAt[d]}

-----------------------------------------------------------------------------
(* Properties                                                              *)

\* Whatever the clocks of racing activations say, the validities of a key's versions
\* fit together: from the first activation on, exactly one version is in force at any
\* time. An overlap would make two rule sets apply, a gap none.
OneInForce ==
  \A k \in Keys, t \in Times :
    (\E d \in Datasets : KeyOf[d] = k /\ activatedAt[d] # None /\ activatedAt[d] <= t)
      => Cardinality(InForce(k, t)) = 1

\* The DatasetActivated events of a key tell its history: one per version that was
\* ever active, each naming the version it closed at the instant it opened, the first
\* one naming none; so consumers that follow PreviousDatasetID miss no version.
EventsFormChain ==
  /\ \A d \in Datasets :
       activatedAt[d] # None <=> \E e \in activated : e.dataset = d
  /\ \A e, f \in activated :
       e # f => e.dataset # f.dataset
                /\ (KeyOf[e.dataset] = KeyOf[f.dataset] => e.previous # f.previous)
  /\ \A e \in activated : e.previous # None =>
       /\ KeyOf[e.previous] = KeyOf[e.dataset]
       /\ supersededAt[e.previous] = activatedAt[e.dataset]

\* An activation rewrites nothing before the time it takes: what was in force at t
\* changes only through a version of that key that becomes active at t or earlier.
PastStandsStill ==
  [][\A k \in Keys, t \in Times :
       InForce(k, t)' # InForce(k, t) =>
         \E d \in Datasets : /\ KeyOf[d] = k
                             /\ status[d] = "LOADED" /\ status'[d] = "ACTIVE"
                             /\ activatedAt'[d] <= t]_vars

\* Activations never wait in a circle: the row one of them waits for is held by one that
\* has all its locks and can finish.
NoWaitCycle ==
  \A c \in Commands : pc[c] = "wait" /\ Locked(previous[c]) =>
    \E h \in Commands : pc[h] = "save" /\ previous[h] = previous[c]

=============================================================================

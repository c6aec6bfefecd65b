--------------------------- MODULE RegulatoryProofs ---------------------------
(***************************************************************************)
(* For any number of versions, keys, commands and clock readings:          *)
(* RegulatoryDataset is type correct, its validities fit together, nobody  *)
(* waits in a circle and no activation rewrites the time before it.        *)
(*                                                                         *)
(* The argument: row locks keep the version an activation is about to      *)
(* supersede ACTIVE (LockInv). So the ACTIVE version of a key is the last  *)
(* of its history, with every other one closed before it opened            *)
(* (ChainInv), and opening a new one when the last is closed extends the   *)
(* history without overlap or gap (ForceInv).                              *)
(***************************************************************************)
EXTENDS TariffDecision, FiniteSetTheorems, NaturalsInduction, WellFoundedInduction, TLAPS

\* An activation owns a LOADED version alone; what it waits for was ACTIVE once; what it
\* has locked to supersede is ACTIVE still, and locked by nobody else.
LockInv ==
  /\ \A c \in Commands : pc[c] = "idle" <=> own[c] = None
  /\ \A c \in Commands : pc[c] # "idle" => now[c] \in Times /\ status[own[c]] = "LOADED"
  /\ \A c, h \in Commands : own[c] # None /\ own[c] = own[h] => c = h
  /\ \A c \in Commands : pc[c] = "wait" =>
       /\ previous[c] \in Datasets /\ KeyOf[previous[c]] = KeyOf[own[c]]
       /\ status[previous[c]] \in {"ACTIVE", "SUPERSEDED"}
  /\ \A c \in Commands : pc[c] = "save" /\ previous[c] # None =>
       status[previous[c]] = "ACTIVE" /\ KeyOf[previous[c]] = KeyOf[own[c]]
  /\ \A c, h \in Commands :
       pc[c] = "save" /\ pc[h] = "save" /\ previous[c] # None /\ previous[c] = previous[h]
         => c = h

\* A key with a history has an ACTIVE version, and every other one was closed by then.
ChainInv ==
  /\ \A d \in Datasets : activatedAt[d] # None =>
       \E a \in Datasets : KeyOf[a] = KeyOf[d] /\ status[a] = "ACTIVE"
  /\ \A a, e \in Datasets :
       status[a] = "ACTIVE" /\ e # a /\ KeyOf[e] = KeyOf[a] /\ activatedAt[e] # None
         => supersededAt[e] # None /\ supersededAt[e] <= activatedAt[a]

\* OneInForce, without cardinalities.
ForceInv ==
  \A k \in Keys, t \in Times :
    (\E d \in Datasets : KeyOf[d] = k /\ activatedAt[d] # None /\ activatedAt[d] <= t)
      => \E d \in Datasets : InForce(k, t) = {d}

IInv == TypeOK /\ LockInv /\ ChainInv /\ ForceInv /\ EventsFormChain

-----------------------------------------------------------------------------

LEMMA InitIInv == Init => IInv
<1> SUFFICES ASSUME Init PROVE IInv
  OBVIOUS
<1>1. TypeOK
  BY NoneAssumption DEF Init, TypeOK, StatusColumns
<1>2. LockInv
  BY DEF Init, LockInv
<1>3. ChainInv /\ ForceInv /\ EventsFormChain
  BY DEF Init, ChainInv, ForceInv, EventsFormChain
<1> QED
  BY <1>1, <1>2, <1>3 DEF IInv

\* A step that leaves the history alone keeps what is said of it.
LEMMA HistoryKept ==
  ASSUME ChainInv, ForceInv, EventsFormChain,
         UNCHANGED <<activatedAt, supersededAt, activated>>,
         \A d \in Datasets : status'[d] = "ACTIVE" <=> status[d] = "ACTIVE"
  PROVE  ChainInv' /\ ForceInv' /\ EventsFormChain'
<1>1. ChainInv'
  BY DEF ChainInv
<1>2. \A k \in Keys, t \in Times : InForce(k, t)' = InForce(k, t)
  BY DEF InForce
<1>3. ForceInv'
  BY <1>2 DEF ForceInv
<1>4. EventsFormChain'
  BY DEF EventsFormChain
<1> QED
  BY <1>1, <1>3, <1>4

LEMMA LoadStep ==
  ASSUME IInv, NEW d \in Datasets, NEW by \in Loaders, LoadCurated(d, by)
  PROVE  IInv'
<1> USE DEF IInv
<1>1. TypeOK'
  BY NoneAssumption DEF LoadCurated, commandVars, TypeOK, StatusColumns
<1>2. LockInv'
  BY DEF LoadCurated, commandVars, TypeOK, LockInv
<1>3. ChainInv' /\ ForceInv' /\ EventsFormChain'
  <2>1. \A x \in Datasets : status'[x] = "ACTIVE" <=> status[x] = "ACTIVE"
    BY DEF LoadCurated, TypeOK
  <2> QED
    BY <2>1, HistoryKept DEF LoadCurated
<1> QED
  BY <1>1, <1>2, <1>3

LEMMA ReviewStep ==
  ASSUME IInv, NEW d \in Datasets, NEW by \in Reviewers, Review(d, by)
  PROVE  IInv'
<1> USE DEF IInv
<1>1. TypeOK'
  BY NoneAssumption DEF Review, commandVars, TypeOK, StatusColumns
<1>2. LockInv'
  BY DEF Review, commandVars, LockInv
<1>3. ChainInv' /\ ForceInv' /\ EventsFormChain'
  BY HistoryKept DEF Review
<1> QED
  BY <1>1, <1>2, <1>3

LEMMA RejectStep ==
  ASSUME IInv, NEW d \in Datasets, Reject(d)
  PROVE  IInv'
<1> USE DEF IInv
<1>1. TypeOK'
  BY NoneAssumption DEF Reject, commandVars, TypeOK, StatusColumns
<1>2. LockInv'
  BY NoneAssumption DEF Reject, commandVars, TypeOK, LockInv, Locked
<1>3. ChainInv' /\ ForceInv' /\ EventsFormChain'
  <2>1. \A x \in Datasets : status'[x] = "ACTIVE" <=> status[x] = "ACTIVE"
    BY DEF Reject, TypeOK
  <2> QED
    BY <2>1, HistoryKept DEF Reject
<1> QED
  BY <1>1, <1>2, <1>3

LEMMA BeginStep ==
  ASSUME IInv, NEW c \in Commands, NEW d \in Datasets, NEW t \in Times, Begin(c, d, t)
  PROVE  IInv'
<1> USE DEF IInv
<1>1. TypeOK'
  BY NoneAssumption DEF Begin, rowVars, TypeOK, StatusColumns
<1>2. LockInv'
  BY NoneAssumption DEF Begin, rowVars, TypeOK, LockInv, Locked
<1>3. ChainInv' /\ ForceInv' /\ EventsFormChain'
  BY HistoryKept DEF Begin, rowVars
<1> QED
  BY <1>1, <1>2, <1>3

LEMMA LookStep ==
  ASSUME IInv, NEW c \in Commands, Look(c)
  PROVE  IInv'
<1> USE DEF IInv
<1>1. PICK l \in {"save", "wait"}, p \in Datasets \cup {None} :
        /\ Goto(c, l, p)
        /\ p # None => status[p] = "ACTIVE" /\ KeyOf[p] = KeyOf[own[c]]
        /\ p # None /\ l = "save" => ~Locked(p)
        /\ l = "wait" => p # None
  <2>1. CASE Active(KeyOf[own[c]]) = {} /\ Goto(c, "save", None)
    BY <2>1
  <2>2. CASE \E d \in Active(KeyOf[own[c]]) : Goto(c, IF Locked(d) THEN "wait" ELSE "save", d)
    BY <2>2, NoneAssumption DEF Active
  <2> QED
    BY <2>1, <2>2 DEF Look
<1>2. pc[c] = "look"
  BY DEF Look
<1>3. TypeOK'
  BY <1>1 DEF Goto, rowVars, TypeOK, StatusColumns
<1>4. LockInv'
  BY <1>1, <1>2 DEF Goto, rowVars, TypeOK, LockInv, Locked
<1>5. ChainInv' /\ ForceInv' /\ EventsFormChain'
  BY <1>1, HistoryKept DEF Goto, rowVars
<1> QED
  BY <1>3, <1>4, <1>5

LEMMA WakeStep ==
  ASSUME IInv, NEW c \in Commands, Wake(c)
  PROVE  IInv'
<1> USE DEF IInv
<1>1. PICK p \in Datasets \cup {None} :
        /\ Goto(c, "save", p)
        /\ p # None => status[p] = "ACTIVE" /\ KeyOf[p] = KeyOf[own[c]] /\ ~Locked(p)
  BY DEF Wake, TypeOK, LockInv
<1>2. pc[c] = "wait"
  BY DEF Wake
<1>3. TypeOK'
  BY <1>1 DEF Goto, rowVars, TypeOK, StatusColumns
<1>4. LockInv'
  BY <1>1, <1>2 DEF Goto, rowVars, TypeOK, LockInv, Locked
<1>5. ChainInv' /\ ForceInv' /\ EventsFormChain'
  BY <1>1, HistoryKept DEF Goto, rowVars
<1> QED
  BY <1>3, <1>4, <1>5

\* An activation that ends without a write.
LEMMA RollbackStep ==
  ASSUME IInv, NEW c \in Commands, End(c), UNCHANGED rowVars
  PROVE  IInv'
<1> USE DEF IInv
<1>1. TypeOK'
  BY DEF End, rowVars, TypeOK, StatusColumns
<1>2. LockInv'
  BY DEF End, rowVars, TypeOK, LockInv
<1>3. ChainInv' /\ ForceInv' /\ EventsFormChain'
  BY HistoryKept DEF rowVars
<1> QED
  BY <1>1, <1>2, <1>3

\* What an activation finds when it writes: the version before, if there is one, is the
\* last of its key's history, and its own version has none yet.
LEMMA SaveFinds ==
  ASSUME IInv, NEW c \in Commands, Save(c)
  PROVE  /\ own[c] \in Datasets /\ now[c] \in Times /\ previous[c] # own[c]
         /\ status[own[c]] = "LOADED"
         /\ activatedAt[own[c]] = None /\ supersededAt[own[c]] = None
         /\ previous[c] # None =>
              /\ previous[c] \in Datasets /\ KeyOf[previous[c]] = KeyOf[own[c]]
              /\ status[previous[c]] = "ACTIVE"
              /\ activatedAt[previous[c]] \in Times /\ activatedAt[previous[c]] <= now[c]
              /\ supersededAt[previous[c]] = None
         /\ \A e \in Datasets : KeyOf[e] = KeyOf[own[c]] /\ activatedAt[e] # None /\ e # previous[c]
              => /\ previous[c] # None
                 /\ supersededAt[e] \in Times /\ supersededAt[e] <= activatedAt[previous[c]]
<1>1. /\ own[c] \in Datasets /\ now[c] \in Times /\ status[own[c]] = "LOADED"
      /\ activatedAt[own[c]] = None /\ supersededAt[own[c]] = None
  BY DEF IInv, Save, LockInv, TypeOK, StatusColumns
<1>2. previous[c] # None =>
        /\ previous[c] \in Datasets /\ KeyOf[previous[c]] = KeyOf[own[c]]
        /\ status[previous[c]] = "ACTIVE"
        /\ activatedAt[previous[c]] \in Times /\ activatedAt[previous[c]] <= now[c]
        /\ supersededAt[previous[c]] = None
  BY DEF IInv, Save, LockInv, TypeOK, StatusColumns, MaySupersede
<1>3. ASSUME NEW e \in Datasets, KeyOf[e] = KeyOf[own[c]], activatedAt[e] # None, e # previous[c]
      PROVE  /\ previous[c] # None
             /\ supersededAt[e] \in Times /\ supersededAt[e] <= activatedAt[previous[c]]
  <2>1. PICK a \in Datasets : KeyOf[a] = KeyOf[e] /\ status[a] = "ACTIVE"
    BY <1>3 DEF IInv, ChainInv
  <2>2. a = previous[c]
    BY <1>3, <2>1 DEF Save, UniqueActive, Active
  <2>3. supersededAt[e] # None /\ supersededAt[e] <= activatedAt[a]
    BY <1>3, <2>1, <2>2 DEF IInv, ChainInv
  <2> QED
    BY <2>1, <2>2, <2>3, NoneAssumption DEF IInv, TypeOK
<1>4. previous[c] # own[c]
  BY <1>1, <1>2, NoneAssumption
<1> QED
  BY <1>1, <1>2, <1>3, <1>4

LEMMA SaveWrites ==
  ASSUME IInv, NEW c \in Commands, Save(c)
  PROVE  /\ \A x \in Datasets : status'[x] = IF x = own[c] THEN "ACTIVE"
                                  ELSE IF x = previous[c] THEN "SUPERSEDED" ELSE status[x]
         /\ \A x \in Datasets : activatedAt'[x] = IF x = own[c] THEN now[c] ELSE activatedAt[x]
         /\ \A x \in Datasets : supersededAt'[x] = IF x = previous[c] THEN now[c] ELSE supersededAt[x]
  BY NoneAssumption DEF IInv, Save, CloseSuperseded, TypeOK

\* The time before an activation stands still; from then on its version is in force.
LEMMA SaveForce ==
  ASSUME IInv, NEW c \in Commands, Save(c), NEW k \in Keys, NEW t \in Times
  PROVE  InForce(k, t)' = IF k = KeyOf[own[c]] /\ now[c] <= t THEN {own[c]} ELSE InForce(k, t)
<1>1. ASSUME NEW x \in Datasets
      PROVE  x \in InForce(k, t)' <=>
               x \in (IF k = KeyOf[own[c]] /\ now[c] <= t THEN {own[c]} ELSE InForce(k, t))
  <2> DEFINE d == own[c]
  <2> DEFINE p == previous[c]
  <2>1. CASE x = d
    BY <2>1, SaveFinds, SaveWrites, NoneAssumption, TimeAssumption DEF InForce
  <2>2. CASE x # d /\ x = p
    <3>1. /\ KeyOf[p] = KeyOf[d] /\ activatedAt[p] \in Times /\ activatedAt[p] <= now[c]
          /\ supersededAt[p] = None /\ now[c] \in Times
      BY <2>2, SaveFinds, NoneAssumption
    <3>2. activatedAt'[x] = activatedAt[p] /\ supersededAt'[x] = now[c]
      BY <2>2, SaveWrites
    <3>3. x \in InForce(k, t)' <=> KeyOf[d] = k /\ activatedAt[p] <= t /\ t < now[c]
      BY <2>2, <3>1, <3>2, NoneAssumption DEF InForce
    <3>4. x \in InForce(k, t) <=> KeyOf[d] = k /\ activatedAt[p] <= t
      BY <2>2, <3>1, NoneAssumption DEF InForce
    <3>5. now[c] \in Nat /\ t \in Nat
      BY <3>1, TimeAssumption
    <3> QED
      BY <2>2, <3>3, <3>4, <3>5
  <2>3. CASE x # d /\ x # p
    <3>1. activatedAt'[x] = activatedAt[x] /\ supersededAt'[x] = supersededAt[x]
      BY <2>3, SaveWrites
    <3>2. x \in InForce(k, t)' <=> x \in InForce(k, t)
      BY <3>1 DEF InForce
    <3>3. k = KeyOf[d] /\ now[c] <= t => x \notin InForce(k, t)
      <4> SUFFICES ASSUME k = KeyOf[d], now[c] <= t, x \in InForce(k, t)
                   PROVE  FALSE
        OBVIOUS
      <4>1. KeyOf[x] = k /\ activatedAt[x] # None /\ (supersededAt[x] = None \/ t < supersededAt[x])
        BY DEF InForce
      <4>2. /\ p # None /\ supersededAt[x] \in Times /\ supersededAt[x] <= activatedAt[p]
            /\ activatedAt[p] \in Times /\ activatedAt[p] <= now[c] /\ now[c] \in Times
        BY <2>3, <4>1, SaveFinds
      <4>3. /\ t \in Nat /\ supersededAt[x] \in Nat /\ activatedAt[p] \in Nat /\ now[c] \in Nat
            /\ supersededAt[x] # None
        BY <4>2, TimeAssumption, NoneAssumption
      <4> QED
        BY <4>1, <4>2, <4>3
    <3> QED
      BY <2>3, <3>2, <3>3
  <2> QED
    BY <2>1, <2>2, <2>3
<1>2. InForce(k, t)' \subseteq Datasets /\ InForce(k, t) \subseteq Datasets
  BY DEF InForce
<1>3. own[c] \in Datasets
  BY SaveFinds
<1> QED
  BY <1>1, <1>2, <1>3

LEMMA SaveStep ==
  ASSUME IInv, NEW c \in Commands, Save(c)
  PROVE  IInv'
<1> DEFINE d == own[c]
<1> DEFINE p == previous[c]
<1>1. TypeOK'
  <2>1. /\ status' \in [Datasets -> {"ABSENT", "LOADED", "ACTIVE", "SUPERSEDED", "REJECTED"}]
        /\ activatedAt' \in [Datasets -> Times \cup {None}]
        /\ supersededAt' \in [Datasets -> Times \cup {None}]
    BY SaveFinds, NoneAssumption DEF IInv, TypeOK, Save, CloseSuperseded
  <2>2. \A x \in Datasets : StatusColumns(x)'
    BY SaveFinds, SaveWrites, NoneAssumption, TimeAssumption DEF IInv, TypeOK, StatusColumns
  <2>3. activated' \subseteq Events
    <3>1. own[c] \in Datasets /\ previous[c] \in Datasets \cup {None}
      BY SaveFinds
    <3>2. [dataset |-> own[c], previous |-> previous[c]] \in Events
      BY <3>1 DEF Events
    <3> QED
      BY <3>2 DEF IInv, TypeOK, Save, CreateDatasetActivatedEvent
  <2>4. /\ pc' \in [Commands -> {"idle", "look", "wait", "save"}]
        /\ own' \in [Commands -> Datasets \cup {None}]
        /\ now' \in [Commands -> Times \cup {None}]
        /\ previous' \in [Commands -> Datasets \cup {None}]
    BY DEF IInv, TypeOK, Save, End
  <2> QED
    BY <2>1, <2>2, <2>3, <2>4 DEF IInv, TypeOK, Save
<1>2. LockInv'
  <2>1. \A x \in Commands \ {c} : /\ pc'[x] = pc[x] /\ own'[x] = own[x] /\ now'[x] = now[x]
                                  /\ previous'[x] = previous[x]
    BY DEF IInv, TypeOK, Save, End
  <2>2. pc'[c] = "idle" /\ own'[c] = None /\ previous'[c] = None
    BY DEF IInv, TypeOK, Save, End
  <2>3. \A x \in Commands \ {c} : own[x] # d /\ (pc[x] # "idle" => own[x] # p)
    <3> SUFFICES ASSUME NEW x \in Commands \ {c}
                 PROVE  own[x] # d /\ (pc[x] # "idle" => own[x] # p)
      OBVIOUS
    <3>1. d # None
      BY SaveFinds, NoneAssumption
    <3>2. own[x] # d
      BY <3>1 DEF IInv, LockInv
    <3>3. pc[x] # "idle" => own[x] # None /\ status[own[x]] = "LOADED"
      BY DEF IInv, LockInv
    <3>4. p # None => status[p] = "ACTIVE"
      BY SaveFinds
    <3> QED
      BY <3>2, <3>3, <3>4
  <2>4. pc[c] = "save"
    BY DEF Save
  <2> QED
    BY <2>1, <2>2, <2>3, <2>4, SaveFinds, SaveWrites DEF IInv, LockInv, TypeOK
<1>3. ChainInv'
  <2>1. \A x \in Datasets : activatedAt'[x] # None =>
          \E a \in Datasets : KeyOf[a] = KeyOf[x] /\ status'[a] = "ACTIVE"
    <3> SUFFICES ASSUME NEW x \in Datasets, activatedAt'[x] # None
                 PROVE  \E a \in Datasets : KeyOf[a] = KeyOf[x] /\ status'[a] = "ACTIVE"
      OBVIOUS
    <3>1. CASE KeyOf[x] = KeyOf[d]
      BY <3>1, SaveFinds, SaveWrites
    <3>2. CASE KeyOf[x] # KeyOf[d]
      <4>1. activatedAt[x] # None
        BY <3>2, SaveWrites
      <4>2. PICK a \in Datasets : KeyOf[a] = KeyOf[x] /\ status[a] = "ACTIVE"
        BY <4>1 DEF IInv, ChainInv
      <4>3. status'[a] = "ACTIVE"
        BY <3>2, <4>2, SaveFinds, SaveWrites, NoneAssumption
      <4> QED
        BY <4>2, <4>3
    <3> QED
      BY <3>1, <3>2
  <2>2. \A a, e \in Datasets :
          status'[a] = "ACTIVE" /\ e # a /\ KeyOf[e] = KeyOf[a] /\ activatedAt'[e] # None
            => supersededAt'[e] # None /\ supersededAt'[e] <= activatedAt'[a]
    <3> SUFFICES ASSUME NEW a \in Datasets, NEW e \in Datasets, status'[a] = "ACTIVE", e # a,
                        KeyOf[e] = KeyOf[a], activatedAt'[e] # None
                 PROVE  supersededAt'[e] # None /\ supersededAt'[e] <= activatedAt'[a]
      OBVIOUS
    <3>1. CASE a = d
      <4>1. activatedAt'[a] = now[c] /\ now[c] \in Times /\ activatedAt[e] # None
        BY <3>1, SaveFinds, SaveWrites
      <4>2. CASE e = p
        <5>1. supersededAt'[e] = now[c]
          BY <4>2, SaveWrites
        <5>2. now[c] \in Nat /\ now[c] # None
          BY <4>1, TimeAssumption, NoneAssumption
        <5> QED
          BY <4>1, <5>1, <5>2
      <4>3. CASE e # p
        <5>1. /\ p # None /\ supersededAt[e] \in Times /\ supersededAt[e] <= activatedAt[p]
              /\ activatedAt[p] \in Times /\ activatedAt[p] <= now[c]
          BY <3>1, <4>1, <4>3, SaveFinds
        <5>2. supersededAt'[e] = supersededAt[e]
          BY <4>3, SaveWrites
        <5>3. supersededAt[e] \in Nat /\ activatedAt[p] \in Nat /\ now[c] \in Nat
          BY <4>1, <5>1, TimeAssumption
        <5>4. supersededAt[e] # None
          BY <5>1, NoneAssumption
        <5> QED
          BY <4>1, <5>1, <5>2, <5>3, <5>4
      <4> QED
        BY <4>2, <4>3
    <3>2. CASE a # d
      <4>1. status[a] = "ACTIVE" /\ a # p
        BY <3>2, SaveFinds, SaveWrites
      <4>2. KeyOf[a] # KeyOf[d]
        BY <4>1 DEF Save, UniqueActive, Active
      <4>3. e # d /\ e # p /\ activatedAt[e] # None
        BY <4>2, SaveFinds, SaveWrites, NoneAssumption
      <4> QED
        BY <3>2, <4>1, <4>3, SaveWrites DEF IInv, ChainInv
    <3> QED
      BY <3>1, <3>2
  <2> QED
    BY <2>1, <2>2 DEF ChainInv
<1>4. ForceInv'
  <2> SUFFICES ASSUME NEW k \in Keys, NEW t \in Times,
                      NEW x \in Datasets, KeyOf[x] = k, activatedAt'[x] # None, activatedAt'[x] <= t
               PROVE  \E y \in Datasets : InForce(k, t)' = {y}
    BY DEF ForceInv
  <2>1. CASE k = KeyOf[d] /\ now[c] <= t
    BY <2>1, SaveForce, SaveFinds
  <2>2. CASE ~(k = KeyOf[d] /\ now[c] <= t)
    <3>1. x # d
      BY <2>2, SaveWrites
    <3>2. activatedAt[x] # None /\ activatedAt[x] <= t
      BY <3>1, SaveWrites
    <3>3. PICK y \in Datasets : InForce(k, t) = {y}
      BY <3>2 DEF IInv, ForceInv
    <3> QED
      BY <2>2, <3>3, SaveForce
  <2> QED
    BY <2>1, <2>2
<1>5. EventsFormChain'
  <2> DEFINE new == [dataset |-> d, previous |-> p]
  <2>1. activated' = activated \cup {new}
    BY DEF Save, CreateDatasetActivatedEvent
  <2>2. \A e \in activated : e.dataset \in Datasets /\ e.dataset # d
    BY SaveFinds DEF IInv, TypeOK, Events, EventsFormChain
  <2>3. \A x \in Datasets : activatedAt'[x] # None <=> \E e \in activated' : e.dataset = x
    <3> SUFFICES ASSUME NEW x \in Datasets
                 PROVE  activatedAt'[x] # None <=> \E e \in activated' : e.dataset = x
      OBVIOUS
    <3>1. CASE x = d
      <4>1. activatedAt'[x] # None
        BY <3>1, SaveFinds, SaveWrites, NoneAssumption
      <4>2. new \in activated' /\ new.dataset = x
        BY <2>1, <3>1
      <4> QED
        BY <4>1, <4>2
    <3>2. CASE x # d
      <4>1. activatedAt'[x] = activatedAt[x]
        BY <3>2, SaveWrites
      <4>2. activatedAt[x] # None <=> \E e \in activated : e.dataset = x
        BY DEF IInv, EventsFormChain
      <4>3. new.dataset # x
        BY <3>2
      <4> QED
        BY <2>1, <4>1, <4>2, <4>3
    <3> QED
      BY <3>1, <3>2
  <2>4. \A e \in activated : KeyOf[e.dataset] = KeyOf[d] => e.previous # p
    <3> SUFFICES ASSUME NEW e \in activated, KeyOf[e.dataset] = KeyOf[d], e.previous = p
                 PROVE  FALSE
      OBVIOUS
    <3>1. activatedAt[e.dataset] # None
      BY <2>2 DEF IInv, EventsFormChain
    <3>2. p # None
      BY <2>2, <3>1, SaveFinds, NoneAssumption
    <3>3. supersededAt[p] = activatedAt[e.dataset]
      BY <3>2 DEF IInv, EventsFormChain
    <3> QED
      BY <3>1, <3>2, <3>3, SaveFinds
  <2>5. \A e \in activated : e.previous # None =>
          /\ e.previous # p
          /\ KeyOf[e.previous] = KeyOf[e.dataset]
          /\ supersededAt'[e.previous] = activatedAt'[e.dataset]
    <3> SUFFICES ASSUME NEW e \in activated, e.previous # None
                 PROVE  /\ e.previous # p
                        /\ KeyOf[e.previous] = KeyOf[e.dataset]
                        /\ supersededAt'[e.previous] = activatedAt'[e.dataset]
      OBVIOUS
    <3>1. e.previous \in Datasets /\ e.dataset \in Datasets
      BY DEF IInv, TypeOK, Events
    <3>2. KeyOf[e.previous] = KeyOf[e.dataset] /\ supersededAt[e.previous] = activatedAt[e.dataset]
      BY DEF IInv, EventsFormChain
    <3>3. activatedAt[e.dataset] # None
      BY <3>1 DEF IInv, EventsFormChain
    <3>4. e.previous # p
      BY <3>2, <3>3, SaveFinds
    <3> QED
      BY <2>2, <3>1, <3>2, <3>4, SaveWrites
  <2>6. p # None => KeyOf[p] = KeyOf[d] /\ supersededAt'[p] = activatedAt'[d]
    BY SaveFinds, SaveWrites
  <2>7. \A e, f \in activated' : e # f =>
          e.dataset # f.dataset /\ (KeyOf[e.dataset] = KeyOf[f.dataset] => e.previous # f.previous)
    BY <2>1, <2>2, <2>4 DEF IInv, EventsFormChain
  <2> QED
    BY <2>1, <2>3, <2>5, <2>6, <2>7 DEF EventsFormChain
<1> QED
  BY <1>1, <1>2, <1>3, <1>4, <1>5 DEF IInv

LEMMA StepIInv == IInv /\ [Next]_vars => IInv'
<1> SUFFICES ASSUME IInv, [Next]_vars PROVE IInv'
  OBVIOUS
<1>1. CASE \/ \E d \in Datasets, by \in Loaders : LoadCurated(d, by)
           \/ \E d \in Datasets, by \in Reviewers : Review(d, by)
  BY <1>1, LoadStep, ReviewStep
<1>2. CASE \E d \in Datasets : Reject(d)
  BY <1>2, RejectStep
<1>3. CASE \E c \in Commands, d \in Datasets, t \in Times : Begin(c, d, t)
  BY <1>3, BeginStep
<1>4. ASSUME NEW c \in Commands, Look(c) \/ Wake(c) \/ Save(c) \/ Refused(c) \/ Fail(c)
      PROVE  IInv'
  BY <1>4, LookStep, WakeStep, SaveStep, RollbackStep DEF Refused, Fail
<1>5. CASE UNCHANGED vars
  <2>1. TypeOK' /\ LockInv'
    BY <1>5 DEF IInv, vars, rowVars, commandVars, TypeOK, StatusColumns, LockInv
  <2>2. ChainInv' /\ ForceInv' /\ EventsFormChain'
    BY <1>5, HistoryKept DEF IInv, vars, rowVars
  <2> QED
    BY <2>1, <2>2 DEF IInv
<1> QED
  BY <1>1, <1>2, <1>3, <1>4, <1>5 DEF Next

\* The inductive invariant: locks, history and events of the versions together.
THEOREM RegulatoryInvariance == Spec => []IInv
  BY InitIInv, StepIInv, PTL DEF Spec

\* The rows and the commands have their types, and the columns that go with a status.
THEOREM RegulatoryTypeCorrect == Spec => []TypeOK
<1>1. IInv => TypeOK
  BY DEF IInv
<1> QED
  BY <1>1, RegulatoryInvariance, PTL

\* However many activations race and whatever their clocks read, from a key's first
\* activation on exactly one of its versions is in force at any time.
THEOREM ValiditiesFit == Spec => []OneInForce
<1>1. IInv => OneInForce
  <2> SUFFICES ASSUME IInv, NEW k \in Keys, NEW t \in Times,
                      \E d \in Datasets : KeyOf[d] = k /\ activatedAt[d] # None /\ activatedAt[d] <= t
               PROVE  Cardinality(InForce(k, t)) = 1
    BY DEF OneInForce
  <2>1. PICK d \in Datasets : InForce(k, t) = {d}
    BY DEF IInv, ForceInv
  <2> QED
    BY <2>1, FS_Singleton
<1> QED
  BY <1>1, RegulatoryInvariance, PTL

\* The DatasetActivated events tell every key's history, version by version.
THEOREM EventsTellHistory == Spec => []EventsFormChain
<1>1. IInv => EventsFormChain
  BY DEF IInv
<1> QED
  BY <1>1, RegulatoryInvariance, PTL

\* Activations never wait for one another in a circle.
THEOREM NobodyWaitsInCircle == Spec => []NoWaitCycle
<1>1. IInv => NoWaitCycle
  <2> SUFFICES ASSUME IInv, NEW c \in Commands, pc[c] = "wait", Locked(previous[c])
               PROVE  \E h \in Commands : pc[h] = "save" /\ previous[h] = previous[c]
    BY DEF NoWaitCycle
  <2>1. PICK h \in Commands :
          own[h] = previous[c] \/ (pc[h] = "save" /\ previous[h] = previous[c])
    BY DEF Locked
  <2>2. previous[c] \in Datasets /\ status[previous[c]] # "LOADED"
    BY DEF IInv, LockInv
  <2>3. own[h] # previous[c]
    BY <2>2, NoneAssumption DEF IInv, LockInv
  <2> QED
    BY <2>1, <2>3
<1> QED
  BY <1>1, RegulatoryInvariance, PTL

\* No activation, nor anything else, rewrites what was in force before the time it takes.
THEOREM PastIsKept == Spec => PastStandsStill
<1> DEFINE Kept ==
      \A k \in Keys, t \in Times :
        InForce(k, t)' # InForce(k, t) =>
          \E d \in Datasets : /\ KeyOf[d] = k
                              /\ status[d] = "LOADED" /\ status'[d] = "ACTIVE"
                              /\ activatedAt'[d] <= t
<1>1. ASSUME IInv, NEW c \in Commands, Save(c)
      PROVE  Kept
  <2> SUFFICES ASSUME NEW k \in Keys, NEW t \in Times, InForce(k, t)' # InForce(k, t)
               PROVE  \E d \in Datasets : /\ KeyOf[d] = k
                                          /\ status[d] = "LOADED" /\ status'[d] = "ACTIVE"
                                          /\ activatedAt'[d] <= t
    OBVIOUS
  <2>1. k = KeyOf[own[c]] /\ now[c] <= t
    BY <1>1, SaveForce
  <2> QED
    BY <1>1, <2>1, SaveFinds, SaveWrites
<1>2. ASSUME UNCHANGED <<activatedAt, supersededAt>>
      PROVE  Kept
  BY <1>2 DEF InForce
<1>3. IInv /\ [Next]_vars => [Kept]_vars
  <2> SUFFICES ASSUME IInv, Next PROVE Kept
    OBVIOUS
  <2>1. CASE \/ \E d \in Datasets, by \in Loaders : LoadCurated(d, by)
             \/ \E d \in Datasets, by \in Reviewers : Review(d, by)
    BY <2>1, <1>2 DEF LoadCurated, Review
  <2>2. CASE \E d \in Datasets : Reject(d)
    BY <2>2, <1>2 DEF Reject
  <2>3. CASE \E c \in Commands, d \in Datasets, t \in Times : Begin(c, d, t)
    BY <2>3, <1>2 DEF Begin, rowVars
  <2>4. CASE \E c \in Commands : Look(c) \/ Wake(c) \/ Refused(c) \/ Fail(c)
    BY <2>4, <1>2 DEF Look, Wake, Refused, Fail, Goto, rowVars
  <2>5. CASE \E c \in Commands : Save(c)
    BY <2>5, <1>1
  <2> QED
    BY <2>1, <2>2, <2>3, <2>4, <2>5 DEF Next
<1>4. Spec => [][Kept]_vars
  BY <1>3, RegulatoryInvariance, PTL DEF Spec
<1> QED
  BY <1>4 DEF PastStandsStill

-----------------------------------------------------------------------------
(***************************************************************************)
(* TariffDecision, for any rules, queries and keys beside all that: a      *)
(* decision leaves the regulatory data to its own specification, and one   *)
(* that no activation at or before its evaluation time was under way for   *)
(* stands for ever.                                                        *)
(*                                                                         *)
(* The argument: what is in force at a time changes only in the step that  *)
(* commits an activation, and only if that activation took its time at or  *)
(* before (ForceChanges); such an activation was under way before the      *)
(* step, which a settled decision rules out (StandsInv).                   *)
(***************************************************************************)

\* A decision under way or done has a query and a time.
QuestionInv ==
  /\ dpc \in {"idle", "candidates", "done"}
  /\ query \in Queries \cup {None} /\ at \in Times \cup {None}
  /\ covered \subseteq Datasets /\ settled \in BOOLEAN
  /\ dpc # "idle" => query \in Queries /\ at \in Times

\* While it is settled, nothing is under way that could change what it found.
StandsInv ==
  dpc # "idle" /\ settled =>
    LET j == ImportJurisdiction(query.destination)
    IN ~UnderWay(j, at) /\ covered = ActiveAt(j, at)

DecisionInv == IInv /\ QuestionInv /\ StandsInv

-----------------------------------------------------------------------------

\* What was in force at t is changed by the commit of an activation that took a time at
\* or before t, and by nothing else.
LEMMA ForceChanges ==
  ASSUME IInv, [Next]_vars, NEW k \in Keys, NEW t \in Times, InForce(k, t)' # InForce(k, t)
  PROVE  \E c \in Commands : pc[c] # "idle" /\ KeyOf[own[c]] = k /\ now[c] <= t
<1>1. ~UNCHANGED <<activatedAt, supersededAt>>
  BY DEF InForce
<1>2. CASE \E c \in Commands : Save(c)
  <2>1. PICK c \in Commands : Save(c)
    BY <1>2
  <2>2. k = KeyOf[own[c]] /\ now[c] <= t
    BY <2>1, SaveForce
  <2> QED
    BY <2>1, <2>2 DEF Save
<1>3. CASE \/ \E d \in Datasets, by \in Loaders : LoadCurated(d, by)
           \/ \E d \in Datasets, by \in Reviewers : Review(d, by)
           \/ \E d \in Datasets : Reject(d)
  BY <1>1, <1>3 DEF LoadCurated, Review, Reject
<1>4. CASE \E c \in Commands, d \in Datasets, t1 \in Times : Begin(c, d, t1)
  BY <1>1, <1>4 DEF Begin, rowVars
<1>5. CASE \E c \in Commands : Look(c) \/ Wake(c) \/ Refused(c) \/ Fail(c)
  BY <1>1, <1>5 DEF Look, Wake, Refused, Fail, Goto, rowVars
<1>6. CASE UNCHANGED vars
  BY <1>1, <1>6 DEF vars, rowVars
<1> QED
  BY <1>2, <1>3, <1>4, <1>5, <1>6 DEF Next

LEMMA DecisionInitInv == DecisionInit => DecisionInv
<1> SUFFICES ASSUME DecisionInit PROVE DecisionInv
  OBVIOUS
<1>1. IInv
  BY InitIInv DEF DecisionInit
<1> QED
  BY <1>1 DEF DecisionInit, DecisionInv, QuestionInv, StandsInv

LEMMA ActiveAtType == ASSUME NEW j, NEW t PROVE ActiveAt(j, t) \subseteq Datasets
BY DEF ActiveAt, InForce

\* A decision does not touch the regulatory data.
LEMMA DatabaseStep == DecisionNext => [Next]_vars
BY DEF DecisionNext, Activations, Coverage, Candidates, CandidatesFail

LEMMA DecisionStep == DecisionInv /\ [DecisionNext]_allVars => DecisionInv'
<1> SUFFICES ASSUME DecisionInv, [DecisionNext]_allVars PROVE DecisionInv'
  OBVIOUS
<1>1. [Next]_vars
  BY DatabaseStep DEF allVars
<1>2. IInv /\ IInv'
  BY <1>1, StepIInv DEF DecisionInv
<1>3. ASSUME UNCHANGED vars
      PROVE  /\ \A j, t : ActiveAt(j, t)' = ActiveAt(j, t)
             /\ \A j, t : UnderWay(j, t)' <=> UnderWay(j, t)
  BY <1>3 DEF ActiveAt, InForce, UnderWay, vars, rowVars, commandVars
<1>4. ASSUME NEW q \in Queries, NEW t \in Times, Coverage(q, t) PROVE DecisionInv'
  <2>1. PICK j : j = ImportJurisdiction(q.destination)
    OBVIOUS
  <2>2. /\ UNCHANGED vars /\ query' = q /\ at' = t /\ covered' = ActiveAt(j, t)
        /\ settled' = ~UnderWay(j, t) /\ dpc' \in {"candidates", "done"}
    BY <1>4, <2>1 DEF Coverage
  <2>3. QuestionInv'
    BY <2>2, ActiveAtType DEF QuestionInv
  <2>4. ActiveAt(j, t)' = ActiveAt(j, t) /\ (UnderWay(j, t)' <=> UnderWay(j, t))
    BY <1>3, <2>2
  <2>5. StandsInv'
    BY <2>1, <2>2, <2>4 DEF StandsInv
  <2> QED
    BY <1>2, <2>3, <2>5 DEF DecisionInv
<1>5. CASE Candidates
  <2>1. UNCHANGED <<vars, query, at, covered, settled>> /\ dpc = "candidates" /\ dpc' = "done"
    BY <1>5 DEF Candidates
  <2>2. QuestionInv'
    BY <2>1 DEF DecisionInv, QuestionInv
  <2>3. StandsInv'
    BY <1>3, <2>1 DEF DecisionInv, StandsInv
  <2> QED
    BY <1>2, <2>2, <2>3 DEF DecisionInv
<1>6. CASE CandidatesFail
  BY <1>2, <1>6 DEF CandidatesFail, DecisionInv, QuestionInv, StandsInv
<1>7. CASE Activations
  <2>1. /\ UNCHANGED <<dpc, query, at, covered, answer>>
        /\ settled' = (settled /\ (at # None =>
                         ~UnderWay(ImportJurisdiction(query.destination), at)'))
    BY <1>7 DEF Activations
  <2>2. QuestionInv'
    BY <2>1 DEF DecisionInv, QuestionInv
  <2>3. ASSUME dpc # "idle", settled'
        PROVE  LET j == ImportJurisdiction(query.destination)
               IN ~UnderWay(j, at)' /\ covered = ActiveAt(j, at)'
    <3>1. query \in Queries /\ at \in Times /\ at # None /\ settled
      BY <2>1, <2>3, NoneAssumption DEF DecisionInv, QuestionInv
    <3>2. PICK j : j = ImportJurisdiction(query.destination)
      OBVIOUS
    <3>3. PICK t \in Times : t = at
      BY <3>1
    <3>4. ~UnderWay(j, t) /\ covered = ActiveAt(j, t)
      BY <2>3, <3>1, <3>2, <3>3 DEF DecisionInv, StandsInv
    <3>5. \A k \in TariffKeys[j] : k \in Keys
      BY <3>1, <3>2, TariffAssumption
    <3>6. \A k \in TariffKeys[j] : InForce(k, t)' = InForce(k, t)
      BY <1>1, <1>2, <3>4, <3>5, ForceChanges DEF UnderWay
    <3>7. ActiveAt(j, t)' = ActiveAt(j, t)
      BY <3>6 DEF ActiveAt
    <3>8. ImportJurisdiction(query.destination)' = j /\ at' = t
      BY <2>1, <3>2, <3>3 DEF ImportJurisdiction
    <3> QED
      BY <2>1, <2>3, <3>1, <3>2, <3>3, <3>4, <3>7, <3>8
  <2>4. StandsInv'
    BY <2>1, <2>3 DEF StandsInv
  <2> QED
    BY <1>2, <2>2, <2>4 DEF DecisionInv
<1>8. CASE UNCHANGED allVars
  <2>1. UNCHANGED <<vars, dpc, query, at, covered, settled>>
    BY <1>8 DEF allVars, decisionVars
  <2>2. QuestionInv'
    BY <2>1 DEF DecisionInv, QuestionInv
  <2>3. StandsInv'
    BY <1>3, <2>1 DEF DecisionInv, StandsInv
  <2> QED
    BY <1>2, <2>2, <2>3 DEF DecisionInv
<1> QED
  BY <1>4, <1>5, <1>6, <1>7, <1>8 DEF DecisionNext

LEMMA DecisionInvariance == DecisionSpec => []DecisionInv
BY DecisionInitInv, DecisionStep, PTL DEF DecisionSpec

-----------------------------------------------------------------------------

\* A decision only reads: seen from the regulatory tables, a system with decisions is one
\* without, so all that is proved of RegulatoryDataset holds beside them.
THEOREM DecisionsOnlyRead == DecisionSpec => Spec
<1>1. DecisionInit => Init
  BY DEF DecisionInit
<1>2. [DecisionNext]_allVars => [Next]_vars
  BY DatabaseStep DEF allVars
<1> QED
  BY <1>1, <1>2, PTL DEF DecisionSpec, Spec

\* Service.Coverage: what the first read found, one version of each source, is in force
\* at the evaluation time for ever, unless an activation that took a time at or before it
\* was, or gets, under way.
THEOREM DecisionStands == DecisionSpec => []SettledDecisionStands
<1>1. DecisionInv => SettledDecisionStands
  <2> SUFFICES ASSUME DecisionInv, dpc # "idle", settled
               PROVE  /\ covered = UNION {InForce(k, at) :
                                 k \in TariffKeys[ImportJurisdiction(query.destination)]}
                      /\ \A d, e \in covered : KeyOf[d] = KeyOf[e] => d = e
    BY DEF SettledDecisionStands
  <2>1. PICK j : j = ImportJurisdiction(query.destination)
    OBVIOUS
  <2>2. covered = ActiveAt(j, at) /\ query \in Queries /\ at \in Times
    BY <2>1 DEF DecisionInv, StandsInv, QuestionInv
  <2>3. \A k \in TariffKeys[j] : k \in Keys
    BY <2>1, <2>2, TariffAssumption
  <2>4. ASSUME NEW d \in covered, NEW e \in covered, KeyOf[d] = KeyOf[e] PROVE d = e
    <3>1. PICK k \in TariffKeys[j] : d \in InForce(k, at)
      BY <2>2 DEF ActiveAt
    <3>2. k \in Keys /\ e \in InForce(k, at)
      <4>1. PICK i \in TariffKeys[j] : e \in InForce(i, at)
        BY <2>2 DEF ActiveAt
      <4>2. KeyOf[d] = k /\ KeyOf[e] = i
        BY <3>1, <4>1 DEF InForce
      <4> QED
        BY <2>3, <2>4, <4>1, <4>2
    <3>3. \E x \in Datasets : KeyOf[x] = k /\ activatedAt[x] # None /\ activatedAt[x] <= at
      BY <3>1 DEF InForce
    <3>4. PICK x \in Datasets : InForce(k, at) = {x}
      BY <2>2, <3>2, <3>3 DEF DecisionInv, IInv, ForceInv
    <3> QED
      BY <3>1, <3>2, <3>4
  <2> QED
    BY <2>1, <2>2, <2>4 DEF ActiveAt
<1> QED
  BY <1>1, DecisionInvariance, PTL

-----------------------------------------------------------------------------
(***************************************************************************)
(* The duty itself, for any set of rules and in whatever order the second  *)
(* statement returns them. What the loop of mostSpecific knows depends     *)
(* only on the set of rules it has seen (LoopInv), never on their order:   *)
(* of each measure a rule that none of them beats, and whether another is  *)
(* its equal.                                                              *)
(***************************************************************************)

\* A set of naturals that starts at 0 and misses no successor is all of them.
LEMMA NaturalsHave ==
  ASSUME NEW P, 0 \in P, \A n \in Nat : n \in P => n + 1 \in P
  PROVE  \A n \in Nat : n \in P
<1> DEFINE Q == {n \in Nat : n \notin P}
           R == OpToRel(<, Nat)
<1> SUFFICES ASSUME Q # {} PROVE FALSE
  OBVIOUS
<1>1. Q \in SUBSET Nat
  OBVIOUS
<1>2. \E x \in Q : \A y \in Q : ~(<<y, x>> \in R)
  <2> HIDE DEF Q
  <2> QED
    BY <1>1, NatLessThanWellFounded, WFMin
<1>3. \A x, y \in Nat : <<y, x>> \in R <=> y < x
  BY DEF OpToRel
<1> HIDE DEF R
<1>4. PICK x \in Q : \A y \in Q : ~(<<y, x>> \in R)
  BY <1>2
<1>5. x \in Nat /\ x # 0 /\ x - 1 \in Nat /\ (x - 1) + 1 = x /\ x - 1 < x
  OBVIOUS
<1>6. x - 1 \in P
  BY <1>3, <1>4, <1>5
<1> QED
  BY <1>5, <1>6

\* g[n] is the state of a loop of N turns after n of them.
IsLoopOf(g, N, base, step) ==
  g = [n \in 0 .. N |-> IF n = 0 THEN base ELSE step[<<g[n - 1], n>>]]

\* A loop of finitely many turns has a state after each of them.
LEMMA LoopExists ==
  ASSUME NEW N \in Nat, NEW V, NEW base \in V, NEW step \in [V \X (1 .. N) -> V]
  PROVE  \E g \in [0 .. N -> V] : IsLoopOf(g, N, base, step)
<1> DEFINE Rule(g, n) == g[n] = IF n = 0 THEN base ELSE step[<<g[n - 1], n>>]
           P == {n \in Nat : n <= N => \E g \in [0 .. n -> V] : \A i \in 0 .. n : Rule(g, i)}
<1>1. 0 \in P
  <2>1. [i \in 0 .. 0 |-> base] \in [0 .. 0 -> V]
    OBVIOUS
  <2>2. \A i \in 0 .. 0 : Rule([j \in 0 .. 0 |-> base], i)
    OBVIOUS
  <2> QED
    BY <2>1, <2>2
<1>2. ASSUME NEW n \in Nat, n \in P PROVE n + 1 \in P
  <2> SUFFICES ASSUME n + 1 <= N
               PROVE  \E g \in [0 .. n + 1 -> V] : \A i \in 0 .. n + 1 : Rule(g, i)
    OBVIOUS
  <2>1. PICK g \in [0 .. n -> V] : \A i \in 0 .. n : Rule(g, i)
    BY <1>2
  <2>2. step[<<g[n], n + 1>>] \in V
    OBVIOUS
  <2> DEFINE h == [i \in 0 .. n + 1 |-> IF i = n + 1 THEN step[<<g[n], n + 1>>] ELSE g[i]]
  <2>3. h \in [0 .. n + 1 -> V]
    BY <2>2
  <2>4. ASSUME NEW i \in 0 .. n + 1 PROVE Rule(h, i)
    <3>1. CASE i = n + 1
      BY <3>1
    <3>2. CASE i # n + 1
      <4>1. i \in 0 .. n /\ h[i] = g[i] /\ (i # 0 => h[i - 1] = g[i - 1])
        BY <3>2
      <4> QED
        BY <2>1, <4>1
    <3> QED
      BY <3>1, <3>2
  <2> QED
    BY <2>3, <2>4
<1>3. N \in P
  <2> HIDE DEF P
  <2> QED
    BY <1>1, <1>2, NaturalsHave
<1>4. PICK g \in [0 .. N -> V] : \A i \in 0 .. N : Rule(g, i)
  BY <1>3
<1>5. g = [n \in 0 .. N |-> IF n = 0 THEN base ELSE step[<<g[n - 1], n>>]]
  BY <1>4
<1> QED
  BY <1>5 DEF IsLoopOf

-----------------------------------------------------------------------------
(* compareSpecificity orders the rules by rank                             *)

\* Being more specific is a strict order, and being no more specific is transitive too.
LEMMA SpecificityOrders ==
  ASSUME NEW q, NEW a \in Rules, NEW b \in Rules, NEW c \in Rules
  PROVE  /\ ~MoreSpecific(q, a, a)
         /\ MoreSpecific(q, a, b) => ~MoreSpecific(q, b, a)
         /\ MoreSpecific(q, a, b) /\ MoreSpecific(q, b, c) => MoreSpecific(q, a, c)
         /\ ~MoreSpecific(q, a, b) /\ ~MoreSpecific(q, b, c) => ~MoreSpecific(q, a, c)
<1>1. Len(a.hs) \in Nat /\ Len(b.hs) \in Nat /\ Len(c.hs) \in Nat
  BY TariffAssumption
<1>2. PICK x, y, z \in Nat : x = Len(a.hs) /\ y = Len(b.hs) /\ z = Len(c.hs)
  BY <1>1
<1> QED
  BY <1>2 DEF MoreSpecific

-----------------------------------------------------------------------------
(* The loop of mostSpecific                                                *)

MeasuresOf(S) == {r.measure : r \in S}

\* What the loop has found among the rules of seen.
LoopInv(q, acc, seen) ==
  /\ acc = [best |-> acc.best, tied |-> acc.tied]
  /\ acc.best \in [MeasuresOf(seen) -> seen]
  /\ \A k \in MeasuresOf(seen) :
       /\ acc.best[k].measure = k
       /\ \A r \in seen : r.measure = k => ~MoreSpecific(q, r, acc.best[k])
       /\ k \in acc.tied <=>
            \E r \in seen : r.measure = k /\ r # acc.best[k] /\ ~MoreSpecific(q, acc.best[k], r)
  /\ acc.tied \subseteq MeasuresOf(seen)

LEMMA LoopStarts == ASSUME NEW q PROVE LoopInv(q, [best |-> <<>>, tied |-> {}], {})
<1>1. MeasuresOf({}) = {}
  BY DEF MeasuresOf
<1>2. <<>> \in [{} -> {}]
  OBVIOUS
<1> QED
  BY <1>1, <1>2 DEF LoopInv

\* A turn of the loop takes one more rule into account.
LEMMA LoopTurns ==
  ASSUME NEW q, NEW seen \in SUBSET Rules, NEW acc, LoopInv(q, acc, seen),
         NEW r \in Rules, r \notin seen
  PROVE  LoopInv(q, Consider(q, acc, r), seen \cup {r})
<1>1. PICK best, tied, k : best = acc.best /\ tied = acc.tied /\ k = r.measure
  OBVIOUS
<1>2. acc = [best |-> best, tied |-> tied]
  BY <1>1 DEF LoopInv
<1>3. PICK M : M = MeasuresOf(seen)
  OBVIOUS
<1>4. MeasuresOf(seen \cup {r}) = M \cup {k}
  BY <1>1, <1>3 DEF MeasuresOf
<1>5. /\ best \in [M -> seen] /\ tied \subseteq M
      /\ \A m \in M : best[m] \in seen /\ best[m] \in Rules /\ best[m].measure = m
      /\ \A m \in M, s \in seen : s.measure = m => ~MoreSpecific(q, s, best[m])
      /\ \A m \in M : m \in tied <=>
           \E s \in seen : s.measure = m /\ s # best[m] /\ ~MoreSpecific(q, best[m], s)
  BY <1>1, <1>3 DEF LoopInv
<1>6. \A s \in seen : s \in Rules /\ s.measure \in M
  BY <1>3 DEF MeasuresOf
<1> DEFINE Known(b, t, S) ==
             /\ b \in [M \cup {k} -> S] /\ t \subseteq M \cup {k}
             /\ \A m \in M \cup {k} :
                  /\ b[m].measure = m
                  /\ \A s \in S : s.measure = m => ~MoreSpecific(q, s, b[m])
                  /\ m \in t <=> \E s \in S : s.measure = m /\ s # b[m]
                                              /\ ~MoreSpecific(q, b[m], s)
<1>7. ASSUME NEW b, NEW t, Consider(q, acc, r) = [best |-> b, tied |-> t],
             Known(b, t, seen \cup {r})
      PROVE  LoopInv(q, Consider(q, acc, r), seen \cup {r})
  <2>1. PICK next, S : next = [best |-> b, tied |-> t] /\ S = seen \cup {r}
    OBVIOUS
  <2>2. next.best = b /\ next.tied = t /\ MeasuresOf(S) = M \cup {k}
    BY <1>4, <2>1
  <2>3. next = [best |-> next.best, tied |-> next.tied]
    BY <2>1
  <2>4. Known(next.best, next.tied, S)
    BY <1>7, <2>1, <2>2
  <2>5. LoopInv(q, next, S)
    BY <2>2, <2>3, <2>4, Zenon DEF LoopInv
  <2> QED
    BY <1>7, <2>1, <2>5
<1> HIDE DEF Known
<1>8. CASE k \notin M
  <2> DEFINE b == [m \in M \cup {k} |-> IF m = k THEN r ELSE best[m]]
  <2>1. Consider(q, acc, r) = [best |-> b, tied |-> tied]
    BY <1>1, <1>2, <1>5, <1>8 DEF Consider, With
  <2>2. b \in [M \cup {k} -> seen \cup {r}] /\ b[k] = r /\ \A m \in M : b[m] = best[m]
    BY <1>5, <1>8
  <2>3. \A s \in seen \cup {r} : s.measure = k <=> s = r
    BY <1>1, <1>6, <1>8
  <2> HIDE DEF b
  <2>4. ~MoreSpecific(q, r, r)
    BY SpecificityOrders
  <2>5. Known(b, tied, seen \cup {r})
    BY <1>1, <1>5, <1>8, <2>2, <2>3, <2>4 DEF Known
  <2> QED
    BY <1>7, <2>1, <2>5
<1>9. CASE k \in M /\ MoreSpecific(q, r, best[k])
  <2> DEFINE b == [best EXCEPT ![k] = r]
  <2>1. Consider(q, acc, r) = [best |-> b, tied |-> tied \ {k}]
    BY <1>1, <1>2, <1>5, <1>9 DEF Consider
  <2>2. /\ b \in [M \cup {k} -> seen \cup {r}] /\ b[k] = r
        /\ \A m \in M : m # k => b[m] = best[m]
    BY <1>5, <1>9
  <2> HIDE DEF b
  <2>3. ~MoreSpecific(q, r, r)
    BY SpecificityOrders
  <2>4. ASSUME NEW s \in seen, s.measure = k
        PROVE  ~MoreSpecific(q, s, r) /\ MoreSpecific(q, r, s)
    <3>1. ~MoreSpecific(q, s, best[k]) /\ best[k] \in Rules
      BY <1>5, <1>9, <2>4
    <3> QED
      BY <1>6, <1>9, <3>1, SpecificityOrders
  <2>5. Known(b, tied \ {k}, seen \cup {r})
    BY <1>1, <1>5, <1>9, <2>2, <2>3, <2>4 DEF Known
  <2> QED
    BY <1>7, <2>1, <2>5
<1>10. CASE k \in M /\ ~MoreSpecific(q, r, best[k]) /\ MoreSpecific(q, best[k], r)
  <2>1. Consider(q, acc, r) = [best |-> best, tied |-> tied]
    BY <1>1, <1>2, <1>5, <1>10 DEF Consider
  <2>2. best \in [M \cup {k} -> seen \cup {r}]
    BY <1>5, <1>10
  <2>3. Known(best, tied, seen \cup {r})
    BY <1>1, <1>5, <1>10, <2>2 DEF Known
  <2> QED
    BY <1>7, <2>1, <2>3
<1>11. CASE k \in M /\ ~MoreSpecific(q, r, best[k]) /\ ~MoreSpecific(q, best[k], r)
  <2>1. Consider(q, acc, r) = [best |-> best, tied |-> tied \cup {k}]
    BY <1>1, <1>2, <1>5, <1>11 DEF Consider
  <2>2. best \in [M \cup {k} -> seen \cup {r}] /\ r # best[k]
    BY <1>5, <1>11
  <2>3. Known(best, tied \cup {k}, seen \cup {r})
    BY <1>1, <1>5, <1>11, <2>2 DEF Known
  <2> QED
    BY <1>7, <2>1, <2>3
<1> QED
  BY <1>8, <1>9, <1>10, <1>11

\* The states of the loop.
LoopStates ==
  [best : UNION {[K -> Rules] : K \in SUBSET MeasuresOf(Rules)}, tied : SUBSET MeasuresOf(Rules)]

LEMMA TurnType ==
  ASSUME NEW q, NEW acc \in LoopStates, NEW r \in Rules
  PROVE  Consider(q, acc, r) \in LoopStates
<1>1. PICK K \in SUBSET MeasuresOf(Rules) : acc.best \in [K -> Rules]
  BY DEF LoopStates
<1>2. PICK best, tied, k : best = acc.best /\ tied = acc.tied /\ k = r.measure
  OBVIOUS
<1>3. acc = [best |-> best, tied |-> tied] /\ tied \subseteq MeasuresOf(Rules)
  BY <1>2 DEF LoopStates
<1>4. k \in MeasuresOf(Rules)
  BY <1>2 DEF MeasuresOf
<1>5. ASSUME NEW L \in SUBSET MeasuresOf(Rules), NEW b \in [L -> Rules],
             NEW t \in SUBSET MeasuresOf(Rules)
      PROVE  [best |-> b, tied |-> t] \in LoopStates
  BY <1>5 DEF LoopStates
<1>6. CASE k \notin K
  <2> DEFINE b == [m \in K \cup {k} |-> IF m = k THEN r ELSE best[m]]
  <2>1. Consider(q, acc, r) = [best |-> b, tied |-> tied]
    BY <1>1, <1>2, <1>3, <1>6 DEF Consider, With
  <2>2. b \in [K \cup {k} -> Rules] /\ K \cup {k} \in SUBSET MeasuresOf(Rules)
    BY <1>1, <1>2, <1>4
  <2> HIDE DEF b
  <2> QED
    BY <1>3, <1>5, <2>1, <2>2
<1>7. CASE k \in K
  <2>1. [best EXCEPT ![k] = r] \in [K -> Rules] /\ best \in [K -> Rules]
    BY <1>1, <1>2, <1>7
  <2>2. tied \ {k} \in SUBSET MeasuresOf(Rules) /\ tied \cup {k} \in SUBSET MeasuresOf(Rules)
    BY <1>3, <1>4
  <2>3. \/ Consider(q, acc, r) = [best |-> [best EXCEPT ![k] = r], tied |-> tied \ {k}]
        \/ Consider(q, acc, r) = acc
        \/ Consider(q, acc, r) = [best |-> best, tied |-> tied \cup {k}]
    BY <1>1, <1>2, <1>3, <1>7 DEF Consider
  <2> QED
    BY <1>5, <2>1, <2>2, <2>3
<1> QED
  BY <1>6, <1>7

\* The equation that defines the loop of mostSpecific.
IsRun(g, q, rows) ==
  g = [n \in 0 .. Len(rows) |-> IF n = 0 THEN [best |-> <<>>, tied |-> {}]
                                ELSE Consider(q, g[n - 1], rows[n])]

\* mostSpecific comes to an end.
LEMMA RunExists ==
  ASSUME NEW q, NEW N \in Nat, NEW rows \in [1 .. N -> Rules]
  PROVE  Len(rows) = N /\ \E g : IsRun(g, q, rows) /\ MostSpecific(q, rows) = g[N]
<1>1. Len(rows) = N
  <2>1. rows \in Seq(Rules)
    OBVIOUS
  <2> QED
    BY <2>1
<1> DEFINE base == [best |-> <<>>, tied |-> {}]
           step == [p \in LoopStates \X (1 .. N) |-> Consider(q, p[1], rows[p[2]])]
<1>2. base \in LoopStates
  <2>1. <<>> \in [{} -> Rules] /\ {} \in SUBSET MeasuresOf(Rules)
    OBVIOUS
  <2> QED
    BY <2>1 DEF LoopStates
<1>3. step \in [LoopStates \X (1 .. N) -> LoopStates]
  BY TurnType
<1>4. \A v \in LoopStates, n \in 1 .. N : step[<<v, n>>] = Consider(q, v, rows[n])
  OBVIOUS
<1>5. PICK g \in [0 .. N -> LoopStates] : IsLoopOf(g, N, base, step)
  <2> HIDE DEF base, step
  <2> QED
    BY <1>2, <1>3, LoopExists
<1>6. \A n \in 0 .. N : g[n] = IF n = 0 THEN base ELSE Consider(q, g[n - 1], rows[n])
  <2> SUFFICES ASSUME NEW n \in 0 .. N
               PROVE  g[n] = IF n = 0 THEN base ELSE Consider(q, g[n - 1], rows[n])
    OBVIOUS
  <2> HIDE DEF base, step
  <2>1. g[n] = IF n = 0 THEN base ELSE step[<<g[n - 1], n>>]
    BY <1>5 DEF IsLoopOf
  <2>2. n # 0 => n \in 1 .. N /\ g[n - 1] \in LoopStates
    OBVIOUS
  <2> QED
    BY <1>4, <2>1, <2>2
<1>7. g = [n \in 0 .. N |-> IF n = 0 THEN base ELSE Consider(q, g[n - 1], rows[n])]
  BY <1>6
<1>8. IsRun(g, q, rows)
  BY <1>1, <1>7 DEF IsRun
<1>9. PICK f : f = CHOOSE h : IsRun(h, q, rows)
  OBVIOUS
<1>10. IsRun(f, q, rows)
  BY <1>8, <1>9, Zenon
<1>11. MostSpecific(q, rows) = f[Len(rows)]
  BY <1>9 DEF MostSpecific, IsRun
<1> QED
  BY <1>1, <1>10, <1>11

\* Whatever the order of the rows, the loop ends up knowing all of the rules it was given.
LEMMA LoopSeesAll ==
  ASSUME NEW q, NEW S \in SUBSET Rules, NEW rows \in SetToSeqs(S)
  PROVE  LoopInv(q, MostSpecific(q, rows), S)
<1>1. IsFiniteSet(S) /\ Cardinality(S) \in Nat
  BY TariffAssumption, FS_Subset, FS_CardinalityType
<1>2. PICK N \in Nat : N = Cardinality(S)
  BY <1>1
<1>3. rows \in [1 .. N -> S] /\ \A i, j \in 1 .. N : i # j => rows[i] # rows[j]
  BY <1>2 DEF SetToSeqs
<1>4. rows \in Injection(1 .. N, S)
  BY <1>3 DEF Injection, IsInjective
<1>5. Cardinality(1 .. N) = N
  BY FS_Interval
<1>6. rows \in Surjection(1 .. N, S)
  BY <1>1, <1>2, <1>4, <1>5, FS_Injection
<1>7. \A r \in S : \E i \in 1 .. N : rows[i] = r
  BY <1>3, <1>6 DEF Surjection
<1> DEFINE Seen(n) == {rows[i] : i \in 1 .. n}
<1>8. rows \in [1 .. N -> Rules]
  BY <1>3
<1>9. PICK g : Len(rows) = N /\ IsRun(g, q, rows) /\ MostSpecific(q, rows) = g[N]
  BY <1>8, RunExists
<1>10. g[0] = [best |-> <<>>, tied |-> {}]
  BY <1>9 DEF IsRun
<1>11. ASSUME NEW n \in 1 .. N PROVE g[n] = Consider(q, g[n - 1], rows[n])
  <2>1. n \in 0 .. N /\ n # 0
    OBVIOUS
  <2>2. g = [i \in 0 .. N |-> IF i = 0 THEN [best |-> <<>>, tied |-> {}]
                              ELSE Consider(q, g[i - 1], rows[i])]
    BY <1>9 DEF IsRun
  <2> QED
    BY <2>1, <2>2, Zenon
<1> DEFINE P == {n \in Nat : n <= N => LoopInv(q, g[n], Seen(n))}
<1>12. 0 \in P
  <2>1. Seen(0) = {}
    OBVIOUS
  <2> QED
    BY <1>10, <2>1, LoopStarts
<1>13. ASSUME NEW n \in Nat, n \in P PROVE n + 1 \in P
  <2> SUFFICES ASSUME n + 1 <= N PROVE LoopInv(q, g[n + 1], Seen(n + 1))
    OBVIOUS
  <2>1. n + 1 \in 1 .. N /\ (n + 1) - 1 = n /\ LoopInv(q, g[n], Seen(n))
    BY <1>13
  <2>2. g[n + 1] = Consider(q, g[n], rows[n + 1])
    BY <1>11, <2>1
  <2>3. rows[n + 1] \in Rules
    BY <1>8, <2>1
  <2>4. rows[n + 1] \notin Seen(n)
    BY <1>3, <2>1
  <2>5. Seen(n) \in SUBSET Rules
    BY <1>8, <2>1
  <2>6. Seen(n + 1) = Seen(n) \cup {rows[n + 1]}
    <3>1. \A i : i \in 1 .. n + 1 <=> i \in 1 .. n \/ i = n + 1
      OBVIOUS
    <3> QED
      BY <3>1
  <2> HIDE DEF Seen
  <2> QED
    BY <2>1, <2>2, <2>3, <2>4, <2>5, <2>6, LoopTurns
<1>14. N \in P
  <2> HIDE DEF P
  <2> QED
    BY <1>12, <1>13, NaturalsHave
<1>15. LoopInv(q, g[N], Seen(N))
  BY <1>14
<1>16. Seen(N) = S
  BY <1>3, <1>7
<1> HIDE DEF Seen
<1> QED
  BY <1>9, <1>15, <1>16

-----------------------------------------------------------------------------
(* ResolveTariff                                                           *)

\* The rules of measure m in S that no other of them beats.
Leading(q, S, m) ==
  {r \in {s \in S : s.measure = m} :
     \A s \in {u \in S : u.measure = m} : ~MoreSpecific(q, s, r)}

\* The loop's choice is one of them, and the only one unless it noticed a tie.
LEMMA LoopFindsLeading ==
  ASSUME NEW q, NEW S \in SUBSET Rules, NEW acc, LoopInv(q, acc, S), NEW m \in MeasuresOf(S)
  PROVE  /\ acc.best[m] \in Leading(q, S, m)
         /\ m \notin acc.tied => Leading(q, S, m) = {acc.best[m]}
         /\ m \in acc.tied => \E r \in Leading(q, S, m) : r # acc.best[m]
<1>1. PICK b : b = acc.best[m]
  OBVIOUS
<1>2. /\ b \in S /\ b \in Rules /\ b.measure = m
      /\ \A r \in S : r.measure = m => ~MoreSpecific(q, r, b)
      /\ m \in acc.tied <=> \E r \in S : r.measure = m /\ r # b /\ ~MoreSpecific(q, b, r)
  BY <1>1 DEF LoopInv
<1>3. b \in Leading(q, S, m)
  BY <1>2 DEF Leading
<1>4. ASSUME m \notin acc.tied PROVE Leading(q, S, m) = {b}
  BY <1>2, <1>3, <1>4 DEF Leading
<1>5. ASSUME m \in acc.tied PROVE \E r \in Leading(q, S, m) : r # b
  <2>1. PICK r \in S : r.measure = m /\ r # b /\ ~MoreSpecific(q, b, r)
    BY <1>2, <1>5
  <2>2. \A s \in S : s.measure = m => ~MoreSpecific(q, s, r)
    BY <1>2, <2>1, SpecificityOrders
  <2> QED
    BY <2>1, <2>2 DEF Leading
<1> QED
  BY <1>1, <1>3, <1>4, <1>5

\* A duty a is the right one for the rules of S.
RightDuty(q, S, a) ==
  LET clear == \A m \in MeasuresOf(S) : \E r \in Rules :
                 Leading(q, S, m) = {r} /\ r.rate # "UNSUPPORTED_MEASURE"
  IN /\ \/ a.held \in {"NO_TARIFF_RATE", "AMBIGUOUS_TARIFF", "UNSUPPORTED_MEASURE"}
           /\ a.measures = {}
        \/ a.held = "" /\ a.measures \subseteq Rules /\ a.measures # {}
     /\ a.held = "" <=> clear /\ "MFN" \in MeasuresOf(S)
     /\ a.held = "" => a.measures = UNION {Leading(q, S, m) : m \in MeasuresOf(S)}
     /\ a.held = "AMBIGUOUS_TARIFF" =>
          \E m \in MeasuresOf(S) : Cardinality(Leading(q, S, m)) > 1

\* ResolveTariff gives the right duty, whatever the order of the candidates.
LEMMA DutyIsRight ==
  ASSUME NEW q, NEW S \in SUBSET Rules, NEW rows \in SetToSeqs(S),
         NEW a \in ResolveTariff(q, rows)
  PROVE  RightDuty(q, S, a)
<1>1. PICK found : found = MostSpecific(q, rows)
  OBVIOUS
<1>2. LoopInv(q, found, S)
  BY <1>1, LoopSeesAll
<1>3. PICK M, best, tied : M = MeasuresOf(S) /\ best = found.best /\ tied = found.tied
  OBVIOUS
<1>4. DOMAIN best = M /\ \A m \in M : best[m] \in S
  BY <1>2, <1>3 DEF LoopInv
<1>5. \A m \in M : best[m] \in Rules
  BY <1>4
<1>6. \A m \in M : /\ best[m] \in Leading(q, S, m)
                   /\ m \notin tied => Leading(q, S, m) = {best[m]}
                   /\ m \in tied => \E r \in Leading(q, S, m) : r # best[m]
  BY <1>2, <1>3, LoopFindsLeading
<1>7. PICK bad : bad = {k \in M : k \in tied \/ best[k].rate = "UNSUPPORTED_MEASURE"}
  OBVIOUS
<1>8. \/ "MFN" \notin M /\ a = Held("NO_TARIFF_RATE")
      \/ "MFN" \in M /\ bad = {} /\ a = Resolved({best[k] : k \in M})
      \/ /\ "MFN" \in M
         /\ \E k \in bad : a = Held(IF k \in tied THEN "AMBIGUOUS_TARIFF"
                                    ELSE "UNSUPPORTED_MEASURE")
  BY <1>1, <1>3, <1>4, <1>7 DEF ResolveTariff
<1> DEFINE clear == \A m \in M : \E r \in Rules :
                      Leading(q, S, m) = {r} /\ r.rate # "UNSUPPORTED_MEASURE"
<1>9. clear <=> bad = {}
  <2>1. ASSUME bad = {}, NEW m \in M
        PROVE  \E r \in Rules : Leading(q, S, m) = {r} /\ r.rate # "UNSUPPORTED_MEASURE"
    BY <1>5, <1>6, <1>7, <2>1
  <2>2. ASSUME clear, NEW m \in bad PROVE FALSE
    <3>1. m \in M /\ (m \in tied \/ best[m].rate = "UNSUPPORTED_MEASURE")
      BY <1>7
    <3>2. PICK r \in Rules : Leading(q, S, m) = {r} /\ r.rate # "UNSUPPORTED_MEASURE"
      BY <2>2, <3>1
    <3>3. best[m] = r /\ m \notin tied
      BY <1>6, <3>1, <3>2
    <3> QED
      BY <3>1, <3>2, <3>3
  <2> QED
    BY <2>1, <2>2
<1> HIDE DEF clear
<1>10. RightDuty(q, S, a) <=>
         /\ \/ a.held \in {"NO_TARIFF_RATE", "AMBIGUOUS_TARIFF", "UNSUPPORTED_MEASURE"}
               /\ a.measures = {}
            \/ a.held = "" /\ a.measures \subseteq Rules /\ a.measures # {}
         /\ a.held = "" <=> clear /\ "MFN" \in M
         /\ a.held = "" => a.measures = UNION {Leading(q, S, m) : m \in M}
         /\ a.held = "AMBIGUOUS_TARIFF" => \E m \in M : Cardinality(Leading(q, S, m)) > 1
  BY <1>3 DEF RightDuty, clear
<1>11. CASE "MFN" \notin M /\ a = Held("NO_TARIFF_RATE")
  <2>1. a.held = "NO_TARIFF_RATE" /\ a.measures = {}
    BY <1>11 DEF Held
  <2> QED
    BY <1>10, <1>11, <2>1
<1>12. CASE "MFN" \in M /\ bad = {} /\ a = Resolved({best[k] : k \in M})
  <2>1. a.held = "" /\ a.measures = {best[k] : k \in M}
    BY <1>12 DEF Resolved
  <2>2. \A m \in M : Leading(q, S, m) = {best[m]}
    BY <1>6, <1>7, <1>12
  <2>3. UNION {Leading(q, S, m) : m \in M} = {best[k] : k \in M}
    BY <2>2
  <2>4. a.measures \subseteq Rules /\ a.measures # {}
    BY <1>5, <1>12, <2>1
  <2> QED
    BY <1>9, <1>10, <1>12, <2>1, <2>3, <2>4
<1>13. ASSUME "MFN" \in M, NEW k \in bad,
              a = Held(IF k \in tied THEN "AMBIGUOUS_TARIFF" ELSE "UNSUPPORTED_MEASURE")
       PROVE  RightDuty(q, S, a)
  <2>1. /\ a.measures = {} /\ a.held \in {"AMBIGUOUS_TARIFF", "UNSUPPORTED_MEASURE"}
        /\ a.held = "AMBIGUOUS_TARIFF" => k \in tied
    BY <1>13 DEF Held
  <2>2. ASSUME k \in tied PROVE Cardinality(Leading(q, S, k)) > 1
    <3>1. k \in M
      BY <1>7
    <3>2. PICK r \in Leading(q, S, k) : r # best[k]
      BY <1>6, <2>2, <3>1
    <3>3. PICK L : L = Leading(q, S, k)
      OBVIOUS
    <3>4. L \subseteq Rules
      BY <3>3 DEF Leading
    <3>5. {best[k], r} \subseteq L
      BY <1>6, <3>1, <3>2, <3>3
    <3>6. IsFiniteSet(L)
      BY <3>4, TariffAssumption, FS_Subset
    <3>7. Cardinality({best[k], r}) = 2
      <4>1. IsFiniteSet({r}) /\ Cardinality({r}) = 1
        BY FS_Singleton
      <4>2. PICK A, b : A = {r} /\ b = best[k]
        OBVIOUS
      <4>3. IsFiniteSet(A) /\ Cardinality(A) = 1 /\ b \notin A
        BY <3>2, <4>1, <4>2
      <4>4. Cardinality(A \cup {b}) = Cardinality(A) + 1
        BY <4>3, FS_AddElement, Zenon
      <4>5. {best[k], r} = A \cup {b}
        BY <4>2
      <4> QED
        BY <4>3, <4>4, <4>5
    <3>8. Cardinality({best[k], r}) <= Cardinality(L) /\ Cardinality(L) \in Nat
      BY <3>5, <3>6, FS_Subset, FS_CardinalityType
    <3> QED
      BY <3>3, <3>7, <3>8
  <2>3. k \in M /\ bad # {}
    BY <1>7
  <2> QED
    BY <1>9, <1>10, <2>1, <2>2, <2>3
<1> QED
  BY <1>8, <1>11, <1>12, <1>13

-----------------------------------------------------------------------------
(* The decision                                                            *)

\* Between the two reads the versions are fresh and there is no answer; then there is one,
\* and unless the first read withheld it, it is the right duty.
DutyInv ==
  /\ dpc = "candidates" => Fresh(covered, at) /\ answer = None
  /\ dpc = "idle" => answer = None
  /\ dpc = "done" =>
       \/ /\ answer.held \in {"NO_REGULATORY_COVERAGE", "STALE_REGULATORY_DATA"}
          /\ answer.measures = {}
       \/ Fresh(covered, at) /\ RightDuty(query, TariffCandidates(covered, query), answer)

LEMMA DutyInit == DecisionInit => DutyInv
BY DEF DecisionInit, DutyInv

LEMMA DutyStep == DutyInv /\ [DecisionNext]_allVars => DutyInv'
<1> SUFFICES ASSUME DutyInv, [DecisionNext]_allVars PROVE DutyInv'
  OBVIOUS
<1>1. CASE UNCHANGED <<dpc, query, at, covered, answer>>
  BY <1>1 DEF DutyInv
<1>2. ASSUME NEW q \in Queries, NEW t \in Times, Coverage(q, t) PROVE DutyInv'
  <2>1. PICK ds : ds = ActiveAt(ImportJurisdiction(q.destination), t)
    OBVIOUS
  <2>2. CASE ds # {} /\ Fresh(ds, t)
    <3>1. dpc' = "candidates" /\ answer' = None /\ at' = t /\ covered' = ds
      BY <1>2, <2>1, <2>2 DEF Coverage
    <3> QED
      BY <2>2, <3>1 DEF DutyInv, Fresh
  <2>3. CASE ~(ds # {} /\ Fresh(ds, t))
    <3>1. /\ dpc' = "done"
          /\ answer' = Held(IF ds = {} THEN "NO_REGULATORY_COVERAGE"
                            ELSE "STALE_REGULATORY_DATA")
      BY <1>2, <2>1, <2>3 DEF Coverage
    <3>2. /\ answer'.held \in {"NO_REGULATORY_COVERAGE", "STALE_REGULATORY_DATA"}
          /\ answer'.measures = {}
      BY <3>1 DEF Held
    <3> QED
      BY <3>1, <3>2 DEF DutyInv
  <2> QED
    BY <2>2, <2>3
<1>3. CASE Candidates
  <2>1. /\ dpc = "candidates" /\ dpc' = "done" /\ UNCHANGED <<query, at, covered>>
        /\ \E rows \in SetToSeqs(TariffCandidates(covered, query)) :
             answer' \in ResolveTariff(query, rows)
    BY <1>3 DEF Candidates
  <2>2. Fresh(covered, at)' /\ TariffCandidates(covered, query)' = TariffCandidates(covered, query)
    BY <2>1 DEF DutyInv, Fresh, TariffCandidates
  <2>3. TariffCandidates(covered, query) \in SUBSET Rules
    BY DEF TariffCandidates
  <2>4. RightDuty(query, TariffCandidates(covered, query), answer')
    BY <2>1, <2>3, DutyIsRight
  <2>5. RightDuty(query, TariffCandidates(covered, query), answer)'
    BY <2>1, <2>2, <2>4
  <2> QED
    BY <2>1, <2>2, <2>5 DEF DutyInv
<1>4. CASE CandidatesFail
  BY <1>4 DEF CandidatesFail, DutyInv
<1>5. CASE Activations \/ UNCHANGED allVars
  BY <1>1, <1>5 DEF Activations, allVars, decisionVars
<1> QED
  BY <1>2, <1>3, <1>4, <1>5 DEF DecisionNext

LEMMA DutyInvariance == DecisionSpec => []DutyInv
BY DutyInit, DutyStep, PTL DEF DecisionSpec

\* The decision, its query and its answer have the declared types in every state: a
\* resolution names at least one rule, and a HOLD none.
THEOREM DecisionTypeCorrect == DecisionSpec => []DecisionTypeOK
<1>1. DecisionInv /\ DutyInv => DecisionTypeOK
  <2> SUFFICES ASSUME DecisionInv, DutyInv PROVE DecisionTypeOK
    OBVIOUS
  <2>1. TypeOK /\ QuestionInv
    BY DEF DecisionInv, IInv
  <2>2. \/ answer = None
        \/ answer.held \in Reasons /\ answer.measures = {}
        \/ answer.held = "" /\ answer.measures \subseteq Rules /\ answer.measures # {}
    BY <2>1 DEF QuestionInv, DutyInv, RightDuty, Reasons
  <2> QED
    BY <2>1, <2>2 DEF QuestionInv, DecisionTypeOK
<1> QED
  BY <1>1, DecisionInvariance, DutyInvariance, PTL

\* For any rules, in whatever order the rows come and whatever is activated between the
\* two reads: ResolveTariff's duty is, of each measure, the one rule that beats all others,
\* of fresh versions; a missing or an ambiguous rate is held, never resolved.
THEOREM DutyIsMostSpecific == DecisionSpec => []ResolvesMostSpecific
<1>1. DutyInv => ResolvesMostSpecific
  <2> SUFFICES ASSUME DutyInv, dpc = "done",
                      answer.held \notin {"NO_REGULATORY_COVERAGE", "STALE_REGULATORY_DATA"}
               PROVE  ResolvesMostSpecific
    BY DEF ResolvesMostSpecific
  <2>1. PICK S : S = TariffCandidates(covered, query)
    OBVIOUS
  <2>2. Fresh(covered, at) /\ RightDuty(query, S, answer)
    BY <2>1 DEF DutyInv
  <2>3. \A m : Unbeaten(m) = Leading(query, S, m)
    BY <2>1 DEF Unbeaten, Leading
  <2>4. {r.measure : r \in TariffCandidates(covered, query)} = MeasuresOf(S)
    BY <2>1 DEF MeasuresOf
  <2> QED
    BY <2>2, <2>3, <2>4 DEF RightDuty, ResolvesMostSpecific
<1> QED
  BY <1>1, DutyInvariance, PTL

=============================================================================

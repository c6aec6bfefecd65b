-------------------------- MODULE SourceConfigProofs --------------------------
(***************************************************************************)
(* For any number of callers, workers, buckets and ticks: SourceConfig is  *)
(* type correct, an adapter fits the row it was resolved for, a bucket     *)
(* keeps to its rate, and so does a source whose rate is not changed.      *)
(*                                                                         *)
(* The argument for the adapters: every row a worker holds, and every row  *)
(* a cached adapter was built from, was the source's at some time under    *)
(* its stamp (WorkerInv, CacheInv). For a bucket: the tokens it gave out   *)
(* are those of started requests and of sleepers (Accounts), and at any    *)
(* time to come the debt is that of the sleepers whose timers have not     *)
(* fired by then (Solvent), because a timer is set to the moment its own   *)
(* debt is paid. For the source: if all its rows had one rate, every       *)
(* resolve finds the one bucket, and it has counted every request          *)
(* (RequestInv).                                                           *)
(***************************************************************************)
EXTENDS SourceConfig, FiniteSetTheorems, TLAPS

RowInv == row # None => [rate |-> row.rate, stamp |-> row.stamp] \in stamped

\* What a resolve has in its hands at each of its steps.
WorkerInv(w) ==
  /\ pc[w] # "idle" => src[w] # None
  /\ src[w] # None => src[w] \in stamped
  /\ pc[w] \in {"build", "ready", "sleep"} => adapter[w] # None
  /\ pc[w] = "build" => adapter[w].rate = src[w].rate /\ adapter[w].limiter # 0
  /\ pc[w] = "sleep" => adapter[w].limiter # 0
  /\ adapter[w] # None => src[w] # None
  /\ adapter[w] # None /\ adapter[w].limiter # 0 =>
       /\ bucket[adapter[w].limiter] # None
       /\ bucket[adapter[w].limiter].rate = adapter[w].rate
       /\ adapter[w].rate = src[w].rate \/ Ambiguous(src[w].stamp)

\* A registered adapter has no bucket, another one was built from a row of its stamp.
CacheInv ==
  cache # None =>
    IF cache.stamp = 0 THEN cache.adapter.limiter = 0
    ELSE /\ [rate |-> cache.adapter.rate, stamp |-> cache.stamp] \in stamped
         /\ cache.adapter.limiter # 0
         /\ bucket[cache.adapter.limiter] # None
         /\ bucket[cache.adapter.limiter].rate = cache.adapter.rate

Sleepers(l) == {w \in Workers : pc[w] = "sleep" /\ adapter[w].limiter = l}
Waiting(l, t) == {w \in Sleepers(l) : wake[w] > t}

\* The tokens given out stand for started requests and for sleepers.
Accounts(l) ==
  bucket[l].started * Token + Cardinality(Sleepers(l)) * Token + bucket[l].tokens
    <= Cap(bucket[l]) + (bucket[l].last - bucket[l].born) * bucket[l].rate

\* At any time from now on, what is owed is owed by those who still wait then.
Solvent(l) ==
  \A t \in Nat : t >= clock =>
    bucket[l].tokens + (t - bucket[l].last) * bucket[l].rate + Cardinality(Waiting(l, t)) * Token >= 0

\* What a bucket holds or owes is what its rate adds in some number of ticks.
Whole(b) == \E k \in Int : b.tokens = k * b.rate

BucketInv(l) ==
  bucket[l] # None =>
    /\ bucket[l].born <= bucket[l].last /\ bucket[l].last <= clock
    /\ Whole(bucket[l])
    /\ Accounts(l) /\ Solvent(l)

\* While the source has had one rate only, its bucket is the only one.
OneRate(r) == \A s \in stamped : s.rate = r

RequestInv ==
  \A r \in Rates : OneRate(r) =>
    /\ \A l \in Limiters : bucket[l] # None =>
         l = current /\ bucket[l].rate = r /\ requests = bucket[l].started
    /\ current = 0 => requests = 0

IInv == /\ TypeOK /\ RowInv /\ CacheInv /\ RequestInv
        /\ \A w \in Workers : WorkerInv(w)
        /\ \A l \in Limiters : BucketInv(l)

-----------------------------------------------------------------------------
(* Frames                                                                  *)

LEMMA Constants ==
  /\ {MaxStamp, MaxEdits, MaxClock, MaxLimiters} \subseteq Nat
  /\ Stamps \subseteq Nat /\ Limiters \subseteq Nat /\ 0 \notin Stamps /\ 0 \notin Limiters
  /\ \A r \in Rates : r \in Nat \ {0} /\ r # None /\ \E k \in Nat : Token = k * r
  /\ Token \in Nat \ {0}
  /\ IsFiniteSet(Workers)
<1>1. /\ {MaxStamp, MaxEdits, MaxClock, MaxLimiters} \subseteq Nat
      /\ Stamps \subseteq Nat /\ Limiters \subseteq Nat /\ 0 \notin Stamps /\ 0 \notin Limiters
  BY BoundsAssumption DEF Stamps, Limiters
<1>2. ASSUME NEW r \in Rates PROVE r \in Nat \ {0} /\ r # None /\ \E k \in Nat : Token = k * r
  <2>1. PICK k \in 1 .. TicksPerSecond : TicksPerSecond = k * r
    BY RatesAssumption
  <2>2. k \in Nat
    BY RatesAssumption
  <2> QED
    BY <2>1, <2>2, RatesAssumption DEF Token
<1> QED
  BY <1>1, <1>2, RatesAssumption, WorkersAssumption DEF Token

\* A debt that the rate divides is paid in a whole number of ticks.
LEMMA ExactDivision ==
  ASSUME NEW k \in Int, NEW r \in Nat \ {0}
  PROVE  (k * r) \div r = k
OBVIOUS

\* From the time on at which a debt of -k is paid, nothing is owed.
LEMMA PaidBy ==
  ASSUME NEW k \in Int, NEW c \in Int, NEW u \in Int, NEW t \in Int, NEW r \in Nat \ {0},
         (u - c) * r = -k, t >= u
  PROVE  k + (t - c) * r >= 0 /\ k + (t - c) * r \in Int
<1>1. (t - u) * r >= 0
  OBVIOUS
<1>2. k + (t - c) * r = (t - u) * r
  OBVIOUS
<1> QED
  BY <1>1, <1>2

\* No bucket is taken away, or changes its rate.
BucketsKept ==
  \A l \in Limiters : bucket[l] # None => bucket'[l] # None /\ bucket'[l].rate = bucket[l].rate

LEMMA AmbiguousStays ==
  ASSUME stamped \subseteq stamped', NEW t, Ambiguous(t)
  PROVE  Ambiguous(t)'
BY DEF Ambiguous

LEMMA WorkerFrame ==
  ASSUME TypeOK, NEW w \in Workers, WorkerInv(w), stamped \subseteq stamped', BucketsKept,
         pc'[w] = pc[w], src'[w] = src[w], adapter'[w] = adapter[w]
  PROVE  WorkerInv(w)'
<1>1. adapter[w] # None /\ adapter[w].limiter # 0 => adapter[w].limiter \in Limiters
  BY Constants DEF TypeOK, AdapterType, Limiters
<1>2. adapter[w] # None /\ adapter[w].limiter # 0 =>
        /\ bucket'[adapter[w].limiter] # None
        /\ bucket'[adapter[w].limiter].rate = adapter[w].rate
        /\ adapter[w].rate = src[w].rate \/ Ambiguous(src[w].stamp)
  BY <1>1 DEF WorkerInv, BucketsKept
<1>3. Ambiguous(src[w].stamp) => Ambiguous(src[w].stamp)'
  <2>1. PICK t : t = src[w].stamp
    OBVIOUS
  <2>2. Ambiguous(t) => Ambiguous(t)'
    BY AmbiguousStays
  <2> QED
    BY <2>1, <2>2 DEF Ambiguous
<1> QED
  BY <1>2, <1>3 DEF WorkerInv

LEMMA CacheFrame ==
  ASSUME TypeOK, CacheInv, stamped \subseteq stamped', BucketsKept, UNCHANGED cache
  PROVE  CacheInv'
<1>1. cache # None /\ cache.stamp # 0 => cache.adapter.limiter \in Limiters
  BY Constants DEF TypeOK, CacheType, CacheInv, AdapterType, Limiters
<1> QED
  BY <1>1 DEF CacheInv, BucketsKept

\* A bucket that is left alone, with the same workers asleep at it.
LEMMA BucketFrame ==
  ASSUME NEW l \in Limiters, BucketInv(l), UNCHANGED clock, bucket'[l] = bucket[l],
         Sleepers(l)' = Sleepers(l), \A w \in Sleepers(l) : wake'[w] = wake[w]
  PROVE  BucketInv(l)'
<1>1. \A t : Waiting(l, t)' = Waiting(l, t)
  BY DEF Waiting
<1>2. Accounts(l) => Accounts(l)'
  BY DEF Accounts, Cap
<1>3. Solvent(l) => Solvent(l)'
  BY <1>1, Zenon DEF Solvent
<1> QED
  BY <1>2, <1>3 DEF BucketInv

\* No request starts, and no bucket is made.
LEMMA RequestFrame ==
  ASSUME RequestInv, stamped \subseteq stamped', UNCHANGED <<current, requests>>,
         \A l \in Limiters : bucket'[l] # None =>
           /\ bucket[l] # None /\ bucket'[l].rate = bucket[l].rate
           /\ bucket'[l].started = bucket[l].started
  PROVE  RequestInv'
<1> SUFFICES ASSUME NEW r \in Rates, OneRate(r)'
             PROVE  /\ \A l \in Limiters : bucket'[l] # None =>
                         /\ l = current' /\ bucket'[l].rate = r
                         /\ requests' = bucket'[l].started
                    /\ current' = 0 => requests' = 0
  BY DEF RequestInv
<1>1. OneRate(r)
  BY DEF OneRate
<1> QED
  BY <1>1 DEF RequestInv

\* Steps of the service.
LEMMA EditStep ==
  ASSUME IInv, UNCHANGED <<registryVars, workVars, timeVars>>,
         row' \in RowType \cup {None}, edit' \in [Admins -> RowType \cup {None}],
         edits' \in 0 .. MaxEdits, stamped' \subseteq SourceType, stamped \subseteq stamped',
         RowInv'
  PROVE  IInv'
<1> USE DEF IInv
<1>1. UNCHANGED <<cache, current, bucket, pc, src, adapter, wake, clock, requests>>
  BY DEF registryVars, workVars, timeVars
<1>2. TypeOK'
  BY <1>1 DEF TypeOK
<1>3. BucketsKept
  BY <1>1 DEF BucketsKept
<1>4. CacheInv' /\ \A w \in Workers : WorkerInv(w)'
  BY <1>1, <1>3, CacheFrame, WorkerFrame
<1>5. \A l \in Limiters : BucketInv(l)'
  <2>1. \A l : Sleepers(l)' = Sleepers(l)
    BY <1>1 DEF Sleepers
  <2> QED
    BY <1>1, <2>1, BucketFrame
<1>6. RequestInv'
  BY <1>1, RequestFrame
<1> QED
  BY <1>2, <1>4, <1>5, <1>6

LEMMA InitIInv == Init => IInv
<1> SUFFICES ASSUME Init PROVE IInv
  OBVIOUS
<1>1. /\ row \in RowType /\ row # None /\ row.rate \in Rates /\ row.stamp \in Stamps
      /\ row.enabled \in BOOLEAN
  <2>1. /\ row = [rate |-> row.rate, enabled |-> row.enabled, stamp |-> row.stamp]
        /\ row.rate \in Rates /\ row.enabled = TRUE /\ row.stamp = 1
    BY DEF Init
  <2>2. 1 \in Stamps
    BY BoundsAssumption DEF Stamps
  <2>3. row \in RowType
    BY <2>1, <2>2 DEF RowType
  <2> QED
    BY <2>1, <2>2, <2>3, NoneAssumption
<1>2. TypeOK
  <2>1. stamped \subseteq SourceType
    BY <1>1 DEF Init, SourceType
  <2>2. 0 \in 0 .. MaxEdits /\ 0 \in 0 .. MaxLimiters /\ 0 \in 0 .. MaxClock
    BY Constants
  <2>3. /\ edit \in [Admins -> RowType \cup {None}]
        /\ bucket \in [Limiters -> BucketType \cup {None}]
        /\ src \in [Workers -> SourceType \cup {None}]
        /\ adapter \in [Workers -> AdapterType \cup {None}]
        /\ wake \in [Workers -> Nat]
        /\ pc \in [Workers -> {"idle", "lookup", "limiter", "build", "ready", "sleep"}]
    BY DEF Init
  <2>4. \A l \in Limiters : bucket[l] = None
    BY DEF Init
  <2>5. /\ edits \in 0 .. MaxEdits /\ current \in 0 .. MaxLimiters /\ clock \in 0 .. MaxClock
        /\ cache = None /\ current = 0 /\ requests \in Nat
    BY <2>2 DEF Init
  <2> QED
    BY <1>1, <2>1, <2>3, <2>4, <2>5 DEF TypeOK
<1>3. RowInv /\ CacheInv
  BY <1>1 DEF Init, RowInv, CacheInv
<1>4. RequestInv
  BY DEF Init, RequestInv
<1>5. \A w \in Workers : WorkerInv(w)
  BY DEF Init, WorkerInv
<1>6. \A l \in Limiters : BucketInv(l)
  BY DEF Init, BucketInv
<1> QED
  BY <1>2, <1>3, <1>4, <1>5, <1>6 DEF IInv

-----------------------------------------------------------------------------
(* The service                                                             *)

LEMMA RowFields ==
  ASSUME NEW r \in RowType
  PROVE  /\ r # None /\ r.rate \in Rates /\ r.enabled \in BOOLEAN /\ r.stamp \in Stamps
         /\ [rate |-> r.rate, stamp |-> r.stamp] \in SourceType
BY NoneAssumption DEF RowType, SourceType

LEMMA SaveStep ==
  ASSUME IInv, NEW r \in RowType, Save(r), edit' \in [Admins -> RowType \cup {None}],
         edits' \in 0 .. MaxEdits, UNCHANGED <<registryVars, workVars, timeVars>>
  PROVE  IInv'
<1>1. row' = r /\ stamped' = stamped \cup {[rate |-> r.rate, stamp |-> r.stamp]}
  BY DEF Save
<1>2. stamped' \subseteq SourceType /\ stamped \subseteq stamped'
  BY <1>1, RowFields DEF IInv, TypeOK
<1>3. RowInv'
  BY <1>1 DEF RowInv
<1> QED
  BY <1>1, <1>2, <1>3, EditStep

LEMMA StepCreate ==
  ASSUME IInv, NEW rate \in Rates, NEW stamp \in Stamps, CreateSource(rate, stamp)
  PROVE  IInv'
<1>1. PICK r \in RowType : r = [rate |-> rate, enabled |-> TRUE, stamp |-> stamp]
  BY DEF RowType
<1>2. Save(r) /\ UNCHANGED <<edit, registryVars, workVars, timeVars>>
  BY <1>1 DEF CreateSource
<1>3. edits' \in 0 .. MaxEdits
  BY Constants DEF CreateSource, IInv, TypeOK
<1> QED
  BY <1>2, <1>3, SaveStep DEF IInv, TypeOK

LEMMA StepGet ==
  ASSUME IInv, NEW a \in Admins, NEW copy \in RowType, Get(a, copy)
  PROVE  IInv'
<1>1. /\ UNCHANGED <<row, stamped, registryVars, workVars, timeVars>>
      /\ edit' = [edit EXCEPT ![a] = copy]
  BY DEF Get
<1>2. edits' \in 0 .. MaxEdits
  BY Constants DEF Get, IInv, TypeOK
<1>3. edit' \in [Admins -> RowType \cup {None}]
  BY <1>1, Zenon DEF IInv, TypeOK
<1>4. RowInv'
  BY <1>1 DEF IInv, RowInv
<1> QED
  BY <1>1, <1>2, <1>3, <1>4, EditStep DEF IInv, TypeOK

LEMMA StepUpdateRateLimit ==
  ASSUME IInv, NEW a \in Admins, NEW rate \in Rates, NEW stamp \in Stamps,
         UpdateRateLimit(a, rate, stamp)
  PROVE  IInv'
<1>1. row \in RowType
  BY DEF UpdateRateLimit, IInv, TypeOK
<1>2. PICK copy : copy = [row EXCEPT !.rate = rate, !.stamp = stamp]
  OBVIOUS
<1>3. copy \in RowType
  BY <1>1, <1>2 DEF RowType
<1>4. Get(a, copy)
  BY <1>2 DEF UpdateRateLimit
<1> QED
  BY <1>3, <1>4, StepGet

LEMMA StepSetEnabled ==
  ASSUME IInv, NEW a \in Admins, NEW on \in BOOLEAN, NEW stamp \in Stamps,
         SetEnabled(a, on, stamp)
  PROVE  IInv'
<1>1. row \in RowType
  BY DEF SetEnabled, IInv, TypeOK
<1>2. PICK copy : copy = [row EXCEPT !.enabled = on, !.stamp = stamp]
  OBVIOUS
<1>3. copy \in RowType
  BY <1>1, <1>2 DEF RowType
<1>4. Get(a, copy)
  BY <1>2 DEF SetEnabled
<1> QED
  BY <1>3, <1>4, StepGet

LEMMA StepPut == ASSUME IInv, NEW a \in Admins, Put(a) PROVE IInv'
<1>1. PICK r \in RowType : r = edit[a]
  BY DEF Put, IInv, TypeOK
<1>2. /\ Save(r) /\ edit' = [edit EXCEPT ![a] = None]
      /\ UNCHANGED <<edits, registryVars, workVars, timeVars>>
  BY <1>1 DEF Put
<1>3. edit' \in [Admins -> RowType \cup {None}]
  BY <1>2, Zenon DEF IInv, TypeOK
<1> QED
  BY <1>2, <1>3, SaveStep DEF IInv, TypeOK

LEMMA StepPutFails == ASSUME IInv, NEW a \in Admins, PutFails(a) PROVE IInv'
<1>1. /\ UNCHANGED <<row, edits, stamped, registryVars, workVars, timeVars>>
      /\ edit' = [edit EXCEPT ![a] = None]
  BY DEF PutFails
<1>2. edit' \in [Admins -> RowType \cup {None}]
  BY <1>1, Zenon DEF IInv, TypeOK
<1>3. RowInv'
  BY <1>1 DEF IInv, RowInv
<1> QED
  BY <1>1, <1>2, <1>3, EditStep DEF IInv, TypeOK

LEMMA StepDelete == ASSUME IInv, DeleteSource PROVE IInv'
<1>1. /\ UNCHANGED <<edit, edits, stamped, registryVars, workVars, timeVars>>
      /\ row' = None
  BY DEF DeleteSource
<1>2. RowInv'
  BY <1>1 DEF RowInv
<1> QED
  BY <1>1, <1>2, EditStep DEF IInv, TypeOK

-----------------------------------------------------------------------------
(* Registry                                                                *)

\* A step of the registry at which worker w, not asleep, goes to another place not asleep.
LEMMA EnterStep ==
  ASSUME IInv, NEW w \in Workers, pc[w] # "sleep",
         UNCHANGED <<row, editVars, wake, clock, requests>>,
         NEW l \in {"idle", "lookup", "limiter", "build", "ready"},
         NEW s \in SourceType \cup {None}, NEW ad \in AdapterType \cup {None}, Enter(w, l, s, ad),
         cache' \in CacheType \cup {None}, current' \in 0 .. MaxLimiters,
         bucket' \in [Limiters -> BucketType \cup {None}], current' # 0 => bucket'[current'] # None,
         \A m \in Limiters : bucket'[m] = bucket[m] \/ (bucket[m] = None /\ BucketInv(m)'
                                /\ bucket'[m].tokens <= bucket'[m].rate * Token),
         CacheInv', RequestInv', WorkerInv(w)'
  PROVE  IInv'
<1> USE DEF IInv
<1>1. UNCHANGED <<edit, edits, stamped>>
  BY DEF editVars
<1>2. /\ pc' = [pc EXCEPT ![w] = l] /\ src' = [src EXCEPT ![w] = s]
      /\ adapter' = [adapter EXCEPT ![w] = ad]
  BY DEF Enter
<1>3. /\ pc' \in [Workers -> {"idle", "lookup", "limiter", "build", "ready", "sleep"}]
      /\ pc'[w] = l /\ \A v \in Workers \ {w} : pc'[v] = pc[v]
  BY <1>2 DEF TypeOK
<1>4. /\ src' \in [Workers -> SourceType \cup {None}]
      /\ src'[w] = s /\ \A v \in Workers \ {w} : src'[v] = src[v]
  BY <1>2, Zenon DEF TypeOK
<1>5. /\ adapter' \in [Workers -> AdapterType \cup {None}]
      /\ adapter'[w] = ad /\ \A v \in Workers \ {w} : adapter'[v] = adapter[v]
  BY <1>2, Zenon DEF TypeOK
<1>6. TypeOK'
  <2>1. \A m \in Limiters : bucket'[m] # None => bucket'[m].tokens <= bucket'[m].rate * Token
    BY DEF TypeOK
  <2> QED
    BY <1>1, <1>3, <1>4, <1>5, <2>1 DEF TypeOK
<1>7. BucketsKept
  BY DEF BucketsKept
<1>8. \A v \in Workers : WorkerInv(v)'
  BY <1>1, <1>3, <1>4, <1>5, <1>7, WorkerFrame
<1>9. \A m \in Limiters : BucketInv(m)'
  <2>1. ASSUME NEW m \in Limiters PROVE Sleepers(m)' = Sleepers(m)
    BY <1>3, <1>5 DEF Sleepers
  <2> QED
    BY <2>1, BucketFrame
<1>10. RowInv'
  BY <1>1 DEF RowInv
<1> QED
  BY <1>6, <1>8, <1>9, <1>10

\* ... that leaves the registry alone.
LEMMA EnterOnly ==
  ASSUME IInv, NEW w \in Workers, pc[w] # "sleep",
         UNCHANGED <<row, editVars, registryVars, wake, timeVars>>,
         NEW l \in {"idle", "lookup", "limiter", "build", "ready"},
         NEW s \in SourceType \cup {None}, NEW ad \in AdapterType \cup {None}, Enter(w, l, s, ad),
         WorkerInv(w)'
  PROVE  IInv'
<1>1. UNCHANGED <<cache, current, bucket, clock, requests, stamped>>
  BY DEF registryVars, timeVars, editVars
<1>2. CacheInv' /\ RequestInv'
  BY <1>1, CacheFrame, RequestFrame DEF IInv, BucketsKept
<1> QED
  BY <1>1, <1>2, EnterStep DEF IInv, TypeOK

LEMMA EnterFacts ==
  ASSUME TypeOK, NEW w \in Workers, NEW l, NEW s, NEW ad, Enter(w, l, s, ad)
  PROVE  pc'[w] = l /\ src'[w] = s /\ adapter'[w] = ad
BY DEF Enter, TypeOK

LEMMA StepReadSource == ASSUME IInv, NEW w \in Workers, ReadSource(w) PROVE IInv'
<1>1. row # None /\ row \in RowType /\ pc[w] = "idle"
  BY DEF ReadSource, IInv, TypeOK
<1>2. PICK s : s = [rate |-> row.rate, stamp |-> row.stamp]
  OBVIOUS
<1>3. s \in SourceType /\ s # None /\ s \in stamped
  BY <1>1, <1>2, RowFields, NoneAssumption DEF IInv, RowInv
<1>4. Enter(w, "lookup", s, None) /\ UNCHANGED <<row, editVars, registryVars, wake, timeVars>>
  BY <1>2 DEF ReadSource
<1>5. pc'[w] = "lookup" /\ src'[w] = s /\ adapter'[w] = None /\ stamped' = stamped
  BY <1>4, EnterFacts DEF IInv, editVars
<1>6. WorkerInv(w)'
  BY <1>3, <1>5 DEF WorkerInv
<1> QED
  BY <1>1, <1>3, <1>4, <1>6, EnterOnly

LEMMA StepLeave == ASSUME IInv, NEW w \in Workers, Leave(w) PROVE IInv'
<1>1. /\ Enter(w, "idle", None, None) /\ UNCHANGED <<row, editVars, registryVars, wake, timeVars>>
      /\ pc[w] # "sleep"
  BY DEF Leave
<1>2. pc'[w] = "idle" /\ src'[w] = None /\ adapter'[w] = None
  BY <1>1, EnterFacts DEF IInv
<1>3. WorkerInv(w)'
  BY <1>2 DEF WorkerInv
<1> QED
  BY <1>1, <1>3, EnterOnly

LEMMA StepRegister == ASSUME IInv, Register PROVE IInv'
<1>1. /\ UNCHANGED <<row, edit, edits, stamped, current, pc, src, adapter, wake, bucket, clock>>
      /\ UNCHANGED requests
  BY DEF Register, editVars, workVars, timeVars
<1>2. cache' = [adapter |-> [rate |-> None, limiter |-> 0], stamp |-> 0]
  BY DEF Register
<1>3. cache' \in CacheType /\ CacheInv'
  BY <1>2, Constants DEF CacheType, AdapterType, CacheInv
<1>4. TypeOK'
  BY <1>1, <1>3 DEF IInv, TypeOK
<1>5. \A w \in Workers : WorkerInv(w)'
  BY <1>1, WorkerFrame DEF IInv, BucketsKept
<1>6. \A m \in Limiters : BucketInv(m)'
  <2>1. \A m \in Limiters : Sleepers(m)' = Sleepers(m)
    BY <1>1 DEF Sleepers
  <2> QED
    BY <1>1, <2>1, BucketFrame DEF IInv
<1>7. RowInv' /\ RequestInv'
  BY <1>1, RequestFrame DEF IInv, RowInv
<1> QED
  BY <1>3, <1>4, <1>5, <1>6, <1>7 DEF IInv

\* A cached adapter serves a row of its own stamp: that row, or one that clocks which stood
\* still gave the same stamp.
LEMMA StepLookup == ASSUME IInv, NEW w \in Workers, Lookup(w) PROVE IInv'
<1>1. pc[w] = "lookup" /\ UNCHANGED <<row, editVars, registryVars, wake, timeVars>>
  BY DEF Lookup
<1>2. src[w] # None /\ src[w] \in stamped /\ src[w] \in SourceType
  BY <1>1 DEF IInv, WorkerInv, TypeOK
<1>3. stamped' = stamped /\ cache' = cache /\ bucket' = bucket
  BY <1>1 DEF editVars, registryVars, timeVars
<1>4. CASE Usable(src[w])
  <2>1. cache # None /\ cache \in CacheType /\ (cache.stamp = 0 \/ cache.stamp = src[w].stamp)
    BY <1>4 DEF Usable, IInv, TypeOK
  <2>2. PICK ad \in AdapterType : ad = cache.adapter
    BY <2>1 DEF CacheType
  <2>3. Enter(w, "ready", src[w], ad)
    BY <1>4, <2>2 DEF Lookup
  <2>4. pc'[w] = "ready" /\ src'[w] = src[w] /\ adapter'[w] = ad
    BY <2>3, EnterFacts DEF IInv
  <2>5. ad # None
    BY NoneAssumption
  <2>6. ASSUME ad.limiter # 0
        PROVE  /\ bucket[ad.limiter] # None /\ bucket[ad.limiter].rate = ad.rate
               /\ [rate |-> ad.rate, stamp |-> src[w].stamp] \in stamped
    BY <2>1, <2>2, <2>6 DEF IInv, CacheInv
  <2>7. ASSUME ad.limiter # 0 PROVE ad.rate = src[w].rate \/ Ambiguous(src[w].stamp)
    <3>1. PICK s \in stamped : s = [rate |-> ad.rate, stamp |-> src[w].stamp]
      BY <2>6, <2>7
    <3>2. s.stamp = src[w].stamp /\ s.rate = ad.rate
      BY <3>1
    <3> QED
      BY <1>2, <3>2 DEF Ambiguous
  <2>8. Ambiguous(src[w].stamp) => Ambiguous(src[w].stamp)'
    BY <1>3, <2>4 DEF Ambiguous
  <2>9. WorkerInv(w)'
    BY <1>2, <1>3, <2>4, <2>5, <2>6, <2>7, <2>8 DEF WorkerInv
  <2> QED
    BY <1>1, <1>2, <2>3, <2>9, EnterOnly
<1>5. CASE ~ Usable(src[w])
  <2>1. Enter(w, "limiter", src[w], None)
    BY <1>5 DEF Lookup
  <2>2. pc'[w] = "limiter" /\ src'[w] = src[w] /\ adapter'[w] = None
    BY <2>1, EnterFacts DEF IInv
  <2>3. WorkerInv(w)'
    BY <1>2, <1>3, <2>2 DEF WorkerInv
  <2> QED
    BY <1>1, <1>2, <2>1, <2>3, EnterOnly
<1> QED
  BY <1>4, <1>5

LEMMA StepStore == ASSUME IInv, NEW w \in Workers, Store(w) PROVE IInv'
<1>1. /\ pc[w] = "build" /\ UNCHANGED <<row, editVars, current, wake, timeVars>>
      /\ cache' = [adapter |-> adapter[w], stamp |-> src[w].stamp]
      /\ Enter(w, "ready", src[w], adapter[w])
  BY DEF Store
<1>2. /\ src[w] # None /\ src[w] \in stamped /\ src[w] \in SourceType
      /\ adapter[w] # None /\ adapter[w] \in AdapterType
      /\ adapter[w].rate = src[w].rate /\ adapter[w].limiter # 0
      /\ bucket[adapter[w].limiter] # None
      /\ bucket[adapter[w].limiter].rate = adapter[w].rate
  BY <1>1 DEF IInv, WorkerInv, TypeOK
<1>3. UNCHANGED <<stamped, bucket, clock, requests>>
  BY <1>1 DEF editVars, timeVars
<1>4. pc'[w] = "ready" /\ src'[w] = src[w] /\ adapter'[w] = adapter[w]
  BY <1>1, EnterFacts DEF IInv
<1>5. src[w] = [rate |-> src[w].rate, stamp |-> src[w].stamp] /\ src[w].stamp \in Stamps
  BY <1>2 DEF SourceType
<1>6. src[w].stamp \in 0 .. MaxStamp /\ src[w].stamp # 0
  BY <1>5, Constants DEF Stamps
<1>7. cache' \in CacheType
  BY <1>1, <1>2, <1>6 DEF CacheType
<1>8. CacheInv'
  BY <1>1, <1>2, <1>3, <1>5, <1>6 DEF CacheInv
<1>9. WorkerInv(w)' /\ RequestInv'
  BY <1>1, <1>2, <1>3, <1>4, RequestFrame DEF WorkerInv, IInv
<1> QED
  BY <1>1, <1>2, <1>3, <1>7, <1>8, <1>9, EnterStep DEF IInv, TypeOK

\* A new bucket is full, and nobody is asleep at it.
LEMMA NewBucket ==
  ASSUME IInv, NEW l \in Limiters, bucket[l] = None, NEW rate \in Rates,
         bucket'[l] = FullBucket(rate), UNCHANGED clock, Sleepers(l)' = Sleepers(l)
  PROVE  /\ bucket'[l] \in BucketType /\ bucket'[l].rate = rate
         /\ bucket'[l].tokens <= bucket'[l].rate * Token /\ BucketInv(l)'
<1>1. clock \in Nat
  BY Constants DEF IInv, TypeOK
<1>2. rate \in Nat \ {0} /\ Token \in Nat \ {0} /\ rate * Token \in Int
  BY Constants
<1>3. /\ bucket'[l].rate = rate /\ bucket'[l].tokens = rate * Token /\ bucket'[l].last = clock
      /\ bucket'[l].born = clock /\ bucket'[l].started = 0
      /\ bucket'[l] \in BucketType
  BY <1>1, <1>2 DEF FullBucket, BucketType
<1>4. Sleepers(l) = {}
  BY DEF IInv, WorkerInv, Sleepers
<1>5. Sleepers(l)' = {} /\ \A t : Waiting(l, t)' = {}
  BY <1>4 DEF Waiting
<1>6. Cardinality({}) = 0
  BY FS_EmptySet
<1>7. Cardinality(Sleepers(l)') = 0 /\ \A t : Cardinality(Waiting(l, t)') = 0
  BY <1>5, <1>6
<1>8. Accounts(l)'
  BY <1>1, <1>2, <1>3, <1>7 DEF Accounts, Cap
<1>9. Solvent(l)'
  <2> SUFFICES ASSUME NEW t \in Nat, t >= clock'
               PROVE  (bucket[l].tokens + (t - bucket[l].last) * bucket[l].rate
                         + Cardinality(Waiting(l, t)) * Token >= 0)'
    BY DEF Solvent
  <2> QED
    BY <1>1, <1>2, <1>3, <1>7
<1>10. Whole(bucket'[l])
  <2>1. rate * Token = Token * rate
    BY <1>2
  <2> QED
    BY <1>2, <1>3, <2>1 DEF Whole
<1> QED
  BY <1>1, <1>2, <1>3, <1>8, <1>9, <1>10 DEF BucketInv

LEMMA StepLimiterFor == ASSUME IInv, NEW w \in Workers, LimiterFor(w) PROVE IInv'
<1>1. pc[w] = "limiter" /\ UNCHANGED <<row, editVars, cache, wake, clock, requests>>
  BY DEF LimiterFor
<1>2. src[w] # None /\ src[w] \in stamped /\ src[w] \in SourceType /\ src[w].rate \in Rates
  BY <1>1 DEF IInv, WorkerInv, TypeOK, SourceType
<1>3. PICK l \in Limiters :
        /\ IF current # 0 /\ bucket[current].rate = src[w].rate
           THEN l = current /\ UNCHANGED bucket
           ELSE Fresh(l) /\ bucket' = [bucket EXCEPT ![l] = FullBucket(src[w].rate)]
        /\ current' = l
        /\ Enter(w, "build", src[w], [rate |-> src[w].rate, limiter |-> l])
  BY DEF LimiterFor
<1>4. PICK ad : ad = [rate |-> src[w].rate, limiter |-> l]
  OBVIOUS
<1>5. l \in 0 .. MaxLimiters /\ l # 0
  BY Constants DEF Limiters
<1>6. ad \in AdapterType /\ ad # None /\ ad.limiter = l /\ ad.rate = src[w].rate
  BY <1>2, <1>4, <1>5, NoneAssumption DEF AdapterType
<1>7. Enter(w, "build", src[w], ad)
  BY <1>3, <1>4
<1>8. pc'[w] = "build" /\ src'[w] = src[w] /\ adapter'[w] = ad /\ stamped' = stamped
  BY <1>1, <1>7, EnterFacts DEF IInv, editVars
<1>9. /\ bucket' \in [Limiters -> BucketType \cup {None}]
      /\ bucket'[l] # None /\ bucket'[l].rate = src[w].rate
      /\ \A m \in Limiters : bucket'[m] = bucket[m] \/ (bucket[m] = None /\ BucketInv(m)'
                                /\ bucket'[m].tokens <= bucket'[m].rate * Token)
  <2>1. CASE current # 0 /\ bucket[current].rate = src[w].rate
    BY <1>3, <2>1 DEF IInv, TypeOK
  <2>2. CASE ~ (current # 0 /\ bucket[current].rate = src[w].rate)
    <3>1. bucket[l] = None /\ bucket' = [bucket EXCEPT ![l] = FullBucket(src[w].rate)]
      BY <1>3, <2>2 DEF Fresh
    <3>2. bucket'[l] = FullBucket(src[w].rate) /\ \A m \in Limiters \ {l} : bucket'[m] = bucket[m]
      BY <3>1 DEF IInv, TypeOK
    <3>3. Sleepers(l)' = Sleepers(l)
      <4>1. /\ pc'[w] = "build" /\ \A v \in Workers \ {w} : pc'[v] = pc[v]
            /\ \A v \in Workers \ {w} : adapter'[v] = adapter[v]
        BY <1>7 DEF Enter, IInv, TypeOK
      <4> QED
        BY <1>1, <4>1 DEF Sleepers
    <3>4. /\ bucket'[l] \in BucketType /\ bucket'[l].rate = src[w].rate
          /\ bucket'[l].tokens <= bucket'[l].rate * Token /\ BucketInv(l)'
      BY <1>1, <1>2, <3>1, <3>2, <3>3, NewBucket
    <3>5. FullBucket(src[w].rate) \in BucketType
      BY <3>2, <3>4
    <3>6. bucket' \in [Limiters -> BucketType \cup {None}]
      BY <3>1, <3>5, Zenon DEF IInv, TypeOK
    <3>7. bucket'[l] # None
      BY <3>4, NoneAssumption
    <3> QED
      BY <3>1, <3>2, <3>4, <3>6, <3>7
  <2> QED
    BY <2>1, <2>2
<1>10. CacheInv'
  BY <1>1, <1>8, <1>9, CacheFrame DEF IInv, BucketsKept
<1>11. WorkerInv(w)'
  BY <1>2, <1>5, <1>6, <1>8, <1>9 DEF WorkerInv
<1>12. current' \in 0 .. MaxLimiters /\ bucket'[current'] # None /\ cache' \in CacheType \cup {None}
  BY <1>1, <1>3, <1>5, <1>9 DEF IInv, TypeOK
<1>13. pc[w] # "sleep"
  BY <1>1
<1>14. RequestInv'
  <2> SUFFICES ASSUME NEW r \in Rates, OneRate(r)'
               PROVE  /\ \A m \in Limiters : bucket'[m] # None =>
                           /\ m = current' /\ bucket'[m].rate = r
                           /\ requests' = bucket'[m].started
                      /\ current' = 0 => requests' = 0
    BY DEF RequestInv
  <2>1. OneRate(r) /\ src[w].rate = r
    BY <1>2, <1>8 DEF OneRate
  <2>2. /\ \A m \in Limiters : bucket[m] # None =>
             m = current /\ bucket[m].rate = r /\ requests = bucket[m].started
        /\ current = 0 => requests = 0
    BY <2>1 DEF IInv, RequestInv
  <2>3. CASE current # 0
    <3>1. current \in Limiters /\ bucket[current] # None
      BY <2>3 DEF IInv, TypeOK, Limiters
    <3>2. bucket[current].rate = src[w].rate
      BY <2>1, <2>2, <3>1
    <3> QED
      BY <1>1, <1>3, <2>2, <2>3, <3>2
  <2>4. CASE current = 0
    <3>1. \A m \in Limiters : bucket[m] = None
      BY <2>2, <2>4, Constants
    <3>2. bucket' = [bucket EXCEPT ![l] = FullBucket(src[w].rate)] /\ current' = l
      BY <1>3, <2>4
    <3>3. bucket'[l] = FullBucket(src[w].rate) /\ \A m \in Limiters \ {l} : bucket'[m] = None
      BY <3>1, <3>2 DEF IInv, TypeOK
    <3>4. bucket'[l].started = 0 /\ bucket'[l].rate = r
      BY <2>1, <3>3 DEF FullBucket
    <3>5. requests' = 0
      BY <1>1, <2>2, <2>4
    <3> QED
      BY <1>5, <3>2, <3>3, <3>4, <3>5
  <2> QED
    BY <2>3, <2>4
<1> QED
  BY <1>1, <1>2, <1>6, <1>7, <1>9, <1>10, <1>11, <1>12, <1>13, <1>14, EnterStep

-----------------------------------------------------------------------------
(* TokenBucketLimiter                                                      *)

\* A step of worker w at bucket l.
LEMMA BucketStep ==
  ASSUME IInv, NEW w \in Workers, NEW l \in Limiters, bucket[l] # None,
         UNCHANGED <<row, editVars, registryVars, clock>>,
         NEW b \in BucketType, b.rate = bucket[l].rate, b.tokens <= b.rate * Token,
         \/ requests' = requests /\ b.started = bucket[l].started
         \/ requests' = requests + 1 /\ b.started = bucket[l].started + 1,
         bucket' = [bucket EXCEPT ![l] = b],
         pc' \in [Workers -> {"idle", "lookup", "limiter", "build", "ready", "sleep"}],
         src' \in [Workers -> SourceType \cup {None}],
         adapter' \in [Workers -> AdapterType \cup {None}], wake' \in [Workers -> Nat],
         \A v \in Workers \ {w} : /\ pc'[v] = pc[v] /\ src'[v] = src[v]
                                  /\ adapter'[v] = adapter[v] /\ wake'[v] = wake[v],
         \A m \in Limiters \ {l} : w \notin Sleepers(m) /\ w \notin Sleepers(m)',
         WorkerInv(w)', BucketInv(l)'
  PROVE  IInv'
<1> USE DEF IInv
<1>1. UNCHANGED <<edit, edits, stamped, cache, current>>
  BY DEF editVars, registryVars
<1>2. b # None
  BY NoneAssumption
<1>3. /\ bucket' \in [Limiters -> BucketType \cup {None}] /\ bucket'[l] = b
      /\ \A m \in Limiters \ {l} : bucket'[m] = bucket[m]
  BY Zenon DEF TypeOK
<1>4. BucketsKept
  BY <1>2, <1>3 DEF BucketsKept
<1>5. TypeOK'
  <2>1. current' # 0 => bucket'[current'] # None
    BY <1>1, <1>2, <1>3, Constants DEF TypeOK, Limiters
  <2>2. \A m \in Limiters : bucket'[m] # None => bucket'[m].tokens <= bucket'[m].rate * Token
    BY <1>3 DEF TypeOK
  <2>3. requests' \in Nat
    BY DEF TypeOK
  <2> QED
    BY <1>1, <1>3, <2>1, <2>2, <2>3 DEF TypeOK
<1>6. CacheInv'
  BY <1>1, <1>4, CacheFrame
<1>7. \A v \in Workers : WorkerInv(v)'
  BY <1>1, <1>4, WorkerFrame
<1>8. \A m \in Limiters : BucketInv(m)'
  <2>1. ASSUME NEW m \in Limiters \ {l} PROVE BucketInv(m)'
    <3>1. w \notin Sleepers(m) /\ w \notin Sleepers(m)'
      OBVIOUS
    <3>2. \A v : v \in Sleepers(m)' <=> v \in Sleepers(m)
      BY <3>1 DEF Sleepers
    <3>3. Sleepers(m)' = Sleepers(m)
      BY <3>2
    <3>4. \A v \in Sleepers(m) : wake'[v] = wake[v]
      BY <3>1 DEF Sleepers
    <3> QED
      BY <1>3, <3>3, <3>4, BucketFrame
  <2> QED
    BY <2>1
<1>9. RowInv'
  BY <1>1 DEF RowInv
<1>10. RequestInv'
  <2> SUFFICES ASSUME NEW r \in Rates, OneRate(r)'
               PROVE  /\ \A m \in Limiters : bucket'[m] # None =>
                           /\ m = current' /\ bucket'[m].rate = r
                           /\ requests' = bucket'[m].started
                      /\ current' = 0 => requests' = 0
    BY DEF RequestInv
  <2>1. OneRate(r)
    BY <1>1 DEF OneRate
  <2>2. \A m \in Limiters : bucket[m] # None =>
          m = current /\ bucket[m].rate = r /\ requests = bucket[m].started
    BY <2>1 DEF RequestInv
  <2>3. l = current /\ bucket[l].rate = r /\ requests = bucket[l].started
    BY <2>2
  <2>4. \A m \in Limiters \ {l} : bucket'[m] = None
    BY <1>3, <2>2, <2>3
  <2> QED
    BY <1>1, <1>3, <2>3, <2>4, Constants
<1> QED
  BY <1>5, <1>6, <1>7, <1>8, <1>9, <1>10

\* What a bucket with sleepers is like.
LEMMA BucketFacts ==
  ASSUME IInv, NEW l \in Limiters, bucket[l] # None
  PROVE  /\ bucket[l] \in BucketType /\ bucket[l].rate \in Nat \ {0} /\ bucket[l].rate \in Rates
         /\ bucket[l].tokens \in Int /\ bucket[l].last \in Nat /\ bucket[l].born \in Nat
         /\ bucket[l].started \in Nat /\ clock \in Nat
         /\ bucket[l].born <= bucket[l].last /\ bucket[l].last <= clock
         /\ bucket[l].tokens <= bucket[l].rate * Token
         /\ Whole(bucket[l]) /\ Token \in Nat \ {0}
         /\ Accounts(l) /\ Solvent(l)
<1>1. bucket[l] \in BucketType /\ clock \in Nat /\ bucket[l].tokens <= bucket[l].rate * Token
  BY Constants DEF IInv, TypeOK
<1> QED
  BY <1>1, Constants DEF IInv, BucketInv, BucketType

LEMMA SleepersFinite ==
  ASSUME NEW l
  PROVE  /\ IsFiniteSet(Sleepers(l)) /\ Cardinality(Sleepers(l)) \in Nat
         /\ \A t : IsFiniteSet(Waiting(l, t)) /\ Cardinality(Waiting(l, t)) \in Nat
                   /\ Cardinality(Waiting(l, t)) <= Cardinality(Sleepers(l))
<1>1. IsFiniteSet(Sleepers(l)) /\ Cardinality(Sleepers(l)) \in Nat
  BY Constants, FS_Subset, FS_CardinalityType DEF Sleepers
<1>2. ASSUME NEW t
      PROVE  /\ IsFiniteSet(Waiting(l, t)) /\ Cardinality(Waiting(l, t)) \in Nat
             /\ Cardinality(Waiting(l, t)) <= Cardinality(Sleepers(l))
  <2>1. Waiting(l, t) \subseteq Sleepers(l)
    BY DEF Waiting
  <2> QED
    BY <1>1, <2>1, FS_Subset, FS_CardinalityType
<1> QED
  BY <1>1, <1>2

\* A worker with a bucket: where, and of which rate.
LEMMA AtBucket ==
  ASSUME IInv, NEW w \in Workers, pc[w] \in {"ready", "sleep"}, adapter[w].limiter # 0
  PROVE  /\ adapter[w] # None /\ adapter[w] \in AdapterType /\ adapter[w].limiter \in Limiters
         /\ bucket[adapter[w].limiter] # None
         /\ \A m \in Limiters \ {adapter[w].limiter} : w \notin Sleepers(m)
BY Constants DEF IInv, TypeOK, WorkerInv, AdapterType, Limiters, Sleepers

LEMMA StepTick == ASSUME IInv, Tick PROVE IInv'
<1>1. /\ UNCHANGED <<row, edit, edits, stamped, cache, current, bucket, requests>>
      /\ UNCHANGED <<pc, src, adapter, wake>>
      /\ clock' = clock + 1 /\ clock < MaxClock
  BY DEF Tick, editVars, registryVars, workVars
<1>2. clock \in Nat /\ clock' \in 0 .. MaxClock
  BY <1>1, Constants DEF IInv, TypeOK
<1>3. TypeOK'
  BY <1>1, <1>2 DEF IInv, TypeOK
<1>4. CacheInv' /\ \A w \in Workers : WorkerInv(w)'
  BY <1>1, CacheFrame, WorkerFrame DEF IInv, BucketsKept
<1>5. RowInv' /\ RequestInv'
  BY <1>1, RequestFrame DEF IInv, RowInv
<1>6. ASSUME NEW l \in Limiters, bucket'[l] # None PROVE BucketInv(l)'
  <2>1. bucket[l] # None
    BY <1>1, <1>6
  <2>2. Sleepers(l)' = Sleepers(l) /\ \A t : Waiting(l, t)' = Waiting(l, t)
    BY <1>1 DEF Sleepers, Waiting
  <2>3. Accounts(l)'
    BY <1>1, <2>1, <2>2, BucketFacts DEF Accounts, Cap
  <2>4. \A t \in Nat : t >= clock' => t >= clock
    BY <1>1, <1>2
  <2>5. Solvent(l)
    BY <2>1, BucketFacts
  <2>6. Solvent(l)'
    BY <1>1, <2>2, <2>4, <2>5, Zenon DEF Solvent
  <2>7. bucket[l].last <= clock'
    BY <1>1, <2>1, BucketFacts
  <2> QED
    BY <1>1, <2>1, <2>3, <2>6, <2>7, BucketFacts DEF BucketInv
<1> QED
  BY <1>3, <1>4, <1>5, <1>6 DEF IInv, BucketInv

\* Fire: a request started is no longer waited for, and its debt was paid.
LEMMA StepFire == ASSUME IInv, NEW w \in Workers, Fire(w) PROVE IInv'
<1>1. /\ pc[w] = "sleep" /\ clock >= wake[w] /\ pc' = [pc EXCEPT ![w] = "ready"]
      /\ wake' = [wake EXCEPT ![w] = 0] /\ requests' = requests + 1
      /\ UNCHANGED <<row, editVars, registryVars, src, adapter, clock>>
  BY DEF Fire
<1>2. adapter[w].limiter # 0
  BY <1>1 DEF IInv, WorkerInv
<1>3. PICK l \in Limiters : l = adapter[w].limiter
  BY <1>1, <1>2, AtBucket
<1>4. /\ bucket[l] # None /\ adapter[w] # None
      /\ \A m \in Limiters \ {l} : w \notin Sleepers(m)
  BY <1>1, <1>2, <1>3, AtBucket
<1>5. PICK b : b = Started(bucket[l])
  OBVIOUS
<1>6. /\ b \in BucketType /\ b.rate = bucket[l].rate /\ b.tokens = bucket[l].tokens
      /\ b.last = bucket[l].last /\ b.born = bucket[l].born /\ b.started = bucket[l].started + 1
  BY <1>4, <1>5, BucketFacts DEF Started, BucketType
<1>7. bucket' = [bucket EXCEPT ![l] = b] /\ bucket'[l] = b
  BY <1>3, <1>5 DEF Fire, IInv, TypeOK
<1>8. /\ pc' \in [Workers -> {"idle", "lookup", "limiter", "build", "ready", "sleep"}]
      /\ pc'[w] = "ready" /\ \A v \in Workers \ {w} : pc'[v] = pc[v]
  BY <1>1 DEF IInv, TypeOK
<1>9. /\ wake' \in [Workers -> Nat] /\ \A v \in Workers \ {w} : wake'[v] = wake[v]
      /\ wake[w] \in Nat
  BY <1>1 DEF IInv, TypeOK
<1>10. \A m : w \notin Sleepers(m)'
  BY <1>8 DEF Sleepers
<1>11. WorkerInv(w)'
  <2>1. WorkerInv(w) /\ stamped' = stamped
    BY <1>1 DEF IInv, editVars
  <2>2. Ambiguous(src[w].stamp) => Ambiguous(src[w].stamp)'
    BY <1>1, <2>1 DEF Ambiguous
  <2>3. b # None
    BY <1>6, NoneAssumption
  <2> QED
    BY <1>1, <1>3, <1>6, <1>7, <1>8, <2>1, <2>2, <2>3 DEF WorkerInv
<1>12. BucketInv(l)'
  <2>1. w \in Sleepers(l) /\ Sleepers(l)' = Sleepers(l) \ {w}
    BY <1>1, <1>3, <1>8 DEF Sleepers
  <2>2. Cardinality(Sleepers(l)') = Cardinality(Sleepers(l)) - 1
    BY <2>1, SleepersFinite, FS_RemoveElement
  <2>3. Cardinality(Sleepers(l)) \in Nat
    BY SleepersFinite
  <2>4. Accounts(l)'
    <3>1. PICK s \in Nat, n \in Nat : s = bucket[l].started /\ n = Cardinality(Sleepers(l))
      BY <1>4, <2>3, BucketFacts
    <3>2. (s + 1) * Token + (n - 1) * Token = s * Token + n * Token
      BY Constants
    <3>3. bucket'[l].started = s + 1 /\ Cardinality(Sleepers(l)') = n - 1
      BY <1>4, <1>6, <1>7, <2>2, <3>1
    <3>4. Accounts(l)
      BY <1>4, BucketFacts
    <3> QED
      BY <1>6, <1>7, <3>1, <3>2, <3>3, <3>4 DEF Accounts, Cap
  <2>5. ASSUME NEW t \in Nat, t >= clock PROVE Waiting(l, t)' = Waiting(l, t)
    <3>1. ~ (wake[w] > t)
      BY <1>1, <1>4, <1>9, <2>5, BucketFacts
    <3>2. Sleepers(l) \subseteq Workers
      BY DEF Sleepers
    <3>3. \A v : v \in Waiting(l, t)' <=> v \in Waiting(l, t)
      BY <1>9, <2>1, <3>1, <3>2 DEF Waiting
    <3> QED
      BY <3>3
  <2>6. Solvent(l)'
    BY <1>1, <1>4, <1>6, <1>7, <2>5, BucketFacts, Zenon DEF Solvent
  <2>7. Whole(b)
    BY <1>4, <1>6, BucketFacts DEF Whole
  <2> QED
    BY <1>1, <1>4, <1>6, <1>7, <2>4, <2>6, <2>7, BucketFacts DEF BucketInv
<1>13. b.tokens <= b.rate * Token
  BY <1>4, <1>6, BucketFacts
<1>14. src' \in [Workers -> SourceType \cup {None}] /\ adapter' \in [Workers -> AdapterType \cup {None}]
  BY <1>1 DEF IInv, TypeOK
<1> QED
  BY <1>1, <1>4, <1>6, <1>7, <1>8, <1>9, <1>10, <1>11, <1>12, <1>13, <1>14, BucketStep

\* Cancel: the token that goes back pays for the one who waits no longer.
LEMMA StepCancel == ASSUME IInv, NEW w \in Workers, Cancel(w) PROVE IInv'
<1>1. /\ pc[w] = "sleep" /\ Enter(w, "idle", None, None)
      /\ wake' = [wake EXCEPT ![w] = 0]
      /\ UNCHANGED <<row, editVars, registryVars, clock, requests>>
  BY DEF Cancel
<1>2. adapter[w].limiter # 0
  BY <1>1 DEF IInv, WorkerInv
<1>3. PICK l \in Limiters : l = adapter[w].limiter
  BY <1>1, <1>2, AtBucket
<1>4. /\ bucket[l] # None
      /\ \A m \in Limiters \ {l} : w \notin Sleepers(m)
  BY <1>1, <1>2, <1>3, AtBucket
<1>5. PICK b : b = [bucket[l] EXCEPT !.tokens = AtMost(Cap(bucket[l]), bucket[l].tokens + Token)]
  OBVIOUS
<1>6. bucket' = [bucket EXCEPT ![l] = b] /\ bucket'[l] = b
  BY <1>3, <1>5 DEF Cancel, IInv, TypeOK
<1>7. PICK k \in Int : k = AtMost(Cap(bucket[l]), bucket[l].tokens + Token)
  BY <1>4, BucketFacts, Constants DEF AtMost, Cap
<1>8. /\ b \in BucketType /\ b.rate = bucket[l].rate /\ b.tokens = k
      /\ b.last = bucket[l].last /\ b.born = bucket[l].born /\ b.started = bucket[l].started
  BY <1>4, <1>5, <1>7, BucketFacts DEF BucketType
<1>9. /\ k <= bucket[l].rate * Token /\ k <= bucket[l].tokens + Token
      /\ k = bucket[l].tokens + Token \/ k = bucket[l].rate * Token
  BY <1>4, <1>7, BucketFacts, Constants DEF AtMost, Cap
<1>10. /\ pc' \in [Workers -> {"idle", "lookup", "limiter", "build", "ready", "sleep"}]
       /\ pc'[w] = "idle" /\ \A v \in Workers \ {w} : pc'[v] = pc[v]
  BY <1>1 DEF IInv, TypeOK, Enter
<1>11. /\ wake' \in [Workers -> Nat] /\ \A v \in Workers \ {w} : wake'[v] = wake[v]
  BY <1>1 DEF IInv, TypeOK
<1>12. /\ src' \in [Workers -> SourceType \cup {None}]
       /\ src'[w] = None /\ \A v \in Workers \ {w} : src'[v] = src[v]
       /\ adapter' \in [Workers -> AdapterType \cup {None}]
       /\ adapter'[w] = None /\ \A v \in Workers \ {w} : adapter'[v] = adapter[v]
  BY <1>1 DEF IInv, TypeOK, Enter
<1>13. \A m : w \notin Sleepers(m)'
  BY <1>10 DEF Sleepers
<1>14. WorkerInv(w)'
  BY <1>10, <1>12 DEF WorkerInv
<1>15. BucketInv(l)'
  <2>1. w \in Sleepers(l) /\ Sleepers(l)' = Sleepers(l) \ {w}
    BY <1>1, <1>3, <1>10, <1>12 DEF Sleepers
  <2>2. Cardinality(Sleepers(l)') = Cardinality(Sleepers(l)) - 1
    BY <2>1, SleepersFinite, FS_RemoveElement
  <2>3. Cardinality(Sleepers(l)) \in Nat
    BY SleepersFinite
  <2>4. Accounts(l)'
    BY <1>4, <1>6, <1>8, <1>9, <2>2, <2>3, BucketFacts DEF Accounts, Cap
  <2>5. ASSUME NEW t PROVE Waiting(l, t)' = Waiting(l, t) \ {w}
    <3>1. Sleepers(l) \subseteq Workers
      BY DEF Sleepers
    <3>2. \A v : v \in Waiting(l, t)' <=> v \in Waiting(l, t) \ {w}
      BY <1>11, <2>1, <3>1 DEF Waiting
    <3> QED
      BY <3>2
  <2>6. ASSUME NEW t PROVE /\ Cardinality(Waiting(l, t)) \in Nat /\ Cardinality(Waiting(l, t)') \in Nat
                           /\ Cardinality(Waiting(l, t)') >= Cardinality(Waiting(l, t)) - 1
    <3>1. IsFiniteSet(Waiting(l, t)) /\ Cardinality(Waiting(l, t)) \in Nat
      BY SleepersFinite
    <3>2. CASE w \in Waiting(l, t)
      <4>1. Waiting(l, t)' = Waiting(l, t) \ {w}
        BY <2>5
      <4>2. Cardinality(Waiting(l, t) \ {w}) = Cardinality(Waiting(l, t)) - 1
            /\ IsFiniteSet(Waiting(l, t) \ {w})
        BY <3>1, <3>2, FS_RemoveElement
      <4>3. Cardinality(Waiting(l, t)') = Cardinality(Waiting(l, t)) - 1
        BY <4>1, <4>2, Zenon
      <4>4. Cardinality(Waiting(l, t)') \in Nat
        BY <4>1, <4>2, FS_CardinalityType
      <4> QED
        BY <3>1, <4>3, <4>4
    <3>3. CASE w \notin Waiting(l, t)
      <4>1. Waiting(l, t)' = Waiting(l, t)
        BY <2>5, <3>3
      <4> QED
        BY <3>1, <4>1
    <3> QED
      BY <3>2, <3>3
  <2>7. ASSUME NEW t \in Nat, t >= clock
        PROVE  k + (t - bucket[l].last) * bucket[l].rate + Cardinality(Waiting(l, t)') * Token >= 0
    <3>1. bucket[l].tokens + (t - bucket[l].last) * bucket[l].rate + Cardinality(Waiting(l, t)) * Token >= 0
      BY <1>4, <2>7, BucketFacts DEF Solvent
    <3> QED
      BY <1>4, <1>9, <2>6, <2>7, <3>1, BucketFacts
  <2>8. Solvent(l)'
    BY <1>1, <1>6, <1>8, <2>7 DEF Solvent
  <2>9. Whole(b)
    <3>1. PICK h \in Int, n \in Nat : bucket[l].tokens = h * bucket[l].rate /\ Token = n * bucket[l].rate
      BY <1>4, BucketFacts, Constants DEF Whole
    <3>2. k = (h + n) * bucket[l].rate \/ k = Token * bucket[l].rate
      BY <1>4, <1>9, <3>1, BucketFacts
    <3>3. h + n \in Int /\ Token \in Int
      BY <3>1, Constants
    <3> QED
      BY <1>8, <3>2, <3>3 DEF Whole
  <2> QED
    BY <1>1, <1>4, <1>6, <1>8, <1>9, <2>4, <2>8, <2>9, BucketFacts DEF BucketInv
<1>16. b.tokens <= b.rate * Token
  BY <1>8, <1>9
<1> QED
  BY <1>1, <1>4, <1>6, <1>8, <1>10, <1>11, <1>12, <1>13, <1>14, <1>15, <1>16, BucketStep

\* What reserve leaves in the bucket: the refilled tokens, less one.
LEMMA TakenFacts ==
  ASSUME IInv, NEW l \in Limiters, bucket[l] # None
  PROVE  LET b == Taken(bucket[l])
             r == bucket[l].rate
         IN /\ b \in BucketType /\ b.rate = r /\ b.last = clock /\ b.born = bucket[l].born
            /\ b.started = bucket[l].started
            /\ b.tokens \in Int /\ b.tokens <= r * Token - Token
            /\ b.tokens <= bucket[l].tokens + (clock - bucket[l].last) * r - Token
            /\ \/ b.tokens = bucket[l].tokens + (clock - bucket[l].last) * r - Token
               \/ b.tokens = r * Token - Token
            /\ Whole(b)
<1>1. PICK B \in BucketType : B = bucket[l]
  BY BucketFacts
<1>2. /\ B.rate \in Nat \ {0} /\ B.rate \in Rates /\ B.tokens \in Int /\ B.last \in Nat
      /\ B.born \in Nat /\ B.started \in Nat
      /\ clock \in Nat /\ B.last <= clock /\ Whole(B)
  BY <1>1, BucketFacts
<1>3. PICK k \in Int : k = AtMost(Cap(B), B.tokens + (clock - B.last) * B.rate)
  <2>1. B.tokens + (clock - B.last) * B.rate \in Int /\ B.rate * Token \in Int
    BY <1>2, Constants
  <2> QED
    BY <2>1 DEF AtMost, Cap
<1>4. /\ k <= B.rate * Token /\ k <= B.tokens + (clock - B.last) * B.rate
      /\ k = B.tokens + (clock - B.last) * B.rate \/ k = B.rate * Token
  <2>1. PICK m \in Int, n \in Int : m = B.tokens + (clock - B.last) * B.rate /\ n = B.rate * Token
    BY <1>2, Constants
  <2>2. k = AtMost(n, m)
    BY <1>3, <2>1 DEF Cap
  <2> QED
    BY <2>1, <2>2 DEF AtMost
<1>5. \E m \in Int : k - Token = m * B.rate
  <2>1. PICK h \in Int, n \in Nat : B.tokens = h * B.rate /\ Token = n * B.rate
    BY <1>2, Constants DEF Whole
  <2>2. h + (clock - B.last) - n \in Int /\ Token - n \in Int
    BY <1>2, <2>1, Constants
  <2>3. CASE k = B.tokens + (clock - B.last) * B.rate
    <3>1. k - Token = (h + (clock - B.last) - n) * B.rate
      BY <1>2, <2>1, <2>3
    <3> QED
      BY <2>2, <3>1
  <2>4. CASE k = B.rate * Token
    <3>1. k - Token = (Token - n) * B.rate
      BY <1>2, <2>1, <2>4, Constants
    <3> QED
      BY <2>2, <3>1
  <2> QED
    BY <1>4, <2>3, <2>4
<1>6. Refilled(B) = [B EXCEPT !.tokens = k, !.last = clock]
  BY <1>3 DEF Refilled
<1>7. /\ Refilled(B) \in BucketType /\ Refilled(B).rate = B.rate /\ Refilled(B).tokens = k
      /\ Refilled(B).last = clock /\ Refilled(B).born = B.born /\ Refilled(B).started = B.started
  BY <1>2, <1>6 DEF BucketType
<1>8. Taken(B) = [Refilled(B) EXCEPT !.tokens = k - Token]
  BY <1>7 DEF Taken, BucketType
<1>9. k - Token \in Int
  BY Constants
<1>10. /\ Taken(B) \in BucketType /\ Taken(B).rate = B.rate /\ Taken(B).tokens = k - Token
       /\ Taken(B).last = clock /\ Taken(B).born = B.born /\ Taken(B).started = B.started
  BY <1>7, <1>8, <1>9 DEF BucketType
<1>11. k - Token <= B.rate * Token - Token /\ k - Token <= B.tokens + (clock - B.last) * B.rate - Token
       /\ (k - Token = B.tokens + (clock - B.last) * B.rate - Token \/ k - Token = B.rate * Token - Token)
  <2>1. PICK m \in Int, n \in Int : m = B.tokens + (clock - B.last) * B.rate /\ n = B.rate * Token
    BY <1>2, Constants
  <2>2. k <= n /\ k <= m /\ (k = m \/ k = n)
    BY <1>4, <2>1
  <2>3. k - Token <= n - Token /\ k - Token <= m - Token /\ (k - Token = m - Token \/ k - Token = n - Token)
    BY <2>1, <2>2, Constants
  <2>4. n - Token = B.rate * Token - Token /\ m - Token = B.tokens + (clock - B.last) * B.rate - Token
    BY <1>2, <2>1, Constants
  <2> QED
    BY <2>3, <2>4
<1>12. Whole(Taken(B))
  BY <1>5, <1>10 DEF Whole
<1> QED
  BY <1>1, <1>9, <1>10, <1>11, <1>12

\* A request starts at once: it had a token.
LEMMA StepWaitNot ==
  ASSUME IInv, NEW w \in Workers, Wait(w), Taken(bucket[adapter[w].limiter]).tokens >= 0
  PROVE  IInv'
<1>1. /\ pc[w] = "ready" /\ adapter[w].limiter # 0 /\ UNCHANGED <<pc, wake>>
      /\ UNCHANGED <<row, editVars, registryVars, src, adapter, clock>>
  BY DEF Wait
<1>2. PICK l \in Limiters : l = adapter[w].limiter
  BY <1>1, AtBucket
<1>3. bucket[l] # None /\ \A m \in Limiters \ {l} : w \notin Sleepers(m)
  BY <1>1, <1>2, AtBucket
<1>4. PICK c : c = Taken(bucket[l])
  OBVIOUS
<1>5. /\ c \in BucketType /\ c.rate = bucket[l].rate /\ c.last = clock /\ c.born = bucket[l].born
      /\ c.started = bucket[l].started /\ c.tokens \in Int /\ c.tokens <= bucket[l].rate * Token - Token
      /\ c.tokens <= bucket[l].tokens + (clock - bucket[l].last) * bucket[l].rate - Token
      /\ Whole(c)
  BY <1>3, <1>4, TakenFacts
<1>6. c.tokens >= 0
  BY <1>2, <1>4
<1>7. PICK b : b = Started(c)
  OBVIOUS
<1>8. /\ b \in BucketType /\ b.rate = bucket[l].rate /\ b.tokens = c.tokens
      /\ b.last = clock /\ b.born = bucket[l].born /\ b.started = bucket[l].started + 1
  BY <1>5, <1>7 DEF Started, BucketType
<1>9. bucket' = [bucket EXCEPT ![l] = b] /\ bucket'[l] = b /\ requests' = requests + 1
  BY <1>2, <1>4, <1>6, <1>7 DEF Wait, IInv, TypeOK
<1>10. Sleepers(l)' = Sleepers(l) /\ \A m : Sleepers(m)' = Sleepers(m)
       /\ \A t : Waiting(l, t)' = Waiting(l, t)
  BY <1>1 DEF Sleepers, Waiting
<1>11. Cardinality(Sleepers(l)) \in Nat /\ \A t : Cardinality(Waiting(l, t)) \in Nat
  BY SleepersFinite
<1>12. Cardinality(Sleepers(l)') = Cardinality(Sleepers(l))
       /\ \A t : Cardinality(Waiting(l, t)') = Cardinality(Waiting(l, t))
  BY <1>10, Zenon
<1>13. BucketInv(l)'
  <2>1. Accounts(l)'
    BY <1>3, <1>5, <1>8, <1>9, <1>11, <1>12, BucketFacts DEF Accounts, Cap
  <2>2. ASSUME NEW t \in Nat, t >= clock
        PROVE  b.tokens + (t - clock) * b.rate + Cardinality(Waiting(l, t)') * Token >= 0
    <3>1. (t - clock) * bucket[l].rate >= 0 /\ (t - clock) * bucket[l].rate \in Int
      BY <1>3, <2>2, BucketFacts
    <3>2. PICK n \in Nat : n = Cardinality(Waiting(l, t)')
      BY <1>11, <1>12
    <3>3. n * Token >= 0 /\ n * Token \in Int
      BY Constants
    <3> QED
      BY <1>5, <1>6, <1>8, <3>1, <3>2, <3>3
  <2>3. Solvent(l)'
    BY <1>1, <1>8, <1>9, <2>2 DEF Solvent
  <2>4. bucket[l].born <= clock
    BY <1>3, BucketFacts
  <2>5. clock <= clock
    BY <1>3, BucketFacts
  <2>6. Whole(b)
    BY <1>5, <1>8 DEF Whole
  <2> QED
    BY <1>1, <1>5, <1>8, <1>9, <2>1, <2>3, <2>4, <2>5, <2>6 DEF BucketInv
<1>14. WorkerInv(w)'
  <2>1. WorkerInv(w) /\ TypeOK /\ stamped' = stamped /\ b # None
    BY <1>1, <1>8, NoneAssumption DEF IInv, editVars
  <2>2. BucketsKept
    BY <1>8, <1>9, <2>1 DEF BucketsKept, TypeOK
  <2> QED
    BY <1>1, <2>1, <2>2, WorkerFrame
<1>15. b.tokens <= b.rate * Token
  BY <1>3, <1>5, <1>8, BucketFacts
<1>16. TypeOK /\ \A m \in Limiters \ {l} : w \notin Sleepers(m)'
  BY <1>3, <1>10 DEF IInv
<1> QED
  BY <1>1, <1>3, <1>8, <1>9, <1>13, <1>14, <1>15, <1>16, BucketStep DEF TypeOK

\* A request sleeps until the debt, its own token included, is paid: no sooner, no later.
LEMMA StepWaitSleep ==
  ASSUME IInv, NEW w \in Workers, Wait(w), ~ (Taken(bucket[adapter[w].limiter]).tokens >= 0)
  PROVE  IInv'
<1>1. /\ pc[w] = "ready" /\ adapter[w].limiter # 0 /\ pc' = [pc EXCEPT ![w] = "sleep"]
      /\ UNCHANGED <<row, editVars, registryVars, src, adapter, clock>>
  BY DEF Wait
<1>2. PICK l \in Limiters : l = adapter[w].limiter
  BY <1>1, AtBucket
<1>3. /\ bucket[l] # None /\ adapter[w] # None
      /\ \A m \in Limiters \ {l} : w \notin Sleepers(m)
  BY <1>1, <1>2, AtBucket
<1>4. PICK b : b = Taken(bucket[l])
  OBVIOUS
<1>5. /\ b \in BucketType /\ b.rate = bucket[l].rate /\ b.last = clock /\ b.born = bucket[l].born
      /\ b.started = bucket[l].started /\ b.tokens \in Int /\ b.tokens <= bucket[l].rate * Token - Token
      /\ \/ b.tokens = bucket[l].tokens + (clock - bucket[l].last) * bucket[l].rate - Token
         \/ b.tokens = bucket[l].rate * Token - Token
      /\ Whole(b)
  BY <1>3, <1>4, TakenFacts
<1>6. b.tokens < 0
  BY <1>2, <1>4, <1>5
<1>7. b.tokens = bucket[l].tokens + (clock - bucket[l].last) * bucket[l].rate - Token
  BY <1>3, <1>5, <1>6, BucketFacts
<1>8. PICK u \in Nat : u = clock + (-b.tokens) \div b.rate /\ (u - clock) * b.rate = -b.tokens
                       /\ u > clock
  <2>1. PICK k \in Int : b.tokens = k * b.rate
    BY <1>5 DEF Whole
  <2>2. b.rate \in Nat \ {0} /\ clock \in Nat
    BY <1>3, <1>5, BucketFacts
  <2>3. k < 0
    BY <1>6, <2>1, <2>2
  <2>4. PICK h \in Nat : h = - k /\ h > 0
    BY <2>3
  <2>5. -b.tokens = h * b.rate
    BY <2>1, <2>2, <2>4
  <2>6. (-b.tokens) \div b.rate = h
    BY <2>2, <2>5, ExactDivision
  <2> QED
    BY <2>2, <2>4, <2>5, <2>6
<1>9. /\ bucket' = [bucket EXCEPT ![l] = b] /\ bucket'[l] = b
      /\ wake' = [wake EXCEPT ![w] = u] /\ requests' = requests
  BY <1>2, <1>4, <1>6, <1>8 DEF Wait, IInv, TypeOK
<1>10. /\ pc' \in [Workers -> {"idle", "lookup", "limiter", "build", "ready", "sleep"}]
       /\ pc'[w] = "sleep" /\ \A v \in Workers \ {w} : pc'[v] = pc[v]
  BY <1>1 DEF IInv, TypeOK
<1>11. wake' \in [Workers -> Nat] /\ wake'[w] = u /\ \A v \in Workers \ {w} : wake'[v] = wake[v]
  BY <1>9 DEF IInv, TypeOK
<1>12. w \notin Sleepers(l) /\ Sleepers(l) \subseteq Workers /\ Sleepers(l)' = Sleepers(l) \cup {w}
  BY <1>1, <1>2, <1>10 DEF Sleepers
<1>13. Cardinality(Sleepers(l)) \in Nat /\ Cardinality(Sleepers(l)') = Cardinality(Sleepers(l)) + 1
  <2>1. IsFiniteSet(Sleepers(l)) /\ Cardinality(Sleepers(l)) \in Nat
    BY SleepersFinite
  <2>2. Cardinality(Sleepers(l) \cup {w}) = Cardinality(Sleepers(l)) + 1
    BY <1>12, <2>1, FS_AddElement
  <2> QED
    BY <1>12, <2>1, <2>2
<1>14. BucketInv(l)'
  <2>1. Accounts(l)'
    BY <1>3, <1>5, <1>7, <1>9, <1>13, BucketFacts DEF Accounts, Cap
  <2>2. ASSUME NEW t \in Nat, t >= clock
        PROVE  b.tokens + (t - clock) * b.rate + Cardinality(Waiting(l, t)') * Token >= 0
    <3>1. IsFiniteSet(Waiting(l, t)) /\ Cardinality(Waiting(l, t)) \in Nat
      BY SleepersFinite
    <3>2. CASE t < u
      <4>1. w \notin Waiting(l, t)
        BY <1>12 DEF Waiting
      <4>2. \A v : v \in Waiting(l, t)' <=> v \in Waiting(l, t) \cup {w}
        BY <1>8, <1>11, <1>12, <3>2 DEF Waiting
      <4>3. Waiting(l, t)' = Waiting(l, t) \cup {w}
        BY <4>2
      <4>4. Cardinality(Waiting(l, t) \cup {w}) = Cardinality(Waiting(l, t)) + 1
        BY <3>1, <4>1, FS_AddElement
      <4>5. Cardinality(Waiting(l, t)') = Cardinality(Waiting(l, t)) + 1
        BY <4>3, <4>4, Zenon
      <4>6. bucket[l].tokens + (t - bucket[l].last) * bucket[l].rate + Cardinality(Waiting(l, t)) * Token >= 0
        BY <1>3, <2>2, BucketFacts DEF Solvent
      <4> QED
        BY <1>3, <1>5, <1>7, <2>2, <3>1, <4>5, <4>6, BucketFacts
    <3>3. CASE ~ (t < u)
      <4>1. \A v : v \in Waiting(l, t)' <=> v \in Waiting(l, t)
        BY <1>8, <1>11, <1>12, <3>3 DEF Waiting
      <4>2. Waiting(l, t)' = Waiting(l, t)
        BY <4>1
      <4>3. Cardinality(Waiting(l, t)') \in Nat
        BY <3>1, <4>2, Zenon
      <4>4. PICK n \in Nat : n = Cardinality(Waiting(l, t)')
        BY <4>3
      <4>5. clock \in Int /\ b.rate \in Nat \ {0} /\ t \in Int /\ u \in Int /\ t >= u
        BY <1>3, <1>5, <3>3, BucketFacts
      <4>6. b.tokens + (t - clock) * b.rate >= 0 /\ b.tokens + (t - clock) * b.rate \in Int
        BY <1>5, <1>8, <4>5, PaidBy
      <4>7. n * Token >= 0 /\ n * Token \in Int
        BY Constants
      <4> QED
        BY <4>4, <4>6, <4>7
    <3> QED
      BY <3>2, <3>3
  <2>3. Solvent(l)'
    BY <1>1, <1>5, <1>9, <2>2 DEF Solvent
  <2>4. bucket[l].born <= clock /\ clock <= clock
    BY <1>3, BucketFacts
  <2> QED
    BY <1>1, <1>5, <1>9, <2>1, <2>3, <2>4 DEF BucketInv
<1>15. b # None
  BY <1>5, NoneAssumption
<1>16. WorkerInv(w)'
  <2>1. WorkerInv(w) /\ stamped' = stamped
    BY <1>1 DEF IInv, editVars
  <2>2. Ambiguous(src[w].stamp) => Ambiguous(src[w].stamp)'
    BY <1>1, <2>1 DEF Ambiguous
  <2> QED
    BY <1>1, <1>2, <1>3, <1>5, <1>9, <1>10, <1>15, <2>1, <2>2 DEF WorkerInv
<1>17. b.tokens <= b.rate * Token
  BY <1>3, <1>5, BucketFacts
<1>18. \A m \in Limiters \ {l} : w \notin Sleepers(m)'
  BY <1>1, <1>2 DEF Sleepers
<1>19. src' \in [Workers -> SourceType \cup {None}] /\ adapter' \in [Workers -> AdapterType \cup {None}]
  BY <1>1 DEF IInv, TypeOK
<1> QED
  BY <1>1, <1>3, <1>5, <1>9, <1>10, <1>11, <1>14, <1>16, <1>17, <1>18, <1>19, BucketStep

-----------------------------------------------------------------------------
(* The theorems                                                            *)

LEMMA StepIInv == IInv /\ [Next]_vars => IInv'
<1> SUFFICES ASSUME IInv, [Next]_vars PROVE IInv'
  OBVIOUS
<1>1. ASSUME NEW rate \in Rates, NEW stamp \in Stamps, CreateSource(rate, stamp) PROVE IInv'
  BY <1>1, StepCreate
<1>2. ASSUME NEW a \in Admins, NEW rate \in Rates, NEW stamp \in Stamps,
             UpdateRateLimit(a, rate, stamp)
      PROVE  IInv'
  BY <1>2, StepUpdateRateLimit
<1>3. ASSUME NEW a \in Admins, NEW on \in BOOLEAN, NEW stamp \in Stamps, SetEnabled(a, on, stamp)
      PROVE  IInv'
  BY <1>3, StepSetEnabled
<1>4. ASSUME NEW a \in Admins, Put(a) \/ PutFails(a) PROVE IInv'
  BY <1>4, StepPut, StepPutFails
<1>5. CASE DeleteSource \/ Register \/ Tick
  BY <1>5, StepDelete, StepRegister, StepTick
<1>6. ASSUME NEW w \in Workers,
             ReadSource(w) \/ Lookup(w) \/ LimiterFor(w) \/ Store(w) \/ Leave(w)
      PROVE  IInv'
  BY <1>6, StepReadSource, StepLookup, StepLimiterFor, StepStore, StepLeave
<1>7. ASSUME NEW w \in Workers, Wait(w) \/ Fire(w) \/ Cancel(w) PROVE IInv'
  BY <1>7, StepWaitNot, StepWaitSleep, StepFire, StepCancel
<1>8. CASE UNCHANGED vars
  <2>1. /\ UNCHANGED <<row, edit, edits, stamped, cache, current, bucket>>
        /\ UNCHANGED <<pc, src, adapter, wake, clock, requests>>
    BY <1>8 DEF vars, editVars, registryVars, workVars, timeVars
  <2>2. UNCHANGED <<registryVars, workVars, timeVars>>
    BY <2>1 DEF registryVars, workVars, timeVars
  <2>3. RowInv'
    BY <2>1 DEF IInv, RowInv
  <2> QED
    BY <2>1, <2>2, <2>3, EditStep DEF IInv, TypeOK
<1> QED
  BY <1>1, <1>2, <1>3, <1>4, <1>5, <1>6, <1>7, <1>8 DEF Next

LEMMA InvariantHolds == Spec => []IInv
BY InitIInv, StepIInv, PTL DEF Spec

\* The configuration, the registry and the buckets keep their types, whatever the number of
\* callers and workers; a bucket never holds more than its burst, and the source's bucket exists.
THEOREM SourceTypeCorrect == Spec => []TypeOK
<1>1. IInv => TypeOK
  BY DEF IInv
<1> QED
  BY <1>1, InvariantHolds, PTL

\* The adapter that Resolve returns, cached or built, fits the row it was called with, and its
\* bucket has the adapter's rate, unless two configurations got the same updated_at.
THEOREM SourceAdapterMatches == Spec => []AdapterMatchesSource
<1>1. IInv => AdapterMatchesSource
  BY DEF IInv, WorkerInv, AdapterMatchesSource
<1> QED
  BY <1>1, InvariantHolds, PTL

LEMMA BucketBound ==
  ASSUME IInv, NEW l \in Limiters, bucket[l] # None
  PROVE  bucket[l].started * Token
           <= Cap(bucket[l]) + (clock - bucket[l].born) * bucket[l].rate
<1>1. /\ Cardinality(Sleepers(l)) \in Nat /\ Cardinality(Waiting(l, clock)) \in Nat
      /\ Cardinality(Waiting(l, clock)) <= Cardinality(Sleepers(l))
  BY SleepersFinite
<1>2. clock \in Nat
  BY BucketFacts
<1>3. bucket[l].tokens + (clock - bucket[l].last) * bucket[l].rate
        + Cardinality(Waiting(l, clock)) * Token >= 0
  BY <1>2, BucketFacts DEF Solvent
<1> QED
  BY <1>1, <1>2, <1>3, BucketFacts DEF Accounts, Cap

\* However many workers share a bucket, sleep at it, are cancelled and come back: no more
\* requests start than the burst and the rate since the bucket was made allow.
THEOREM SourceRateBounded == Spec => []RateBounded
<1>1. IInv => RateBounded
  BY BucketBound DEF RateBounded
<1> QED
  BY <1>1, InvariantHolds, PTL

\* However often limiterFor is called, in whatever order resolves, edits, deletions and
\* re-creations come: while the rate is not changed, the requests of all adapters together
\* keep to it, with one burst.
THEOREM SourceKeepsRate == Spec => []SourceRateKept
<1>1. IInv => SourceRateKept
  <2> SUFFICES ASSUME IInv, NEW r \in Rates, OneRate(r)
               PROVE  requests * Token <= r * Token + clock * r
    BY DEF SourceRateKept, OneRate
  <2>1. clock \in Nat /\ Token \in Nat \ {0} /\ r \in Nat \ {0} /\ current \in 0 .. MaxLimiters
    BY Constants DEF IInv, TypeOK
  <2>2. r * Token \in Nat /\ clock * r \in Nat
    BY <2>1
  <2>3. CASE current = 0
    <3>1. requests = 0
      BY <2>3 DEF IInv, RequestInv
    <3> QED
      BY <2>1, <2>2, <3>1
  <2>4. CASE current # 0
    <3>1. PICK l \in Limiters : l = current /\ bucket[l] # None
      BY <2>1, <2>4 DEF IInv, TypeOK, Limiters
    <3>2. bucket[l].rate = r /\ requests = bucket[l].started
      BY <3>1 DEF IInv, RequestInv
    <3>3. PICK n \in Nat, b \in Nat : n = bucket[l].started /\ b = bucket[l].born
      BY <3>1, BucketFacts
    <3>4. n * Token <= r * Token + (clock - b) * r
      BY <3>1, <3>2, <3>3, BucketBound DEF Cap
    <3>5. (clock - b) * r <= clock * r
      BY <2>1, <3>3
    <3> QED
      BY <2>1, <3>2, <3>3, <3>4, <3>5
  <2> QED
    BY <2>3, <2>4
<1> QED
  BY <1>1, InvariantHolds, PTL

=============================================================================

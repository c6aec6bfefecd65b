----------------------------- MODULE SourceConfig -----------------------------
(***************************************************************************)
(* One configured source: the service calls that edit its row, the         *)
(* registry that caches the adapter built from it, and the token bucket    *)
(* that the source's adapters share.                                       *)
(*                                                                         *)
(* An edit reads the row and later writes all of it back. A resolve looks  *)
(* into the cache under the read lock, builds outside of it and stores     *)
(* under the write lock. Both take their time; anything may happen in      *)
(* between. The rate stands for all of the configuration an adapter is     *)
(* built from.                                                             *)
(*                                                                         *)
(* A second has so many ticks, and a token as many parts, that each rate   *)
(* divides them: a tick adds a rate's number of parts, and a debt is paid  *)
(* at a tick.                                                              *)
(***************************************************************************)
EXTENDS Integers, FiniteSets

CONSTANTS
  Admins,            \* callers of the source service
  Workers,           \* callers of Registry.Resolve and of the adapters' Fetch
  Rates,             \* rate_limit values, in tokens a second
  TicksPerSecond,
  MaxStamp,          \* bound: readings of the hosts' clocks that become updated_at
  MaxEdits,          \* bound: service calls
  MaxClock,          \* bound: ticks
  MaxLimiters,       \* bound: buckets created
  None

ASSUME BoundsAssumption == {MaxEdits, MaxClock, MaxLimiters} \subseteq Nat /\ MaxStamp \in Nat \ {0}
ASSUME RatesAssumption ==
  /\ TicksPerSecond \in Nat \ {0}
  /\ \A r \in Rates : r \in Nat \ {0} /\ r # None /\ \E k \in 1 .. TicksPerSecond : TicksPerSecond = k * r
ASSUME WorkersAssumption == IsFiniteSet(Workers)

VARIABLES
  \* sources
  row,               \* [rate, enabled, stamp], or None
  \* service calls between FindByID and Save
  edit,              \* of each admin: the changed copy of the row, or None
  \* Registry
  cache,             \* r.adapters: [adapter, stamp], or None; stamp 0 is a registered one
  current,           \* r.limiters: the bucket of the source, or 0
  bucket,            \* every bucket that was made
  \* resolves and fetches
  pc,
  src,               \* [rate, stamp] of the row the worker was given
  adapter,           \* [rate, limiter] it got
  wake,              \* when its timer fires
  clock,
  \* history
  edits,
  stamped,           \* every [rate, stamp] the row ever had
  requests           \* that were started, over all buckets

editVars == <<edit, edits, stamped>>
registryVars == <<cache, current>>
workVars == <<pc, src, adapter, wake>>
timeVars == <<bucket, clock, requests>>
vars == <<row, editVars, registryVars, workVars, timeVars>>

\* The parts of a token.
Token == TicksPerSecond
Stamps == 1 .. MaxStamp
Limiters == 1 .. MaxLimiters
RowType == [rate : Rates, enabled : BOOLEAN, stamp : Stamps]
SourceType == [rate : Rates, stamp : Stamps]
AdapterType == [rate : Rates \cup {None}, limiter : 0 .. MaxLimiters]
CacheType == [adapter : AdapterType, stamp : 0 .. MaxStamp]
BucketType == [rate : Rates, tokens : Int, last : Nat, born : Nat, started : Nat]

ASSUME NoneAssumption ==
  /\ None \notin RowType /\ None \notin SourceType /\ None \notin AdapterType
  /\ None \notin CacheType /\ None \notin BucketType

TypeOK ==
  /\ row \in RowType \cup {None}
  /\ edit \in [Admins -> RowType \cup {None}]
  /\ edits \in 0 .. MaxEdits
  /\ stamped \subseteq SourceType
  /\ cache \in CacheType \cup {None}
  /\ current \in 0 .. MaxLimiters
  /\ bucket \in [Limiters -> BucketType \cup {None}]
  /\ \A l \in Limiters : bucket[l] # None => bucket[l].tokens <= bucket[l].rate * Token
  /\ (current # 0 => bucket[current] # None)
  /\ pc \in [Workers -> {"idle", "lookup", "limiter", "build", "ready", "sleep"}]
  /\ src \in [Workers -> SourceType \cup {None}]
  /\ adapter \in [Workers -> AdapterType \cup {None}]
  /\ wake \in [Workers -> Nat]
  /\ clock \in 0 .. MaxClock /\ requests \in Nat

\* There is a source, new and enabled; it may be deleted before anything else happens.
Init ==
  /\ row \in [rate : Rates, enabled : {TRUE}, stamp : {1}]
  /\ edit = [a \in Admins |-> None]
  /\ edits = 0
  /\ stamped = {[rate |-> row.rate, stamp |-> row.stamp]}
  /\ cache = None /\ current = 0
  /\ bucket = [l \in Limiters |-> None]
  /\ pc = [w \in Workers |-> "idle"]
  /\ src = [w \in Workers |-> None]
  /\ adapter = [w \in Workers |-> None]
  /\ wake = [w \in Workers |-> 0]
  /\ clock = 0 /\ requests = 0

-----------------------------------------------------------------------------
(* The service                                                             *)

\* Bug: the zero time is not refused.
SaveUnstamped(r) ==
  row' = [r EXCEPT !.stamp = 0] /\ stamped' = stamped \cup {[rate |-> r.rate, stamp |-> r.stamp]}

\* UpsertSource: the whole row, whether it is there or not.
Save(r) == row' = r /\ stamped' = stamped \cup {[rate |-> r.rate, stamp |-> r.stamp]}

\* CreateSource, also over a source that exists: enabled.
CreateSource(rate, now) ==
  /\ edits < MaxEdits
  /\ edits' = edits + 1
  /\ Save([rate |-> rate, enabled |-> TRUE, stamp |-> now])
  /\ UNCHANGED <<edit, registryVars, workVars, timeVars>>

Get(a, copy) ==
  /\ edits < MaxEdits
  /\ edit[a] = None
  /\ edits' = edits + 1
  /\ edit' = [edit EXCEPT ![a] = copy]
  /\ UNCHANGED <<row, stamped, registryVars, workVars, timeVars>>

\* UpdateRateLimit: read, change and stamp the copy.
UpdateRateLimit(a, rate, now) ==
  row # None /\ Get(a, [row EXCEPT !.rate = rate, !.stamp = now])

SetEnabled(a, on, now) ==
  row # None /\ Get(a, [row EXCEPT !.enabled = on, !.stamp = now])

\* ... and save all of it, over what others have written since, or where the row was
\* deleted.
Put(a) ==
  /\ edit[a] # None
  /\ Save(edit[a])
  /\ edit' = [edit EXCEPT ![a] = None]
  /\ UNCHANGED <<edits, registryVars, workVars, timeVars>>

PutFails(a) ==
  /\ edit[a] # None
  /\ edit' = [edit EXCEPT ![a] = None]
  /\ UNCHANGED <<row, edits, stamped, registryVars, workVars, timeVars>>

\* A source that a run or a record references is not deleted (ErrSourceInUse).
DeleteSource ==
  /\ row # None
  /\ row' = None
  /\ UNCHANGED <<edit, edits, stamped, registryVars, workVars, timeVars>>

-----------------------------------------------------------------------------
(* Registry                                                                *)

Enter(w, l, s, ad) ==
  /\ pc' = [pc EXCEPT ![w] = l]
  /\ src' = [src EXCEPT ![w] = s]
  /\ adapter' = [adapter EXCEPT ![w] = ad]

\* The caller reads the source it will resolve.
ReadSource(w) ==
  /\ pc[w] = "idle" /\ row # None
  /\ Enter(w, "lookup", [rate |-> row.rate, stamp |-> row.stamp], None)
  /\ UNCHANGED <<row, editVars, registryVars, wake, timeVars>>

\* An adapter for tests or a special source, in place of any other: no stamp, no limiter
\* of the registry.
Register ==
  /\ cache' = [adapter |-> [rate |-> None, limiter |-> 0], stamp |-> 0]
  /\ UNCHANGED <<row, editVars, current, workVars, timeVars>>

\* Bug: an entry is good as long as it is not older than the source.
UsableIfNewer(s) == cache # None /\ (cache.stamp = 0 \/ cache.stamp >= s.stamp)

\* Resolve, under the read lock: registered, or built from a row of this updated_at.
Usable(s) == cache # None /\ (cache.stamp = 0 \/ cache.stamp = s.stamp)

Lookup(w) ==
  /\ pc[w] = "lookup"
  /\ IF Usable(src[w]) THEN Enter(w, "ready", src[w], cache.adapter)
     ELSE Enter(w, "limiter", src[w], None)
  /\ UNCHANGED <<row, editVars, registryVars, wake, timeVars>>

\* NewTokenBucketLimiter(rate, rate): full.
FullBucket(rate) ==
  [rate |-> rate, tokens |-> rate * Token, last |-> clock, born |-> clock, started |-> 0]

Fresh(l) == bucket[l] = None /\ \A m \in 1 .. l - 1 : bucket[m] # None

\* Bug: every adapter is built with a bucket of its own.
LimiterForAdapter(w) ==
  /\ pc[w] = "limiter"
  /\ \E l \in Limiters :
       /\ Fresh(l) /\ bucket' = [bucket EXCEPT ![l] = FullBucket(src[w].rate)]
       /\ current' = l
       /\ Enter(w, "build", src[w], [rate |-> src[w].rate, limiter |-> l])
  /\ UNCHANGED <<row, editVars, cache, wake, clock, requests>>

\* limiterFor: the source's bucket, or a new one in its place when the rate differs.
LimiterFor(w) ==
  LET s == src[w]
      same == current # 0 /\ bucket[current].rate = s.rate
  IN /\ pc[w] = "limiter"
     /\ \E l \in Limiters :
          /\ IF same THEN l = current /\ UNCHANGED bucket
             ELSE Fresh(l) /\ bucket' = [bucket EXCEPT ![l] = FullBucket(s.rate)]
          /\ current' = l
          /\ Enter(w, "build", s, [rate |-> s.rate, limiter |-> l])
     /\ UNCHANGED <<row, editVars, cache, wake, clock, requests>>

\* The rest of the build, and the store under the write lock.
Store(w) ==
  /\ pc[w] = "build"
  /\ cache' = [adapter |-> adapter[w], stamp |-> src[w].stamp]
  /\ Enter(w, "ready", src[w], adapter[w])
  /\ UNCHANGED <<row, editVars, current, wake, timeVars>>

\* A credential is not found: nothing is stored. Also: the worker is done.
Leave(w) ==
  /\ pc[w] \in {"build", "ready"}
  /\ Enter(w, "idle", None, None)
  /\ UNCHANGED <<row, editVars, registryVars, wake, timeVars>>

-----------------------------------------------------------------------------
(* TokenBucketLimiter                                                      *)

AtMost(a, b) == IF a < b THEN a ELSE b

Cap(b) == b.rate * Token

Refilled(b) == [b EXCEPT !.tokens = AtMost(Cap(b), @ + (clock - b.last) * b.rate),
                         !.last = clock]

Started(b) == [b EXCEPT !.started = @ + 1]

\* Bug: a debt is forgotten, every caller waits only for its own token.
TakenNoDebt(b) ==
  LET t == Refilled(b).tokens IN [Refilled(b) EXCEPT !.tokens = (IF t > 0 THEN t ELSE 0) - Token]

\* reserve: refill, take a token, go into debt if there is none.
Taken(b) == [Refilled(b) EXCEPT !.tokens = @ - Token]

\* Fetch: a request starts at once, or when the debt is paid.
Wait(w) ==
  LET l == adapter[w].limiter
      b == Taken(bucket[l])
  IN /\ pc[w] = "ready" /\ l # 0
     /\ IF b.tokens >= 0
        THEN /\ bucket' = [bucket EXCEPT ![l] = Started(b)]
             /\ requests' = requests + 1
             /\ UNCHANGED <<pc, wake>>
        ELSE /\ bucket' = [bucket EXCEPT ![l] = b]
             /\ UNCHANGED requests
             /\ wake' = [wake EXCEPT ![w] = clock + (-b.tokens) \div b.rate]
             /\ pc' = [pc EXCEPT ![w] = "sleep"]
     /\ UNCHANGED <<row, editVars, registryVars, src, adapter, clock>>

Fire(w) ==
  /\ pc[w] = "sleep" /\ clock >= wake[w]
  /\ bucket' = [bucket EXCEPT ![adapter[w].limiter] = Started(@)]
  /\ requests' = requests + 1
  /\ pc' = [pc EXCEPT ![w] = "ready"]
  /\ wake' = [wake EXCEPT ![w] = 0]
  /\ UNCHANGED <<row, editVars, registryVars, src, adapter, clock>>

\* The context ends first: the token goes back, the request is not made.
Cancel(w) ==
  /\ pc[w] = "sleep"
  /\ bucket' = [bucket EXCEPT ![adapter[w].limiter].tokens =
                  AtMost(Cap(bucket[adapter[w].limiter]), @ + Token)]
  /\ Enter(w, "idle", None, None)
  /\ wake' = [wake EXCEPT ![w] = 0]
  /\ UNCHANGED <<row, editVars, registryVars, clock, requests>>

Tick ==
  /\ clock < MaxClock
  /\ clock' = clock + 1
  /\ UNCHANGED <<row, editVars, registryVars, workVars, bucket, requests>>

-----------------------------------------------------------------------------

Next ==
  \/ \E rate \in Rates, now \in Stamps : CreateSource(rate, now)
  \/ \E a \in Admins, now \in Stamps : \/ \E rate \in Rates : UpdateRateLimit(a, rate, now)
                                       \/ \E on \in BOOLEAN : SetEnabled(a, on, now)
  \/ \E a \in Admins : Put(a) \/ PutFails(a)
  \/ DeleteSource \/ Register \/ Tick
  \/ \E w \in Workers : \/ ReadSource(w) \/ Lookup(w) \/ LimiterFor(w) \/ Store(w) \/ Leave(w)
                        \/ Wait(w) \/ Fire(w) \/ Cancel(w)

Spec == Init /\ [][Next]_vars

-----------------------------------------------------------------------------
(* Properties                                                              *)

\* Two rows of one updated_at with different configurations: clocks that stood still.
Ambiguous(t) == \E r, s \in stamped : r.stamp = t /\ s.stamp = t /\ r # s

\* However resolves of older and newer rows of the source cross, an adapter is built from
\* the row its caller passed and draws on a bucket of that row's rate, unless the clocks
\* gave two configurations one updated_at; a bucket is never shared across rates.
AdapterMatchesSource ==
  \A w \in Workers :
    adapter[w] # None /\ adapter[w].limiter # 0 =>
      /\ bucket[adapter[w].limiter].rate = adapter[w].rate
      /\ adapter[w].rate = src[w].rate \/ Ambiguous(src[w].stamp)

\* A bucket never lets more requests through than its burst and what its rate has added
\* since it was made, whoever waits, gives up and comes back in between.
RateBounded ==
  \A l \in Limiters : bucket[l] # None =>
    bucket[l].started * Token <= Cap(bucket[l]) + (clock - bucket[l].born) * bucket[l].rate

\* The supplier's limit: as long as nobody gave the source another rate, all requests to
\* it through the registry keep to its rate and one burst, although each edit of the
\* source has its adapter built anew, resolves race, and adapters of older rows, cached,
\* replaced or in use, go on. (When the rate is changed, old buckets are drawn on beside
\* the new one for as long as there are adapters of older rows.)
SourceRateKept ==
  \A r \in Rates : (\A s \in stamped : s.rate = r) =>
    requests * Token <= r * Token + clock * r

=============================================================================

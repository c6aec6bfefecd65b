------------------------ MODULE IngestionSyncProofs ------------------------
(***************************************************************************)
(* For any number of syncs, operators, runs and rows, any page size, and   *)
(* any answer of the adapters: IngestionSync is type correct, a checkpoint *)
(* is backed by saved rows, a queued run is final and whole, one caller    *)
(* drives a run, and it is known how a RUNNING run can be left undriven.   *)
(*                                                                         *)
(* The argument: a run is created under a new number and by one sync, and  *)
(* at most one is RUNNING (RunInv). What it has saved are the sound rows   *)
(* of one interval behind its start, which covers its checkpoint           *)
(* (ExtentInv); while it is RUNNING its driver's position is the end of    *)
(* that interval, or the interval is the whole rest of the feed and the    *)
(* driver is about to complete it (DriverInv). An answer of any adapter    *)
(* extends the interval without a gap (AnswerShape). A transition was      *)
(* read from a RUNNING run and takes effect only while it still is         *)
(* (FoundInv). A run that no sync was given is nobody's to feed or to      *)
(* complete (UnclaimedInv).                                                *)
(***************************************************************************)
EXTENDS IngestionSync, FiniteSetTheorems, WellFoundedInduction, TLAPS

\* Exactly the rows behind r's start and up to p were handled.
Reached(r, p) ==
  /\ saved[r] = (from[r] + 1 .. p) \cap Sound
  /\ failed[r] = Cardinality((from[r] + 1 .. p) \cap Malformed)

\* Runs are numbered without gaps, a run is driven by the sync that created it, and one
\* at most is RUNNING.
RunInv ==
  /\ \E n \in 0 .. MaxRuns : Created = 1 .. n
  /\ \A s, u \in Syncs : run[s] # NoRun /\ run[s] = run[u] => s = u
  /\ \A r, q \in Runs : status[r] = "RUNNING" /\ status[q] = "RUNNING" => r = q

\* What a run has saved is an interval of the feed, which covers its checkpoint.
ExtentInv ==
  \A r \in Runs :
    /\ status[r] = "ABSENT" =>
         from[r] = 0 /\ checkpoint[r] = 0 /\ saved[r] = {} /\ failed[r] = 0
    /\ from[r] <= checkpoint[r]
    /\ \E p \in checkpoint[r] .. FeedLength : Reached(r, p)

\* A call is about a run that was created. Only syncs feed and complete one.
CallInv(a) ==
  /\ pc[a] \in {"idle", "create"} => run[a] = NoRun
  /\ pc[a] \in {"fetch", "persist", "find", "update"} => run[a] \in Created
  /\ pc[a] \in {"fetch", "persist"} => a \in Syncs
  /\ pc[a] \in {"find", "update"} => goal[a] # "none" /\ (goal[a] = "complete" => a \in Syncs)

\* The driver of a RUNNING run stands at its checkpoint and at the end of what it saved,
\* or has seen the end of the feed.
DriverInv(a) ==
  run[a] # NoRun /\ status[run[a]] = "RUNNING" =>
    /\ pc[a] \in {"fetch", "persist"} => checkpoint[run[a]] = at[a] /\ Reached(run[a], at[a])
    /\ pc[a] \in {"find", "update"} /\ goal[a] = "complete" =>
         checkpoint[run[a]] = at[a] /\ Reached(run[a], FeedLength)

\* What a transition read of its run, which was RUNNING then.
FoundInv(a) ==
  pc[a] = "update" =>
    /\ found[a].status = "RUNNING"
    /\ from[run[a]] <= found[a].checkpoint
    /\ status[run[a]] = "RUNNING" =>
         /\ found[a].checkpoint <= checkpoint[run[a]]
         /\ goal[a] = "complete" => found[a].failed = failed[run[a]]

ActorInv(a) == CallInv(a) /\ DriverInv(a) /\ FoundInv(a)

\* A RUNNING run is driven, or it is known why not.
Accounted ==
  \A r \in Runs : status[r] = "RUNNING" =>
    (\E s \in Syncs : run[s] = r) \/ r \in abandoned \cup unclaimed

\* A run that no sync was given has not moved, and no sync will take it up.
UnclaimedInv ==
  \A r \in unclaimed :
    /\ r \in Created /\ \A s \in Syncs : run[s] # r
    /\ saved[r] = {} /\ checkpoint[r] = from[r] /\ r \notin queued

IInv == /\ TypeOK /\ RunInv /\ ExtentInv
        /\ \A a \in Actors : ActorInv(a)
        /\ QueuedIsFinal /\ Accounted /\ UnclaimedInv

-----------------------------------------------------------------------------
(* What the adapters answer                                                *)

\* A set of numbers has a least one: the operator Min is what it is called.
LEMMA MinOfSet ==
  ASSUME NEW S \in SUBSET Nat, S # {}
  PROVE  Min(S) \in S /\ \A y \in S : Min(S) <= y
<1> DEFINE R == OpToRel(<, Nat)
<1>1. \E x \in S : \A y \in S : ~(<<y, x>> \in R)
  BY NatLessThanWellFounded, WFMin
<1>2. \A x, y \in Nat : <<y, x>> \in R <=> y < x
  BY DEF OpToRel
<1> HIDE DEF R
<1>3. \A x, y \in S : ~(<<y, x>> \in R) => x <= y
  BY <1>2
<1>4. \E x \in S : \A y \in S : x <= y
  BY <1>1, <1>3
<1> QED
  BY <1>4 DEF Min

\* An answer at c covers the rows behind c up to some p, and goes on behind p or is over.
Covers(ans, c, p) ==
  /\ ans.rows = c + 1 .. p
  /\ \/ ans.next = p /\ p # 0
     \/ ans.next = 0 /\ p = FeedLength

LEMMA UptoCovers ==
  ASSUME NEW c \in Positions, NEW p \in Positions, p > c
  PROVE  Covers(Upto(c, p, p), c, p)
<1>1. c \in Nat /\ p \in Nat /\ p # 0
  BY FeedAssumption DEF Positions
<1>2. \A x : x \in Behind(c, 1 .. p) <=> x \in c + 1 .. p
  BY <1>1 DEF Behind
<1>3. Behind(c, 1 .. p) = c + 1 .. p
  BY <1>2, Zenon
<1> QED
  BY <1>1, <1>3 DEF Covers, Upto

LEMMA ToTheEndCovers ==
  ASSUME NEW c \in Positions
  PROVE  Covers(ToTheEnd(c), c, FeedLength)
<1>1. c \in Nat /\ FeedLength \in Nat
  BY FeedAssumption DEF Positions
<1>2. Behind(c, 1 .. FeedLength) = c + 1 .. FeedLength
  BY <1>1 DEF Behind
<1> QED
  BY <1>1, <1>2 DEF Covers, Upto, ToTheEnd

\* The place where a feed file's batch is full is a row behind the checkpoint.
LEMMA FullPosition ==
  ASSUME NEW c \in Positions, FullAt(c) # {}
  PROVE  Min(FullAt(c)) \in Positions /\ Min(FullAt(c)) > c
<1>1. FullAt(c) \in SUBSET Nat /\ \A p \in FullAt(c) : p \in Positions /\ p > c
  BY FeedAssumption DEF FullAt, Behind, Sound, Of, Rows, Positions
<1>2. Min(FullAt(c)) \in FullAt(c)
  BY <1>1, MinOfSet
<1> QED
  BY <1>1, <1>2

\* A full page does not reach beyond the feed.
LEMMA FullPage ==
  ASSUME NEW c \in Positions, ~(Cardinality(Behind(c, 1 .. c + PageSize) \cap Rows) < PageSize)
  PROVE  c + PageSize \in Positions /\ c + PageSize > c
<1>1. c \in Nat /\ FeedLength \in Nat /\ PageSize \in Nat \ {0} /\ c <= FeedLength
  BY FeedAssumption DEF Positions
<1>2. SUFFICES ASSUME c + PageSize > FeedLength PROVE FALSE
  BY <1>1 DEF Positions
<1>3. Behind(c, 1 .. c + PageSize) \cap Rows = c + 1 .. FeedLength
  BY <1>1, <1>2 DEF Behind, Rows
<1>4. Cardinality(c + 1 .. FeedLength)
        = IF c + 1 > FeedLength THEN 0 ELSE FeedLength - (c + 1) + 1
  BY <1>1, FS_Interval
<1>5. Cardinality(c + 1 .. FeedLength) < PageSize
  BY <1>1, <1>2, <1>4
<1>6. Cardinality(Behind(c, 1 .. c + PageSize) \cap Rows) < PageSize
  BY <1>3, <1>5, Zenon
<1> QED
  BY <1>6

\* Whatever the adapter: no row is passed over, and none is answered twice.
LEMMA AnswerShape ==
  ASSUME SourceTypeOK, NEW c \in Positions, NEW ans \in Answers(c)
  PROVE  \E p \in Positions : c <= p /\ Covers(ans, c, p)
<1>1. c \in Nat /\ FeedLength \in Positions /\ c <= FeedLength
  BY FeedAssumption DEF Positions
<1>2. ASSUME ans = ToTheEnd(c) PROVE \E p \in Positions : c <= p /\ Covers(ans, c, p)
  BY <1>1, <1>2, ToTheEndCovers
<1>3. ASSUME NEW p \in Positions, p > c, ans = Upto(c, p, p)
      PROVE  \E q \in Positions : c <= q /\ Covers(ans, c, q)
  <2>1. c <= p
    BY <1>1, <1>3, FeedAssumption DEF Positions
  <2> QED
    BY <1>3, <2>1, UptoCovers
<1>4. CASE kind \in {"ndjson", "ndjson_unterminated"}
  <2>1. ans = NDJSON(c)
    BY <1>4 DEF Answers
  <2> QED
    BY <2>1, <1>2, <1>3, FullPosition DEF NDJSON
<1>5. CASE kind = "csv"
  <2>1. ans = CSV(c)
    BY <1>5 DEF Answers
  <2> QED
    BY <2>1, <1>2, <1>3, FullPosition DEF CSV
<1>6. CASE kind = "page"
  <2>1. ans = Page(c)
    BY <1>6 DEF Answers
  <2> QED
    BY <2>1, <1>2, <1>3, FullPage DEF Page
<1>7. CASE kind = "cursor"
  <2>1. ans \in Token(c)
    BY <1>7 DEF Answers
  <2>2. ASSUME NEW p \in Behind(c, Rows), ans = Upto(c, p, p)
        PROVE  \E q \in Positions : c <= q /\ Covers(ans, c, q)
    <3>1. p \in Positions /\ p > c
      BY FeedAssumption DEF Behind, Rows, Positions
    <3> QED
      BY <2>2, <3>1, <1>3
  <2> QED
    BY <2>1, <2>2, <1>2 DEF Token
<1> QED
  BY <1>4, <1>5, <1>6, <1>7 DEF SourceTypeOK, Kinds, FeedKinds

-----------------------------------------------------------------------------
(* Typing                                                                  *)

LEMMA Constants ==
  /\ FeedLength \in Nat /\ 0 \in Positions /\ FeedLength \in Positions
  /\ NoRun \notin Runs /\ NoRun = 0 /\ Runs \subseteq Nat
  /\ Positions \subseteq Nat /\ Rows \subseteq Nat
BY FeedAssumption, SizeAssumption DEF Positions, Runs, NoRun, Rows

\* The number of skipped rows fits the feed.
LEMMA IntervalSets ==
  ASSUME NEW a \in Nat, NEW p \in Positions, NEW T
  PROVE  /\ IsFiniteSet((a + 1 .. p) \cap T)
         /\ Cardinality((a + 1 .. p) \cap T) \in 0 .. FeedLength
<1>1. p \in Nat /\ p <= FeedLength /\ FeedLength \in Nat
  BY FeedAssumption DEF Positions
<1>2. IsFiniteSet(1 .. FeedLength) /\ Cardinality(1 .. FeedLength) <= FeedLength
  <2>1. IsFiniteSet(1 .. FeedLength)
    BY <1>1, FS_Interval
  <2>2. Cardinality(1 .. FeedLength) = IF 1 > FeedLength THEN 0 ELSE FeedLength - 1 + 1
    BY <1>1, FS_Interval
  <2> QED
    BY <1>1, <2>1, <2>2
<1>3. (a + 1 .. p) \cap T \in SUBSET (1 .. FeedLength)
  BY <1>1
<1> DEFINE Q == (a + 1 .. p) \cap T
<1> HIDE DEF Q
<1>4. IsFiniteSet(Q) /\ Cardinality(Q) <= Cardinality(1 .. FeedLength)
  BY <1>2, <1>3, FS_Subset DEF Q
<1>5. Cardinality(Q) \in Nat /\ Cardinality(1 .. FeedLength) \in Nat
  BY <1>2, <1>4, FS_CardinalityType
<1>6. Cardinality(Q) \in 0 .. FeedLength
  BY <1>1, <1>2, <1>4, <1>5
<1> QED
  BY <1>4, <1>6 DEF Q

\* Two adjoining intervals.
LEMMA IntervalSplit ==
  ASSUME NEW a \in Nat, NEW c \in Positions, NEW p \in Positions, a <= c, c <= p, NEW T
  PROVE  (a + 1 .. p) \cap T = ((a + 1 .. c) \cap T) \cup ((c + 1 .. p) \cap T)
<1>1. c \in Nat /\ p \in Nat
  BY Constants
<1>2. \A x : x \in (a + 1 .. p) \cap T
              <=> x \in (a + 1 .. c) \cap T \/ x \in (c + 1 .. p) \cap T
  BY <1>1
<1> QED
  BY <1>2, Zenon

LEMMA IntervalCount ==
  ASSUME NEW a \in Nat, NEW c \in Positions, NEW p \in Positions, a <= c, c <= p, NEW T
  PROVE  Cardinality((a + 1 .. p) \cap T)
           = Cardinality((a + 1 .. c) \cap T) + Cardinality((c + 1 .. p) \cap T)
<1> DEFINE Q == (a + 1 .. c) \cap T
           W == (c + 1 .. p) \cap T
<1>1. c \in Nat /\ p \in Nat
  BY Constants
<1>2. (a + 1 .. p) \cap T = Q \cup W
  BY IntervalSplit
<1>3. Q \cap W = {}
  BY <1>1
<1>4. /\ IsFiniteSet(Q) /\ Cardinality(Q) \in Nat
      /\ IsFiniteSet(W) /\ Cardinality(W) \in Nat
  <2>1. IsFiniteSet(Q) /\ IsFiniteSet(W)
    BY <1>1, IntervalSets
  <2> QED
    BY <2>1, FS_CardinalityType
<1> HIDE DEF Q, W
<1>5. Cardinality(Q \cup W) = Cardinality(Q) + Cardinality(W) - Cardinality(Q \cap W)
  BY <1>4, FS_Union
<1>6. Cardinality(Q \cap W) = 0
  BY <1>3, FS_EmptySet
<1>7. Cardinality(Q \cup W) = Cardinality(Q) + Cardinality(W)
  BY <1>4, <1>5, <1>6
<1> QED
  BY <1>2, <1>7, Zenon DEF Q, W

\* The return of a call.
LEMMA LeaveFacts ==
  ASSUME TypeOK, NEW a \in Actors, Leave(a)
  PROVE  /\ pc' \in [Actors -> Locations]
         /\ run' \in [Actors -> Runs \cup {NoRun}]
         /\ at' \in [Actors -> Positions]
         /\ goal' \in [Actors -> Goals]
         /\ found' \in [Actors -> [status : Statuses, failed : 0 .. FeedLength,
                                   checkpoint : Positions]]
         /\ pc'[a] = "idle" /\ run'[a] = NoRun
         /\ \A v \in Actors \ {a} : /\ pc'[v] = pc[v] /\ run'[v] = run[v] /\ at'[v] = at[v]
                                    /\ goal'[v] = goal[v] /\ found'[v] = found[v]
<1>1. Nothing \in [status : Statuses, failed : 0 .. FeedLength, checkpoint : Positions]
  BY Constants DEF Nothing, Statuses
<1>2. found' \in [Actors -> [status : Statuses, failed : 0 .. FeedLength,
                             checkpoint : Positions]]
  BY <1>1, Zenon DEF Leave, TypeOK
<1>3. at' \in [Actors -> Positions]
  BY Constants, Zenon DEF Leave, TypeOK
<1>4. /\ pc' \in [Actors -> Locations]
      /\ run' \in [Actors -> Runs \cup {NoRun}]
      /\ goal' \in [Actors -> Goals]
      /\ pc'[a] = "idle" /\ run'[a] = NoRun
  BY DEF Leave, TypeOK, Locations, Goals
<1>5. \A v \in Actors \ {a} : /\ pc'[v] = pc[v] /\ run'[v] = run[v] /\ at'[v] = at[v]
                              /\ goal'[v] = goal[v] /\ found'[v] = found[v]
  BY Zenon DEF Leave, TypeOK
<1> QED
  BY <1>2, <1>3, <1>4, <1>5

\* A transition is asked for.
LEMMA AskFacts ==
  ASSUME TypeOK, NEW a \in Actors, NEW g \in {"complete", "fail", "cancel"}, Ask(a, g)
  PROVE  /\ pc' \in [Actors -> Locations]
         /\ goal' \in [Actors -> Goals]
         /\ found' \in [Actors -> [status : Statuses, failed : 0 .. FeedLength,
                                   checkpoint : Positions]]
         /\ pc'[a] = "find" /\ goal'[a] = g
         /\ \A v \in Actors \ {a} : pc'[v] = pc[v] /\ goal'[v] = goal[v] /\ found'[v] = found[v]
<1>1. Nothing \in [status : Statuses, failed : 0 .. FeedLength, checkpoint : Positions]
  BY Constants DEF Nothing, Statuses
<1>2. found' \in [Actors -> [status : Statuses, failed : 0 .. FeedLength,
                             checkpoint : Positions]]
  BY <1>1, Zenon DEF Ask, TypeOK
<1>3. /\ pc' \in [Actors -> Locations] /\ goal' \in [Actors -> Goals]
      /\ pc'[a] = "find" /\ goal'[a] = g
  BY DEF Ask, TypeOK, Locations, Goals
<1>4. \A v \in Actors \ {a} : pc'[v] = pc[v] /\ goal'[v] = goal[v] /\ found'[v] = found[v]
  BY Zenon DEF Ask, TypeOK
<1> QED
  BY <1>2, <1>3, <1>4

LEMMA InitIInv == Init => IInv
<1> SUFFICES ASSUME Init PROVE IInv
  OBVIOUS
<1>1. TypeOK
  <2>1. Nothing \in [status : Statuses, failed : 0 .. FeedLength, checkpoint : Positions]
    BY Constants DEF Nothing, Statuses
  <2>2. SourceTypeOK
    BY DEF Init, SourceInit, SourceTypeOK
  <2>3. /\ checkpoint \in [Runs -> Positions] /\ at \in [Actors -> Positions]
        /\ from \in [Runs -> Positions]
    BY Constants, Zenon DEF Init
  <2>4. found \in [Actors -> [status : Statuses, failed : 0 .. FeedLength,
                              checkpoint : Positions]]
    BY <2>1, Zenon DEF Init
  <2>5. /\ status \in [Runs -> Statuses] /\ pc \in [Actors -> Locations]
        /\ goal \in [Actors -> Goals] /\ run \in [Actors -> Runs \cup {NoRun}]
    BY DEF Init, Statuses, Locations, Goals
  <2> QED
    BY <2>2, <2>3, <2>4, <2>5 DEF Init, TypeOK
<1>2. Created = {}
  BY DEF Init, Created
<1>3. RunInv
  <2>1. 0 \in 0 .. MaxRuns /\ Created = 1 .. 0
    BY <1>2, SizeAssumption
  <2>2. \E n \in 0 .. MaxRuns : Created = 1 .. n
    BY <2>1
  <2> QED
    BY <2>2, Constants DEF Init, RunInv, Actors
<1>4. ExtentInv
  <2>1. (0 + 1 .. 0) \cap Sound = {} /\ (0 + 1 .. 0) \cap Malformed = {}
    OBVIOUS
  <2>2. Cardinality((0 + 1 .. 0) \cap Malformed) = 0
    BY <2>1, FS_EmptySet
  <2>3. \A r \in Runs : Reached(r, 0)
    BY <2>1, <2>2 DEF Init, Reached
  <2>4. 0 \in 0 .. FeedLength
    BY Constants
  <2> QED
    BY <2>3, <2>4 DEF Init, ExtentInv
<1>5. \A a \in Actors : ActorInv(a)
  BY Constants DEF Init, ActorInv, CallInv, DriverInv, FoundInv
<1>6. QueuedIsFinal /\ Accounted /\ UnclaimedInv
  BY DEF Init, QueuedIsFinal, Accounted, UnclaimedInv, Processable
<1> QED
  BY <1>1, <1>3, <1>4, <1>5, <1>6 DEF IInv

-----------------------------------------------------------------------------
(* What most steps have in common                                          *)

\* Somebody who did not move, and whose run is as it was or has ended.
LEMMA ActorFrame ==
  ASSUME IInv, NEW v \in Actors, UNCHANGED sourceVars,
         pc'[v] = pc[v], run'[v] = run[v], at'[v] = at[v], goal'[v] = goal[v],
         found'[v] = found[v], Created \subseteq Created',
         run[v] # NoRun => from'[run[v]] = from[run[v]],
         run[v] # NoRun /\ status'[run[v]] = "RUNNING" =>
           /\ status[run[v]] = "RUNNING" /\ checkpoint'[run[v]] = checkpoint[run[v]]
           /\ saved'[run[v]] = saved[run[v]] /\ failed'[run[v]] = failed[run[v]]
  PROVE  ActorInv(v)'
<1>1. ActorInv(v)
  BY DEF IInv
<1>2. CallInv(v)'
  BY <1>1 DEF ActorInv, CallInv
<1>3. Sound' = Sound /\ Malformed' = Malformed
  BY DEF sourceVars, Sound, Malformed, Of
<1>4. ASSUME run[v] # NoRun, status'[run[v]] = "RUNNING"
      PROVE  \A p : Reached(run[v], p) => Reached(run[v], p)'
  BY <1>3, <1>4, Zenon DEF Reached
<1>5. DriverInv(v)'
  <2> SUFFICES ASSUME run[v] # NoRun, status'[run[v]] = "RUNNING"
               PROVE  /\ pc[v] \in {"fetch", "persist"} =>
                           checkpoint'[run[v]] = at[v] /\ Reached(run[v], at[v])'
                      /\ pc[v] \in {"find", "update"} /\ goal[v] = "complete" =>
                           checkpoint'[run[v]] = at[v] /\ Reached(run[v], FeedLength)'
    BY DEF DriverInv
  <2>1. \A p : Reached(run[v], p) => Reached(run[v], p)'
    BY <1>4
  <2>2. DriverInv(v)
    BY <1>1 DEF ActorInv
  <2> QED
    BY <2>1, <2>2 DEF DriverInv
<1>6. FoundInv(v)'
  <2>1. pc[v] = "update" => run[v] # NoRun
    BY <1>1, Constants DEF ActorInv, CallInv, Created
  <2> QED
    BY <1>1, <2>1 DEF ActorInv, FoundInv
<1> QED
  BY <1>2, <1>5, <1>6 DEF ActorInv

\* What is said of the rows only.
LEMMA RowsFrame ==
  ASSUME IInv, UNCHANGED <<sourceVars, runVars>>
  PROVE  /\ ExtentInv' /\ QueuedIsFinal' /\ Created' = Created
         /\ \A r \in Runs : \A p : Reached(r, p)' <=> Reached(r, p)
<1>1. Sound' = Sound /\ Malformed' = Malformed
  BY DEF sourceVars, Sound, Malformed, Of
<1>2. \A r \in Runs : \A p : Reached(r, p)' <=> Reached(r, p)
  BY <1>1, Zenon DEF Reached, runVars
<1>3. ExtentInv'
  BY <1>2 DEF IInv, ExtentInv, runVars
<1>4. QueuedIsFinal'
  BY <1>1 DEF IInv, QueuedIsFinal, Behind, runVars
<1> QED
  BY <1>2, <1>3, <1>4 DEF Created, runVars

\* A step of a that leaves the rows alone. The run that a lets go has ended, or is known
\* to be abandoned.
LEMMA ActorStep ==
  ASSUME IInv, NEW a \in Actors, UNCHANGED <<sourceVars, runVars>>,
         pc' \in [Actors -> Locations], run' \in [Actors -> Runs \cup {NoRun}],
         at' \in [Actors -> Positions], goal' \in [Actors -> Goals],
         found' \in [Actors -> [status : Statuses, failed : 0 .. FeedLength,
                                checkpoint : Positions]],
         \A v \in Actors \ {a} : /\ pc'[v] = pc[v] /\ run'[v] = run[v] /\ at'[v] = at[v]
                                 /\ goal'[v] = goal[v] /\ found'[v] = found[v],
         abandoned' \subseteq Runs, abandoned \subseteq abandoned',
         ActorInv(a)',
         a \in Syncs => run'[a] \in {run[a], NoRun},
         a \in Syncs /\ run[a] # NoRun /\ run'[a] = NoRun =>
           run[a] \in abandoned' \/ status[run[a]] # "RUNNING"
  PROVE  IInv'
<1> USE DEF IInv
<1>1. TypeOK'
  BY DEF TypeOK, SourceTypeOK, sourceVars, runVars, Rows, RowTypes
<1>2. ExtentInv' /\ QueuedIsFinal' /\ Created' = Created
  BY RowsFrame
<1>3. RunInv'
  <2>1. \A s, u \in Syncs : run'[s] # NoRun /\ run'[s] = run'[u] => s = u
    BY DEF RunInv, Actors
  <2> QED
    BY <1>2, <2>1 DEF RunInv, runVars
<1>4. ASSUME NEW v \in Actors PROVE ActorInv(v)'
  <2>1. CASE v = a
    BY <2>1
  <2>2. CASE v # a
    BY <1>2, <2>2, ActorFrame DEF runVars
  <2> QED
    BY <2>1, <2>2
<1>5. Accounted'
  <2> SUFFICES ASSUME NEW r \in Runs, status[r] = "RUNNING"
               PROVE  (\E s \in Syncs : run'[s] = r) \/ r \in abandoned' \cup unclaimed
    BY DEF Accounted, runVars
  <2>1. CASE r \in abandoned \cup unclaimed
    BY <2>1
  <2>2. ASSUME NEW s \in Syncs, run[s] = r
        PROVE  r \in abandoned' \/ run'[s] = r
    BY <2>2, Constants DEF Actors
  <2> QED
    BY <2>1, <2>2 DEF Accounted
<1>6. UnclaimedInv'
  <2>1. ASSUME NEW r \in unclaimed, NEW s \in Syncs PROVE run'[s] # r
    BY Constants DEF UnclaimedInv, Actors, TypeOK
  <2> QED
    BY <1>2, <2>1 DEF UnclaimedInv, runVars
<1> QED
  BY <1>1, <1>2, <1>3, <1>4, <1>5, <1>6

\* A call returns: what it says of its run is over.
LEMMA IdleInv ==
  ASSUME NEW a \in Actors, pc'[a] = "idle", run'[a] = NoRun
  PROVE  ActorInv(a)'
BY DEF ActorInv, CallInv, DriverInv, FoundInv

\* A transition other than a completion is asked for.
LEMMA AskedInv ==
  ASSUME NEW a \in Actors, pc'[a] = "find", goal'[a] \in {"fail", "cancel"},
         run'[a] \in Created'
  PROVE  ActorInv(a)'
BY DEF ActorInv, CallInv, DriverInv, FoundInv

-----------------------------------------------------------------------------
(* The steps                                                               *)

\* A call that has no run, or whose run has ended, returns.
LEMMA StepLeave ==
  ASSUME IInv, NEW a \in Actors, Leave(a), UNCHANGED <<sourceVars, runVars>>,
         abandoned' \subseteq Runs, abandoned \subseteq abandoned',
         a \in Syncs /\ run[a] # NoRun =>
           run[a] \in abandoned' \/ status[run[a]] # "RUNNING"
  PROVE  IInv'
<1>1. ActorInv(a)'
  BY LeaveFacts, IdleInv DEF IInv
<1> QED
  BY <1>1, LeaveFacts, ActorStep DEF IInv

\* A call gives its run up.
LEMMA StepGiveUp ==
  ASSUME IInv, NEW a \in Actors, GiveUp(a), run[a] \in Created,
         UNCHANGED <<sourceVars, runVars, run, at>>,
         abandoned' \subseteq Runs, abandoned \subseteq abandoned'
  PROVE  IInv'
<1>1. PICK g \in {"fail", "cancel"} : Ask(a, g)
  BY DEF GiveUp
<1>2. Created' = Created
  BY DEF Created, runVars
<1>3. run[a] \in Runs
  BY DEF Created
<1>4. ActorInv(a)'
  BY <1>1, <1>2, AskFacts, AskedInv DEF IInv
<1>5. run[a] # NoRun
  BY <1>3, Constants
<1> QED
  BY <1>1, <1>4, <1>5, AskFacts, ActorStep DEF IInv, TypeOK

\* A sync at work has a run.
LEMMA BusyRun ==
  ASSUME IInv, NEW a \in Actors, pc[a] \in {"fetch", "persist", "find", "update"}
  PROVE  /\ run[a] \in Created /\ run[a] \in Runs /\ run[a] # NoRun
         /\ status[run[a]] \in Statuses \ {"ABSENT"}
         /\ pc[a] \in {"fetch", "persist"} => a \in Syncs
<1>1. run[a] \in Created /\ (pc[a] \in {"fetch", "persist"} => a \in Syncs)
  BY DEF IInv, ActorInv, CallInv
<1> QED
  BY <1>1, Constants DEF Created, IInv, TypeOK

LEMMA StepCheck ==
  ASSUME IInv, NEW s \in Actors, NEW c \in Positions, Check(s, c)
  PROVE  IInv'
<1>2. /\ pc' \in [Actors -> Locations] /\ at' \in [Actors -> Positions]
      /\ pc'[s] = "create"
      /\ \A v \in Actors \ {s} : pc'[v] = pc[v] /\ at'[v] = at[v]
  BY DEF Check, IInv, TypeOK, Locations
<1>3. run[s] = NoRun
  BY DEF IInv, ActorInv, CallInv, Check
<1>4. UNCHANGED <<sourceVars, runVars, abandoned, run, goal, found>>
  BY DEF Check
<1>5. ActorInv(s)'
  BY <1>2, <1>3, <1>4 DEF ActorInv, CallInv, DriverInv, FoundInv
<1> QED
  BY <1>2, <1>3, <1>4, <1>5, ActorStep DEF IInv, TypeOK

LEMMA StepFetch == ASSUME IInv, NEW s \in Syncs, Fetch(s) PROVE IInv'
<1>1. s \in Actors /\ UNCHANGED <<sourceVars, runVars, run, at, abandoned>>
  BY DEF Actors, Fetch
<1>2. run[s] \in Created /\ run[s] \in Runs /\ run[s] # NoRun
  BY <1>1, BusyRun DEF Fetch
<1>3. CASE GiveUp(s)
  BY <1>1, <1>2, <1>3, StepGiveUp DEF IInv, TypeOK
<1>4. CASE pc' = [pc EXCEPT ![s] = "persist"] /\ UNCHANGED <<goal, found>>
  <2>1. /\ pc' \in [Actors -> Locations] /\ pc'[s] = "persist"
        /\ \A v \in Actors \ {s} : pc'[v] = pc[v]
    BY <1>1, <1>4 DEF IInv, TypeOK, Locations
  <2>2. /\ Created' = Created
        /\ \A r \in Runs : \A p : Reached(r, p)' <=> Reached(r, p)
    BY <1>1, RowsFrame
  <2>3. CallInv(s)'
    BY <1>1, <1>2, <2>1, <2>2 DEF CallInv
  <2>4. DriverInv(s)'
    <3> SUFFICES ASSUME status[run[s]] = "RUNNING"
                 PROVE  checkpoint[run[s]] = at[s] /\ Reached(run[s], at[s])'
      BY <1>1, <2>1 DEF DriverInv, runVars
    <3>1. checkpoint[run[s]] = at[s] /\ Reached(run[s], at[s])
      BY <1>1, <1>2 DEF IInv, ActorInv, DriverInv, Fetch
    <3>2. Sound' = Sound /\ Malformed' = Malformed
      BY <1>1 DEF sourceVars, Sound, Malformed, Of
    <3>3. Reached(run[s], at[s])'
      BY <1>1, <3>1, <3>2, Zenon DEF Reached, runVars
    <3> QED
      BY <3>1, <3>3
  <2>5. FoundInv(s)'
    BY <2>1 DEF FoundInv
  <2>6. ActorInv(s)'
    BY <2>3, <2>4, <2>5 DEF ActorInv
  <2> QED
    BY <1>1, <1>2, <1>4, <2>1, <2>6, ActorStep DEF IInv, TypeOK
<1> QED
  BY <1>3, <1>4 DEF Fetch

LEMMA StepPersistFails == ASSUME IInv, NEW s \in Syncs, PersistFails(s) PROVE IInv'
<1>1. s \in Actors
  BY DEF Actors
<1>2. run[s] \in Created
  BY <1>1, BusyRun DEF PersistFails
<1> QED
  BY <1>1, <1>2, StepGiveUp DEF PersistFails, IInv, TypeOK

LEMMA OrphanedType ==
  ASSUME IInv, NEW a \in Actors
  PROVE  /\ Orphaned(a) \subseteq Runs /\ abandoned \subseteq Orphaned(a)
         /\ a \in Syncs /\ run[a] # NoRun => run[a] \in Orphaned(a)
BY DEF IInv, TypeOK, Orphaned

LEMMA StepCrash == ASSUME IInv, NEW a \in Actors, Crash(a) PROVE IInv'
BY OrphanedType, StepLeave DEF Crash

\* A transition fails: completion is given up on, another one returns, and then the run
\* has ended or is abandoned.
LEMMA StepTransitionFails ==
  ASSUME IInv, NEW a \in Actors, pc[a] \in {"find", "update"}, TransitionFails(a),
         UNCHANGED <<sourceVars, runVars>>,
         abandoned' \subseteq Runs, abandoned \subseteq abandoned',
         a \in Syncs /\ goal[a] # "complete" =>
           run[a] \in abandoned' \/ status[run[a]] # "RUNNING"
  PROVE  IInv'
<1>1. run[a] \in Created
  BY BusyRun
<1>2. CASE goal[a] = "complete"
  BY <1>1, <1>2, StepGiveUp DEF TransitionFails
<1>3. CASE goal[a] # "complete"
  BY <1>3, StepLeave DEF TransitionFails
<1> QED
  BY <1>2, <1>3

LEMMA StepStoreError == ASSUME IInv, NEW a \in Actors, StoreError(a) PROVE IInv'
<1>1. run[a] # NoRun
  BY BusyRun DEF StoreError
<1>2. /\ abandoned' \subseteq Runs /\ abandoned \subseteq abandoned'
      /\ a \in Syncs /\ goal[a] # "complete" => run[a] \in abandoned'
  BY <1>1, OrphanedType DEF StoreError, IInv, TypeOK
<1> QED
  BY <1>2, StepTransitionFails DEF StoreError

LEMMA StepIntervene ==
  ASSUME IInv, NEW o \in Operators, NEW r \in Runs, Intervene(o, r)
  PROVE  IInv'
<1>1. o \in Actors /\ o \notin Syncs
  BY ActorAssumption DEF Actors
<1>2. PICK g \in {"fail", "cancel"} : Ask(o, g)
  BY DEF Intervene, GiveUp
<1>3. UNCHANGED <<sourceVars, runVars, abandoned, at>> /\ r \in Created
  BY DEF Intervene
<1>4. /\ run' \in [Actors -> Runs \cup {NoRun}] /\ run'[o] = r
      /\ \A v \in Actors \ {o} : run'[v] = run[v]
  BY <1>1 DEF Intervene, IInv, TypeOK
<1>5. Created' = Created
  BY <1>3 DEF Created, runVars
<1>6. ActorInv(o)'
  BY <1>1, <1>2, <1>3, <1>4, <1>5, AskFacts, AskedInv DEF IInv
<1> QED
  BY <1>1, <1>2, <1>3, <1>4, <1>6, AskFacts, ActorStep DEF IInv, TypeOK

\* The run is read for a transition. A transition that is not allowed finds an ended run.
LEMMA StepFind == ASSUME IInv, NEW a \in Actors, Find(a) PROVE IInv'
<1> DEFINE r == run[a]
<1>1. /\ r \in Created /\ r \in Runs /\ r # NoRun
      /\ status[r] \in Statuses \ {"ABSENT"}
  BY BusyRun DEF Find
<1>2. UNCHANGED <<sourceVars, runVars, abandoned>> /\ pc[a] = "find"
  BY DEF Find
<1>3. abandoned' \subseteq Runs /\ abandoned \subseteq abandoned'
  BY <1>2 DEF IInv, TypeOK
<1>4. CASE ~Allowed(goal[a], status[r]) /\ TransitionFails(a)
  <2>1. goal[a] # "complete" => status[r] # "RUNNING"
    BY <1>4 DEF Allowed, Terminal
  <2> QED
    BY <1>2, <1>3, <1>4, <2>1, StepTransitionFails
<1>5. CASE /\ Allowed(goal[a], status[r])
           /\ found' = [found EXCEPT ![a] = [status |-> status[r], failed |-> failed[r],
                                             checkpoint |-> checkpoint[r]]]
           /\ pc' = [pc EXCEPT ![a] = "update"]
           /\ UNCHANGED <<run, at, goal>>
  <2>1. /\ found' = [found EXCEPT ![a] = [status |-> status[r], failed |-> failed[r],
                                          checkpoint |-> checkpoint[r]]]
        /\ pc' = [pc EXCEPT ![a] = "update"]
        /\ UNCHANGED <<run, at, goal>>
    BY <1>5
  <2>2. status[r] = "RUNNING"
    BY <1>1, <1>5 DEF Allowed, Terminal, Statuses
  <2>3. failed[r] \in 0 .. FeedLength /\ from[r] <= checkpoint[r]
        /\ checkpoint[r] \in Positions
    <3>1. from[r] \in Nat /\ checkpoint[r] \in Positions
      BY <1>1, Constants DEF IInv, TypeOK
    <3>2. from[r] <= checkpoint[r] /\ \E p \in checkpoint[r] .. FeedLength : Reached(r, p)
      BY <1>1 DEF IInv, ExtentInv
    <3>3. PICK p \in checkpoint[r] .. FeedLength : Reached(r, p)
      BY <3>2
    <3>4. p \in Positions
      BY <3>1, <3>3, Constants DEF Positions
    <3>5. Cardinality((from[r] + 1 .. p) \cap Malformed) \in 0 .. FeedLength
      BY <3>1, <3>4, IntervalSets
    <3> QED
      BY <3>1, <3>2, <3>3, <3>5 DEF Reached
  <2>4. [status |-> status[r], failed |-> failed[r], checkpoint |-> checkpoint[r]]
          \in [status : Statuses, failed : 0 .. FeedLength, checkpoint : Positions]
    BY <1>1, <2>3
  <2>5. /\ found' \in [Actors -> [status : Statuses, failed : 0 .. FeedLength,
                                  checkpoint : Positions]]
        /\ pc' \in [Actors -> Locations]
        /\ pc'[a] = "update"
        /\ found'[a] = [status |-> status[r], failed |-> failed[r],
                        checkpoint |-> checkpoint[r]]
        /\ \A v \in Actors \ {a} : pc'[v] = pc[v] /\ found'[v] = found[v]
    <3>1. "update" \in Locations
      BY DEF Locations
    <3> QED
      BY <2>1, <2>4, <3>1, Zenon DEF IInv, TypeOK
  <2>6. CallInv(a) /\ DriverInv(a)
    BY DEF IInv, ActorInv
  <2>7. CallInv(a)'
    BY <1>1, <1>2, <2>1, <2>5, <2>6, RowsFrame DEF CallInv
  <2>8. DriverInv(a)'
    <3> SUFFICES ASSUME goal[a] = "complete"
                 PROVE  checkpoint[r] = at[a] /\ Reached(run[a], FeedLength)'
      BY <1>2, <2>1, <2>5 DEF DriverInv, runVars
    <3>1. checkpoint[r] = at[a] /\ Reached(r, FeedLength)
      BY <1>1, <1>2, <2>2, <2>6 DEF DriverInv
    <3>2. Sound' = Sound /\ Malformed' = Malformed
      BY <1>2 DEF sourceVars, Sound, Malformed, Of
    <3>3. Reached(run[a], FeedLength)'
      BY <1>2, <2>1, <3>1, <3>2, Zenon DEF Reached, runVars
    <3> QED
      BY <3>1, <3>3
  <2>9. FoundInv(a)'
    <3>1. checkpoint[r] <= checkpoint[r]
      <4>1. checkpoint[r] \in Nat
        BY <2>3, Constants
      <4> QED
        BY <4>1
    <3>2. /\ found'[a].status = "RUNNING" /\ found'[a].checkpoint = checkpoint[r]
          /\ found'[a].failed = failed[r]
      BY <2>2, <2>5
    <3>3. /\ run'[a] = r /\ from'[r] = from[r] /\ checkpoint'[r] = checkpoint[r]
          /\ failed'[r] = failed[r]
      BY <1>2, <2>1 DEF runVars
    <3> QED
      BY <2>3, <3>1, <3>2, <3>3 DEF FoundInv
  <2>10. ActorInv(a)'
    BY <2>7, <2>8, <2>9 DEF ActorInv
  <2> QED
    BY <1>1, <1>2, <1>3, <2>1, <2>5, <2>10, ActorStep DEF IInv, TypeOK
<1> QED
  BY <1>4, <1>5 DEF Find

\* Nobody refers to a run that is not created.
LEMMA RunCreated ==
  ASSUME IInv, NEW a \in Actors
  PROVE  run[a] = NoRun \/ run[a] \in Created
<1>1. CallInv(a) /\ pc[a] \in Locations
  BY DEF IInv, ActorInv, TypeOK
<1> QED
  BY <1>1 DEF CallInv, Locations

\* The new run's number is new, and the unique index keeps it the only RUNNING one.
LEMMA StepCreate == ASSUME IInv, NEW a \in Actors, Create(a) PROVE IInv'
<1> USE DEF IInv
<1>0. PICK r \in Runs, c \in Positions : r = Cardinality(Created) + 1 /\ c = at[a]
  BY DEF Create, TypeOK
<1>1. /\ UNCHANGED <<sourceVars, abandoned, seen, failed, saved, queued>> /\ run[a] = NoRun
      /\ NoActive
      /\ status' = [status EXCEPT ![r] = "RUNNING"]
      /\ checkpoint' = [checkpoint EXCEPT ![r] = c]
      /\ from' = [from EXCEPT ![r] = c]
  BY <1>0 DEF Create, ActorInv, CallInv
<1>2. PICK n \in 0 .. MaxRuns : Created = 1 .. n
  BY DEF RunInv
<1>3. r = n + 1
  <2>1. Cardinality(1 .. n) = IF 1 > n THEN 0 ELSE n - 1 + 1
    BY FS_Interval
  <2>2. Cardinality(Created) = n
    BY <1>2, <2>1
  <2> QED
    BY <1>0, <2>2
<1>4. r \notin Created /\ status[r] = "ABSENT" /\ c \in Nat
  BY <1>2, <1>3, Constants DEF Created
<1>5. /\ pc' \in [Actors -> Locations] /\ run' \in [Actors -> Runs \cup {NoRun}]
      /\ at' \in [Actors -> Positions] /\ goal' \in [Actors -> Goals]
      /\ found' \in [Actors -> [status : Statuses, failed : 0 .. FeedLength,
                                checkpoint : Positions]]
      /\ \A v \in Actors \ {a} : /\ pc'[v] = pc[v] /\ run'[v] = run[v] /\ at'[v] = at[v]
                                 /\ goal'[v] = goal[v] /\ found'[v] = found[v]
      /\ \/ /\ a \in Syncs /\ run'[a] = r /\ pc'[a] = "fetch" /\ at'[a] = c
            /\ unclaimed' = unclaimed
         \/ run'[a] = NoRun /\ pc'[a] = "idle" /\ unclaimed' = unclaimed \cup {r}
  <2>1. CASE Leave(a) /\ unclaimed' = unclaimed \cup {r}
    BY <2>1, LeaveFacts
  <2>2. CASE /\ a \in Syncs
             /\ run' = [run EXCEPT ![a] = r]
             /\ pc' = [pc EXCEPT ![a] = "fetch"]
             /\ UNCHANGED <<unclaimed, at, goal, found>>
    <3>1. run' \in [Actors -> Runs \cup {NoRun}] /\ pc' \in [Actors -> Locations]
      BY <2>2 DEF TypeOK, Locations
    <3>2. /\ run'[a] = r /\ pc'[a] = "fetch"
          /\ \A v \in Actors \ {a} : run'[v] = run[v] /\ pc'[v] = pc[v]
      BY <2>2 DEF TypeOK
    <3> QED
      BY <1>0, <2>2, <3>1, <3>2 DEF TypeOK
  <2> QED
    BY <1>0, <2>1, <2>2 DEF Create
<1>6. TypeOK'
  <2>1. checkpoint' \in [Runs -> Positions] /\ from' \in [Runs -> Positions]
    BY <1>1, Zenon DEF TypeOK
  <2>2. status' \in [Runs -> Statuses]
    BY <1>1 DEF TypeOK, Statuses
  <2>3. unclaimed' \subseteq Runs
    BY <1>5 DEF TypeOK
  <2> QED
    BY <1>1, <1>5, <2>1, <2>2, <2>3 DEF TypeOK, SourceTypeOK, sourceVars, Rows, RowTypes
<1>7. /\ status'[r] = "RUNNING" /\ checkpoint'[r] = c /\ from'[r] = c
      /\ \A q \in Runs \ {r} : /\ status'[q] = status[q] /\ from'[q] = from[q]
                               /\ checkpoint'[q] = checkpoint[q]
  BY <1>1 DEF TypeOK
<1>8. Created' = Created \cup {r}
  BY <1>7 DEF Created
<1>9. \A q \in Runs : status[q] # "RUNNING"
  BY <1>1 DEF NoActive, Created
<1>10. \A v \in Actors : run[v] # r
  BY <1>4, RunCreated, Constants
<1>11. RunInv'
  <2>1. n + 1 \in 0 .. MaxRuns /\ Created' = 1 .. n + 1
    BY <1>2, <1>3, <1>8, SizeAssumption DEF Runs
  <2>2. \E m \in 0 .. MaxRuns : Created' = 1 .. m
    BY <2>1
  <2>3. \A v, u \in Syncs : run'[v] # NoRun /\ run'[v] = run'[u] => v = u
    BY <1>5, <1>10 DEF RunInv, Actors
  <2>4. \A q, p \in Runs : status'[q] = "RUNNING" /\ status'[p] = "RUNNING" => q = p
    BY <1>7, <1>9
  <2> QED
    BY <2>2, <2>3, <2>4 DEF RunInv
<1>12. Sound' = Sound /\ Malformed' = Malformed
  BY <1>1 DEF sourceVars, Sound, Malformed, Of
<1>13. saved[r] = {} /\ failed[r] = 0
  BY <1>4 DEF ExtentInv
<1>14. Reached(r, c)'
  <2>1. (c + 1 .. c) \cap Sound = {} /\ (c + 1 .. c) \cap Malformed = {}
    BY <1>4
  <2>2. Cardinality((c + 1 .. c) \cap Malformed) = 0
    BY <2>1, FS_EmptySet
  <2>3. saved'[r] = (from'[r] + 1 .. c) \cap Sound'
    BY <1>1, <1>7, <1>12, <1>13, <2>1, Zenon
  <2>4. failed'[r] = Cardinality((from'[r] + 1 .. c) \cap Malformed')
    BY <1>1, <1>7, <1>12, <1>13, <2>2, Zenon
  <2> QED
    BY <2>3, <2>4 DEF Reached
<1>15. ExtentInv'
  <2>1. ASSUME NEW q \in Runs \ {r}
        PROVE  /\ status'[q] = "ABSENT" => /\ from'[q] = 0 /\ checkpoint'[q] = 0
                                           /\ saved'[q] = {} /\ failed'[q] = 0
               /\ from'[q] <= checkpoint'[q]
               /\ \E p \in checkpoint'[q] .. FeedLength : Reached(q, p)'
    <3>1. \A p : Reached(q, p) => Reached(q, p)'
      BY <1>1, <1>7, <1>12, Zenon DEF Reached
    <3>2. /\ status[q] = "ABSENT" =>
               from[q] = 0 /\ checkpoint[q] = 0 /\ saved[q] = {} /\ failed[q] = 0
          /\ from[q] <= checkpoint[q]
          /\ \E p \in checkpoint[q] .. FeedLength : Reached(q, p)
      BY DEF ExtentInv
    <3>3. /\ status'[q] = status[q] /\ from'[q] = from[q] /\ checkpoint'[q] = checkpoint[q]
          /\ saved'[q] = saved[q] /\ failed'[q] = failed[q]
      BY <1>1, <1>7
    <3>4. \E p \in checkpoint'[q] .. FeedLength : Reached(q, p)'
      <4>1. PICK p \in checkpoint[q] .. FeedLength : Reached(q, p)
        BY <3>2
      <4>2. p \in checkpoint'[q] .. FeedLength
        BY <3>3
      <4> QED
        BY <3>1, <4>1, <4>2
    <3> QED
      BY <3>2, <3>3, <3>4
  <2>2. c \in c .. FeedLength /\ c <= c
    BY <1>4, Constants DEF Positions
  <2>3. /\ status'[r] # "ABSENT" /\ from'[r] <= checkpoint'[r]
        /\ \E p \in checkpoint'[r] .. FeedLength : Reached(r, p)'
    BY <1>7, <1>14, <2>2
  <2> QED
    BY <2>1, <2>3 DEF ExtentInv
<1>16. ASSUME NEW v \in Actors PROVE ActorInv(v)'
  <2>1. CASE v # a
    <3>1. run[v] # NoRun => run[v] \in Runs \ {r}
      BY <1>10 DEF TypeOK
    <3>2. run[v] # NoRun =>
            /\ from'[run[v]] = from[run[v]] /\ status'[run[v]] = status[run[v]]
            /\ checkpoint'[run[v]] = checkpoint[run[v]]
      BY <1>7, <3>1
    <3>3. Created \subseteq Created'
      BY <1>8
    <3> QED
      BY <1>1, <1>5, <2>1, <3>2, <3>3, ActorFrame
  <2>2. CASE v = a /\ pc'[a] = "idle" /\ run'[a] = NoRun
    BY <2>2, IdleInv
  <2>3. CASE v = a /\ a \in Syncs /\ run'[a] = r /\ pc'[a] = "fetch" /\ at'[a] = c
    BY <1>7, <1>8, <1>14, <2>3 DEF ActorInv, CallInv, DriverInv, FoundInv
  <2> QED
    BY <1>5, <2>1, <2>2, <2>3
<1>17. r \notin queued /\ QueuedIsFinal'
  <2>1. r \notin queued /\ \A q \in queued : q \in Runs
    BY <1>4 DEF QueuedIsFinal, Processable
  <2>2. queued' = {q \in Runs : Processable(status'[q])}
    BY <1>1, <1>4, <1>7 DEF QueuedIsFinal, Processable
  <2> QED
    BY <1>1, <1>7, <1>12, <2>1, <2>2 DEF QueuedIsFinal, Processable, Behind
<1>18. Accounted'
  BY <1>5, <1>7, <1>9 DEF Accounted
<1>19. UnclaimedInv'
  <2>1. ASSUME NEW q \in unclaimed
        PROVE  /\ q \in Created' /\ \A s \in Syncs : run'[s] # q
               /\ saved'[q] = {} /\ checkpoint'[q] = from'[q] /\ q \notin queued'
    <3>1. /\ q \in Created /\ q \in Runs \ {r} /\ saved[q] = {} /\ checkpoint[q] = from[q]
          /\ q \notin queued /\ \A s \in Syncs : run[s] # q
      BY <1>4 DEF UnclaimedInv, TypeOK
    <3>2. \A s \in Syncs : run'[s] # q
      BY <1>5, <3>1, Constants DEF Actors
    <3> QED
      BY <1>1, <1>7, <1>8, <3>1, <3>2
  <2>2. ASSUME r \in unclaimed'
        PROVE  /\ r \in Created' /\ \A s \in Syncs : run'[s] # r
               /\ saved'[r] = {} /\ checkpoint'[r] = from'[r] /\ r \notin queued'
    <3>1. r \notin unclaimed
      BY <1>4 DEF UnclaimedInv
    <3>2. run'[a] = NoRun
      BY <1>5, <2>2, <3>1
    <3>3. \A s \in Syncs : run'[s] # r
      BY <1>5, <1>10, <3>2, Constants DEF Actors
    <3> QED
      BY <1>1, <1>7, <1>8, <1>13, <1>17, <3>3
  <2>3. \A q \in unclaimed' : q \in unclaimed \/ q = r
    BY <1>5
  <2> QED
    BY <2>1, <2>2, <2>3 DEF UnclaimedInv
<1> QED
  BY <1>6, <1>11, <1>15, <1>16, <1>17, <1>18, <1>19

LEMMA StepCreateFails == ASSUME IInv, NEW a \in Actors, CreateFails(a) PROVE IInv'
<1>1. run[a] = NoRun
  BY DEF IInv, ActorInv, CallInv, CreateFails
<1> QED
  BY <1>1, StepLeave DEF CreateFails, IInv, TypeOK

\* What a transaction of a driver writes: it goes on where the driver stands, from c to
\* p, and the checkpoint moves to p, or stays where it was at the end of the feed.
LEMMA BatchFacts ==
  ASSUME IInv, NEW s \in Syncs, Persist(s)
  PROVE  \E r \in Runs, c, d, p \in Positions :
           /\ r = run[s] /\ r \in Created /\ status[r] = "RUNNING"
           /\ c = at[s] /\ c = checkpoint[r] /\ from[r] <= c
           /\ c <= d /\ d <= p
           /\ checkpoint' = [checkpoint EXCEPT ![r] = d]
           /\ saved' = [saved EXCEPT ![r] = (from[r] + 1 .. p) \cap Sound]
           /\ failed' = [failed EXCEPT ![r] = Cardinality((from[r] + 1 .. p) \cap Malformed)]
           /\ seen' \in [Runs -> Nat]
           /\ \/ \E g \in {"fail", "cancel"} : Ask(s, g) /\ UNCHANGED at
              \/ /\ d = p
                 /\ at' = [at EXCEPT ![s] = d]
                 /\ pc' = [pc EXCEPT ![s] = "fetch"] /\ UNCHANGED <<goal, found>>
              \/ /\ p = FeedLength
                 /\ at' = [at EXCEPT ![s] = d]
                 /\ Ask(s, "complete")
<1>1. s \in Actors /\ pc[s] = "persist" /\ status[run[s]] = "RUNNING"
  BY DEF Persist, Actors
<1>2. PICK r \in Runs : r = run[s] /\ r \in Created /\ r # NoRun
  BY <1>1, BusyRun
<1>3. PICK c \in Positions : c = at[s]
  BY <1>1 DEF IInv, TypeOK
<1>4. c = checkpoint[r] /\ Reached(r, c)
  BY <1>1, <1>2, <1>3 DEF IInv, ActorInv, DriverInv
<1>5. from[r] <= c /\ from[r] \in Nat /\ c \in Nat
  BY <1>4, Constants DEF IInv, ExtentInv, TypeOK
<1>6. PICK ans \in Answers(c) :
        /\ SaveBatch(r, ans)
        /\ seen' = [seen EXCEPT ![r] = @ + Cardinality(ans.rows \cap (Sound \cup Malformed))]
        /\ failed' = [failed EXCEPT ![r] = @ + Cardinality(ans.rows \cap Malformed)]
        /\ \/ Ask(s, "fail") /\ UNCHANGED at
           \/ /\ at' = [at EXCEPT ![s] = NextCheckpoint(@, ans)]
              /\ IF ans.next # 0
                 THEN pc' = [pc EXCEPT ![s] = "fetch"] /\ UNCHANGED <<goal, found>>
                 ELSE Ask(s, "complete")
           \/ GiveUp(s) /\ UNCHANGED at
  BY <1>2, <1>3 DEF Persist
<1>7. PICK p \in Positions : c <= p /\ Covers(ans, c, p)
  BY AnswerShape DEF IInv, TypeOK
<1>8. PICK d \in Positions : d = NextCheckpoint(c, ans)
  BY <1>7 DEF NextCheckpoint, Covers
<1>9. /\ c <= d /\ d <= p /\ (ans.next # 0 => d = p) /\ (ans.next = 0 => p = FeedLength)
  <2>1. p \in Nat /\ d \in Nat
    BY Constants
  <2> QED
    BY <1>5, <1>7, <1>8, <2>1 DEF NextCheckpoint, Covers
<1>10. checkpoint' = [checkpoint EXCEPT ![r] = d]
  BY <1>4, <1>6, <1>8 DEF SaveBatch
<1>11. saved' = [saved EXCEPT ![r] = (from[r] + 1 .. p) \cap Sound]
  <2>1. ans.rows = c + 1 .. p /\ saved[r] = (from[r] + 1 .. c) \cap Sound
    BY <1>4, <1>7 DEF Covers, Reached
  <2>2. (from[r] + 1 .. p) \cap Sound
          = ((from[r] + 1 .. c) \cap Sound) \cup ((c + 1 .. p) \cap Sound)
    BY <1>5, <1>7, IntervalSplit
  <2>3. saved[r] \cup (ans.rows \cap Sound) = (from[r] + 1 .. p) \cap Sound
    BY <2>1, <2>2, Zenon
  <2> QED
    BY <1>6, <2>3, Zenon DEF SaveBatch
<1>12. failed' = [failed EXCEPT ![r] = Cardinality((from[r] + 1 .. p) \cap Malformed)]
  <2>1. /\ ans.rows = c + 1 .. p
        /\ failed[r] = Cardinality((from[r] + 1 .. c) \cap Malformed)
    BY <1>4, <1>7 DEF Covers, Reached
  <2>2. Cardinality((from[r] + 1 .. p) \cap Malformed)
          = Cardinality((from[r] + 1 .. c) \cap Malformed)
              + Cardinality((c + 1 .. p) \cap Malformed)
    <3>1. PICK a \in Nat : a = from[r]
      BY <1>5
    <3>2. a <= c /\ c <= p
      BY <1>5, <1>7, <3>1
    <3>3. \A T : Cardinality((a + 1 .. p) \cap T)
                  = Cardinality((a + 1 .. c) \cap T) + Cardinality((c + 1 .. p) \cap T)
      BY <3>2, IntervalCount
    <3> QED
      BY <3>1, <3>3, Zenon
  <2>3. failed[r] + Cardinality(ans.rows \cap Malformed)
          = Cardinality((from[r] + 1 .. p) \cap Malformed)
    BY <2>1, <2>2, Zenon
  <2>4. failed' = [failed EXCEPT ![r] = @ + Cardinality(ans.rows \cap Malformed)]
    BY <1>6
  <2> QED
    BY <2>3, <2>4, Zenon
<1>13. seen' \in [Runs -> Nat]
  <2>1. Cardinality((c + 1 .. p) \cap (Sound \cup Malformed)) \in Nat
    BY <1>5, IntervalSets, FS_CardinalityType
  <2>2. Cardinality(ans.rows \cap (Sound \cup Malformed)) \in Nat
    BY <1>7, <2>1, Zenon DEF Covers
  <2>3. seen \in [Runs -> Nat]
    BY DEF IInv, TypeOK
  <2>4. seen[r] + Cardinality(ans.rows \cap (Sound \cup Malformed)) \in Nat
    BY <2>2, <2>3
  <2> QED
    BY <1>6, <2>3, <2>4, Zenon
<1>14. \/ \E g \in {"fail", "cancel"} : Ask(s, g) /\ UNCHANGED at
       \/ /\ d = p
          /\ at' = [at EXCEPT ![s] = d]
          /\ pc' = [pc EXCEPT ![s] = "fetch"] /\ UNCHANGED <<goal, found>>
       \/ /\ p = FeedLength
          /\ at' = [at EXCEPT ![s] = d]
          /\ Ask(s, "complete")
  <2>1. CASE Ask(s, "fail") /\ UNCHANGED at
    BY <2>1
  <2>2. CASE GiveUp(s) /\ UNCHANGED at
    BY <2>2 DEF GiveUp
  <2>3. CASE /\ at' = [at EXCEPT ![s] = NextCheckpoint(@, ans)]
             /\ IF ans.next # 0
                THEN pc' = [pc EXCEPT ![s] = "fetch"] /\ UNCHANGED <<goal, found>>
                ELSE Ask(s, "complete")
    <3>1. at' = [at EXCEPT ![s] = d]
      BY <1>3, <1>8, <2>3
    <3> QED
      BY <1>9, <2>3, <3>1
  <2> QED
    BY <1>6, <2>1, <2>2, <2>3
<1> QED
  BY <1>1, <1>2, <1>3, <1>4, <1>5, <1>9, <1>10, <1>11, <1>12, <1>13, <1>14

LEMMA StepPersist == ASSUME IInv, NEW s \in Syncs, Persist(s) PROVE IInv'
<1> USE DEF IInv
<1>1. PICK r \in Runs, c, d, p \in Positions :
        /\ r = run[s] /\ r \in Created /\ status[r] = "RUNNING"
        /\ c = at[s] /\ c = checkpoint[r] /\ from[r] <= c
        /\ c <= d /\ d <= p
        /\ checkpoint' = [checkpoint EXCEPT ![r] = d]
        /\ saved' = [saved EXCEPT ![r] = (from[r] + 1 .. p) \cap Sound]
        /\ failed' = [failed EXCEPT ![r] = Cardinality((from[r] + 1 .. p) \cap Malformed)]
        /\ seen' \in [Runs -> Nat]
        /\ \/ \E g \in {"fail", "cancel"} : Ask(s, g) /\ UNCHANGED at
           \/ /\ d = p
              /\ at' = [at EXCEPT ![s] = d]
              /\ pc' = [pc EXCEPT ![s] = "fetch"] /\ UNCHANGED <<goal, found>>
           \/ /\ p = FeedLength
              /\ at' = [at EXCEPT ![s] = d]
              /\ Ask(s, "complete")
  BY BatchFacts
<1>2. s \in Actors /\ UNCHANGED <<sourceVars, abandoned, unclaimed, status, queued, from, run>>
  BY DEF Persist, Actors
<1>3. /\ from[r] \in Nat /\ c \in Nat /\ d \in Nat /\ p \in Nat /\ p <= FeedLength
      /\ r # NoRun
  BY Constants DEF TypeOK, Positions
<1>4. Sound' = Sound /\ Malformed' = Malformed /\ Created' = Created
  BY <1>2 DEF sourceVars, Sound, Malformed, Of, Created
<1>5. /\ checkpoint'[r] = d
      /\ saved'[r] = (from[r] + 1 .. p) \cap Sound
      /\ failed'[r] = Cardinality((from[r] + 1 .. p) \cap Malformed)
      /\ \A q \in Runs \ {r} : /\ checkpoint'[q] = checkpoint[q] /\ saved'[q] = saved[q]
                               /\ failed'[q] = failed[q]
  BY <1>1, Zenon DEF TypeOK
<1>6. Reached(r, p)'
  BY <1>2, <1>4, <1>5, Zenon DEF Reached
<1>7. /\ pc' \in [Actors -> Locations] /\ at' \in [Actors -> Positions]
      /\ goal' \in [Actors -> Goals]
      /\ found' \in [Actors -> [status : Statuses, failed : 0 .. FeedLength,
                                checkpoint : Positions]]
      /\ \A v \in Actors \ {s} : /\ pc'[v] = pc[v] /\ at'[v] = at[v]
                                 /\ goal'[v] = goal[v] /\ found'[v] = found[v]
  <2>1. at' = at \/ at' = [at EXCEPT ![s] = d]
    BY <1>1
  <2>2. at' \in [Actors -> Positions] /\ \A v \in Actors \ {s} : at'[v] = at[v]
    BY <1>2, <2>1 DEF TypeOK
  <2>3. ASSUME NEW g \in {"complete", "fail", "cancel"}, Ask(s, g)
        PROVE  /\ pc' \in [Actors -> Locations] /\ goal' \in [Actors -> Goals]
               /\ found' \in [Actors -> [status : Statuses, failed : 0 .. FeedLength,
                                         checkpoint : Positions]]
               /\ \A v \in Actors \ {s} : /\ pc'[v] = pc[v]
                                          /\ goal'[v] = goal[v] /\ found'[v] = found[v]
    BY <1>2, <2>3, AskFacts
  <2>4. CASE pc' = [pc EXCEPT ![s] = "fetch"] /\ UNCHANGED <<goal, found>>
    BY <1>2, <2>2, <2>4 DEF TypeOK, Locations
  <2> QED
    BY <1>1, <2>2, <2>3, <2>4
<1>8. TypeOK'
  <2>1. (from[r] + 1 .. p) \cap Sound \in SUBSET Rows
    BY DEF Sound, Of
  <2>2. saved' \in [Runs -> SUBSET Rows]
    BY <1>1, <2>1, Zenon DEF TypeOK
  <2>3. Cardinality((from[r] + 1 .. p) \cap Malformed) \in Nat
    BY <1>3, IntervalSets, FS_CardinalityType
  <2>4. failed' \in [Runs -> Nat] /\ checkpoint' \in [Runs -> Positions]
    BY <1>1, <2>3, Zenon DEF TypeOK
  <2> QED
    BY <1>1, <1>2, <1>7, <2>2, <2>4 DEF TypeOK, SourceTypeOK, sourceVars, Rows, RowTypes
<1>9. RunInv'
  BY <1>2, <1>4 DEF RunInv
<1>10. ExtentInv'
  <2>1. ASSUME NEW q \in Runs \ {r}
        PROVE  /\ status'[q] = "ABSENT" => /\ from'[q] = 0 /\ checkpoint'[q] = 0
                                           /\ saved'[q] = {} /\ failed'[q] = 0
               /\ from'[q] <= checkpoint'[q]
               /\ \E e \in checkpoint'[q] .. FeedLength : Reached(q, e)'
    <3>1. \A e : Reached(q, e) => Reached(q, e)'
      BY <1>2, <1>4, <1>5, Zenon DEF Reached
    <3>2. PICK e \in checkpoint[q] .. FeedLength : Reached(q, e)
      BY DEF ExtentInv
    <3>3. e \in checkpoint'[q] .. FeedLength /\ Reached(q, e)'
      BY <1>5, <3>1, <3>2
    <3> QED
      BY <1>2, <1>5, <3>3 DEF ExtentInv
  <2>2. p \in checkpoint'[r] .. FeedLength /\ from'[r] <= checkpoint'[r]
    BY <1>1, <1>2, <1>3, <1>5, Constants
  <2>3. status'[r] # "ABSENT"
    BY <1>1, <1>2
  <2> QED
    BY <1>6, <2>1, <2>2, <2>3 DEF ExtentInv
<1>11. ASSUME NEW v \in Actors, v # s PROVE ActorInv(v)'
  <2>1. ActorInv(v)
    OBVIOUS
  <2>2. CASE run[v] = r
    <3>1. v \notin Syncs
      BY <1>1, <1>3, <1>11, <2>2 DEF RunInv
    <3>2. CallInv(v)' /\ DriverInv(v)'
      BY <1>2, <1>4, <1>7, <1>11, <2>1, <3>1 DEF ActorInv, CallInv, DriverInv
    <3>3. pc[v] = "update" => found[v].checkpoint <= d
      <4>1. found[v].checkpoint \in Nat
        BY Constants DEF TypeOK
      <4> QED
        BY <1>1, <1>3, <2>1, <2>2, <4>1 DEF ActorInv, FoundInv
    <3>4. FoundInv(v)'
      <4>1. pc[v] = "update" => goal[v] # "complete"
        BY <2>1, <3>1 DEF ActorInv, CallInv
      <4> QED
        BY <1>2, <1>5, <1>7, <1>11, <2>1, <2>2, <3>3, <4>1 DEF ActorInv, FoundInv
    <3> QED
      BY <3>2, <3>4 DEF ActorInv
  <2>3. CASE run[v] # r
    <3>1. run[v] # NoRun => run[v] \in Runs \ {r}
      BY <2>3 DEF TypeOK
    <3> QED
      BY <1>2, <1>4, <1>5, <1>7, <1>11, <3>1, ActorFrame
  <2> QED
    BY <2>2, <2>3
<1>12. ActorInv(s)'
  <2>1. run'[s] = r /\ r \in Created'
    BY <1>1, <1>2, <1>4
  <2>2. ASSUME NEW g \in {"fail", "cancel"}, Ask(s, g) PROVE ActorInv(s)'
    BY <1>2, <2>1, <2>2, AskFacts, AskedInv
  <2>3. CASE /\ d = p
             /\ at' = [at EXCEPT ![s] = d]
             /\ pc' = [pc EXCEPT ![s] = "fetch"] /\ UNCHANGED <<goal, found>>
    <3>1. pc'[s] = "fetch" /\ at'[s] = p
      BY <1>2, <2>3 DEF TypeOK
    <3> QED
      BY <1>5, <1>6, <2>1, <2>3, <3>1 DEF ActorInv, CallInv, DriverInv, FoundInv
  <2>4. CASE /\ p = FeedLength
             /\ at' = [at EXCEPT ![s] = d]
             /\ Ask(s, "complete")
    <3>1. at'[s] = d
      BY <1>2, <2>4 DEF TypeOK
    <3>2. pc'[s] = "find" /\ goal'[s] = "complete"
      BY <1>2, <2>4, AskFacts
    <3> QED
      BY <1>5, <1>6, <2>1, <2>4, <3>1, <3>2 DEF ActorInv, CallInv, DriverInv, FoundInv
  <2> QED
    BY <1>1, <2>2, <2>3, <2>4
<1>13. QueuedIsFinal'
  <2>1. r \notin queued /\ queued \subseteq Runs
    BY <1>1 DEF QueuedIsFinal, Processable
  <2> QED
    BY <1>2, <1>4, <1>5, <2>1 DEF QueuedIsFinal, Behind
<1>14. Accounted'
  BY <1>2 DEF Accounted
<1>15. UnclaimedInv'
  <2>1. r \notin unclaimed
    BY <1>1 DEF UnclaimedInv
  <2>2. unclaimed \subseteq Runs \ {r}
    BY <2>1 DEF TypeOK
  <2> QED
    BY <1>2, <1>4, <1>5, <2>2 DEF UnclaimedInv
<1> QED
  BY <1>8, <1>9, <1>10, <1>11, <1>12, <1>13, <1>14, <1>15

\* The whole rest of the feed is what lies behind a run's start.
LEMMA RestOfFeed ==
  ASSUME NEW c \in Positions
  PROVE  (c + 1 .. FeedLength) \cap Sound = Behind(c, Sound)
BY Constants DEF Behind, Sound, Of, Rows

\* A run ends. What is written was read while it was RUNNING, which it still is; and a
\* run is completed by its driver only, once the feed is read to its end.
LEMMA StepUpdate == ASSUME IInv, NEW a \in Actors, Update(a) PROVE IInv'
<1> USE DEF IInv
<1>1. PICK r \in Runs : r = run[a] /\ r \in Created /\ r # NoRun
  BY BusyRun DEF Update
<1>2. /\ pc[a] = "update" /\ found[a].status = "RUNNING" /\ CallInv(a)
      /\ DriverInv(a) /\ FoundInv(a)
  BY DEF Update, ActorInv, FoundInv
<1>3. UNCHANGED <<sourceVars, abandoned>>
  BY DEF Update
<1>4. CASE status[r] # found[a].status /\ TransitionFails(a) /\ UNCHANGED runVars
  BY <1>1, <1>2, <1>3, <1>4, StepTransitionFails DEF TypeOK
<1>5. CASE /\ status[r] = found[a].status
           /\ status' = [status EXCEPT ![r] = Target(a)]
           /\ checkpoint' = [checkpoint EXCEPT ![r] = Written(a)]
           /\ queued' = IF Processable(Target(a)) THEN queued \cup {r} ELSE queued
           /\ UNCHANGED <<seen, failed, saved, from, unclaimed>>
           /\ Leave(a) \/ TransitionFails(a)
  <2>1. status[r] = "RUNNING"
    BY <1>2, <1>5
  <2>2. /\ goal[a] # "none"
        /\ goal[a] = "complete" => /\ checkpoint[r] = at[a] /\ Reached(r, FeedLength)
                                   /\ found[a].failed = failed[r]
        /\ from[r] <= found[a].checkpoint /\ found[a].checkpoint <= checkpoint[r]
    BY <1>1, <1>2, <2>1 DEF CallInv, DriverInv, FoundInv
  <2>3. goal[a] \in {"complete", "fail", "cancel"}
    BY <2>2 DEF TypeOK, Goals
  <2>4. PICK t \in Terminal : t = Target(a)
    BY <2>3 DEF Target, Terminal
  <2>5. Processable(t) => goal[a] = "complete" /\ (t = "PARTIAL" <=> failed[r] > 0)
    BY <2>2, <2>3, <2>4 DEF Target, Processable
  <2>6. /\ checkpoint[r] \in Positions /\ checkpoint[r] \in Nat /\ from[r] \in Nat
        /\ at[a] \in Positions /\ from[r] \in Positions
        /\ found[a].checkpoint \in Positions /\ found[a].checkpoint \in Nat
    BY Constants DEF TypeOK
  <2>7. PICK w \in Positions : w = Written(a)
    BY <1>1, <2>6 DEF Written
  <2>8. from[r] <= w /\ w <= checkpoint[r]
    <3>1. from[r] <= checkpoint[r]
      BY <2>2, <2>6
    <3>2. w \in {checkpoint[r], found[a].checkpoint}
      BY <1>1, <2>2, <2>7 DEF Written
    <3> QED
      BY <2>2, <2>6, <3>1, <3>2
  <2>9. /\ status'[r] = t /\ checkpoint'[r] = w
        /\ \A q \in Runs \ {r} : status'[q] = status[q] /\ checkpoint'[q] = checkpoint[q]
    BY <1>5, <2>4, <2>7 DEF TypeOK
  <2>10. t \notin {"ABSENT", "RUNNING"}
    BY <2>4 DEF Terminal
  <2>11. Created' = Created
    BY <1>1, <2>9, <2>10 DEF Created
  <2>12. Sound' = Sound /\ Malformed' = Malformed
    BY <1>3 DEF sourceVars, Sound, Malformed, Of
  <2>13. /\ pc' \in [Actors -> Locations] /\ run' \in [Actors -> Runs \cup {NoRun}]
         /\ at' \in [Actors -> Positions] /\ goal' \in [Actors -> Goals]
         /\ found' \in [Actors -> [status : Statuses, failed : 0 .. FeedLength,
                                   checkpoint : Positions]]
         /\ run'[a] \in {r, NoRun}
         /\ \A v \in Actors \ {a} : /\ pc'[v] = pc[v] /\ run'[v] = run[v] /\ at'[v] = at[v]
                                    /\ goal'[v] = goal[v] /\ found'[v] = found[v]
         /\ ActorInv(a)'
    <3>1. CASE Leave(a)
      BY <3>1, LeaveFacts, IdleInv
    <3>2. CASE GiveUp(a) /\ UNCHANGED <<run, at>>
      <4>1. PICK g \in {"fail", "cancel"} : Ask(a, g)
        BY <3>2 DEF GiveUp
      <4>2. run'[a] = r /\ r \in Created'
        BY <1>1, <2>11, <3>2
      <4>3. ActorInv(a)'
        BY <4>1, <4>2, AskFacts, AskedInv
      <4> QED
        BY <3>2, <4>1, <4>2, <4>3, AskFacts DEF TypeOK
    <3> QED
      BY <1>5, <3>1, <3>2 DEF TransitionFails
  <2>14. TypeOK'
    <3>1. Terminal \subseteq Statuses
      BY DEF Terminal, Statuses
    <3>2. status' \in [Runs -> Statuses] /\ checkpoint' \in [Runs -> Positions]
      BY <1>5, <2>4, <2>7, <3>1 DEF TypeOK
    <3>3. queued' \subseteq Runs
      BY <1>5 DEF TypeOK
    <3> QED
      BY <1>3, <1>5, <2>13, <3>2, <3>3 DEF TypeOK, SourceTypeOK, sourceVars, Rows, RowTypes
  <2>15. RunInv'
    <3>1. \A s, u \in Syncs : run'[s] # NoRun /\ run'[s] = run'[u] => s = u
      BY <1>1, <2>13 DEF RunInv, Actors
    <3>2. \A q, e \in Runs : status'[q] = "RUNNING" /\ status'[e] = "RUNNING" => q = e
      BY <2>9, <2>10 DEF RunInv
    <3> QED
      BY <2>11, <3>1, <3>2 DEF RunInv
  <2>16. ExtentInv'
    <3>1. \A q \in Runs : \A p : Reached(q, p) => Reached(q, p)'
      BY <1>5, <2>12, Zenon DEF Reached
    <3>2. ASSUME NEW q \in Runs
          PROVE  /\ status'[q] = "ABSENT" => /\ from'[q] = 0 /\ checkpoint'[q] = 0
                                             /\ saved'[q] = {} /\ failed'[q] = 0
                 /\ from'[q] <= checkpoint'[q]
                 /\ \E p \in checkpoint'[q] .. FeedLength : Reached(q, p)'
      <4>1. PICK p \in checkpoint[q] .. FeedLength : Reached(q, p)
        BY DEF ExtentInv
      <4>2. from[q] <= checkpoint[q] /\ checkpoint[q] \in Nat
        BY Constants DEF ExtentInv, TypeOK
      <4>3. CASE q = r
        <5>1. w \in Nat
          BY Constants
        <5>2. p \in checkpoint'[q] .. FeedLength
          BY <2>6, <2>8, <2>9, <4>1, <4>3, <5>1
        <5> QED
          BY <1>5, <2>8, <2>9, <2>10, <3>1, <4>1, <4>3, <5>2
      <4>4. CASE q # r
        <5>1. p \in checkpoint'[q] .. FeedLength /\ Reached(q, p)'
          BY <2>9, <3>1, <4>1, <4>4
        <5> QED
          BY <1>5, <2>9, <4>2, <4>4, <5>1 DEF ExtentInv
      <4> QED
        BY <4>3, <4>4
    <3> QED
      BY <3>2 DEF ExtentInv
  <2>17. ASSUME NEW v \in Actors PROVE ActorInv(v)'
    <3>1. CASE v = a
      BY <2>13, <3>1
    <3>2. CASE v # a
      <4>1. run[v] # NoRun => run[v] \in Runs
        BY DEF TypeOK
      <4>2. run[v] # NoRun /\ status'[run[v]] = "RUNNING" => run[v] \in Runs \ {r}
        BY <2>9, <2>10, <4>1
      <4> QED
        BY <1>3, <1>5, <2>9, <2>11, <2>13, <3>2, <4>2, ActorFrame
    <3> QED
      BY <3>1, <3>2
  <2>18. QueuedIsFinal'
    <3>1. r \notin queued /\ queued \subseteq Runs
          /\ queued = {q \in Runs : Processable(status[q])}
      BY <2>1 DEF QueuedIsFinal, Processable
    <3>2. queued' = {q \in Runs : Processable(status'[q])}
      BY <1>5, <2>4, <2>9, <3>1
    <3>3. ASSUME NEW q \in queued, q # r
          PROVE  saved'[q] = Behind(from[q], Sound)' /\ (status'[q] = "PARTIAL" <=> failed'[q] > 0)
      <4>1. saved[q] = Behind(from[q], Sound) /\ (status[q] = "PARTIAL" <=> failed[q] > 0)
        BY DEF QueuedIsFinal
      <4>2. status'[q] = status[q] /\ UNCHANGED <<saved, from, failed>>
        BY <1>5, <2>9, <3>1, <3>3
      <4> QED
        BY <2>12, <4>1, <4>2 DEF Behind
    <3>4. ASSUME r \in queued'
          PROVE  saved'[r] = Behind(from[r], Sound)' /\ (status'[r] = "PARTIAL" <=> failed'[r] > 0)
      <4>1. Processable(t)
        BY <1>5, <2>4, <3>1, <3>4
      <4>2. saved[r] = (from[r] + 1 .. FeedLength) \cap Sound
        BY <2>2, <2>5, <4>1 DEF Reached
      <4>3. saved[r] = Behind(from[r], Sound)
        BY <2>6, <4>2, RestOfFeed
      <4> QED
        BY <1>5, <2>5, <2>9, <2>12, <4>1, <4>3 DEF Behind
    <3>5. \A q \in queued' : q = r \/ (q \in queued /\ q # r)
      BY <1>5, <3>1
    <3> QED
      BY <3>2, <3>3, <3>4, <3>5 DEF QueuedIsFinal
  <2>19. Accounted'
    BY <1>3, <1>5, <2>1, <2>9, <2>10 DEF Accounted, RunInv
  <2>20. UnclaimedInv'
    <3>1. ASSUME NEW q \in unclaimed PROVE q \in Runs /\ \A s \in Syncs : run'[s] # q
      BY <1>1, <2>13, Constants DEF UnclaimedInv, Actors, TypeOK
    <3>2. ASSUME r \in unclaimed PROVE checkpoint'[r] = from[r] /\ r \notin queued'
      <4>1. goal[a] # "complete" /\ checkpoint[r] = from[r] /\ r \notin queued
        BY <1>1, <1>2, <3>2 DEF UnclaimedInv, CallInv
      <4>2. w = from[r]
        BY <2>6, <2>8, <4>1, Constants
      <4> QED
        BY <1>5, <2>4, <2>5, <2>9, <4>1, <4>2
    <3>3. ASSUME NEW q \in unclaimed, q # r PROVE checkpoint'[q] = from[q] /\ q \notin queued'
      BY <1>5, <2>9, <3>1, <3>3 DEF UnclaimedInv
    <3>4. \A q \in unclaimed : q \in Created /\ saved[q] = {}
      BY DEF UnclaimedInv
    <3>5. unclaimed' = unclaimed /\ saved' = saved /\ from' = from
      BY <1>5
    <3> QED
      BY <2>11, <3>1, <3>2, <3>3, <3>4, <3>5 DEF UnclaimedInv
  <2> QED
    BY <2>14, <2>15, <2>16, <2>17, <2>18, <2>19, <2>20
<1> QED
  BY <1>1, <1>4, <1>5 DEF Update

LEMMA StepIInv == IInv /\ [Next]_vars => IInv'
<1> SUFFICES ASSUME IInv, [Next]_vars PROVE IInv'
  OBVIOUS
<1>0. /\ Syncs \subseteq Actors /\ Operators \subseteq Actors
      /\ \A r \in Runs : checkpoint[r] \in Positions
  BY DEF Actors, IInv, TypeOK
<1>1. ASSUME NEW s \in Syncs, NEW c \in StartingPoints, Check(s, c) PROVE IInv'
  <2>1. c \in Positions
    BY <1>0, Constants DEF StartingPoints
  <2> QED
    BY <1>0, <1>1, <2>1, StepCheck
<1>2. ASSUME NEW s \in Syncs, Fetch(s) \/ Persist(s) \/ PersistFails(s) PROVE IInv'
  BY <1>2, StepFetch, StepPersist, StepPersistFails
<1>3. ASSUME NEW o \in Operators, NEW r \in Runs, ResumeRun(o, r) \/ Intervene(o, r)
      PROVE  IInv'
  BY <1>0, <1>3, StepCheck, StepIntervene DEF ResumeRun
<1>4. ASSUME NEW a \in Actors, Create(a) \/ CreateFails(a) PROVE IInv'
  BY <1>4, StepCreate, StepCreateFails
<1>6. ASSUME NEW a \in Actors, Find(a) \/ Update(a) \/ StoreError(a) \/ Crash(a) PROVE IInv'
  BY <1>6, StepFind, StepUpdate, StepStoreError, StepCrash
<1>5. CASE UNCHANGED vars
  <2>1. UNCHANGED <<sourceVars, runVars>> /\ UNCHANGED <<pc, run, at, goal, found, abandoned>>
    BY <1>5 DEF vars, actorVars
  <2>2. ExtentInv' /\ QueuedIsFinal' /\ Created' = Created
    BY <2>1, RowsFrame
  <2>3. TypeOK'
    BY <2>1 DEF IInv, TypeOK, SourceTypeOK, sourceVars, runVars, Rows, RowTypes
  <2>4. RunInv' /\ Accounted' /\ UnclaimedInv'
    BY <2>1, <2>2 DEF IInv, RunInv, Accounted, UnclaimedInv, runVars
  <2>5. \A a \in Actors : ActorInv(a)'
    BY <2>1, <2>2, ActorFrame DEF runVars
  <2> QED
    BY <2>2, <2>3, <2>4, <2>5 DEF IInv
<1> QED
  BY <1>1, <1>2, <1>3, <1>4, <1>5, <1>6 DEF Next

LEMMA InvariantHolds == Spec => []IInv
BY InitIInv, StepIInv, PTL DEF Spec

-----------------------------------------------------------------------------

\* Every step of SyncSource, of the run service and of the operators keeps the types.
THEOREM SyncTypeCorrect == Spec => []TypeOK
<1>1. IInv => TypeOK
  BY DEF IInv
<1> QED
  BY <1>1, InvariantHolds, PTL

\* persistBatch: the checkpoint never passes a row that was not saved, whatever the
\* adapter answers and whoever dies, fails or cancels the run.
THEOREM SyncCheckpointBacked == Spec => []CheckpointBacked
<1>1. IInv => CheckpointBacked
  <2> SUFFICES ASSUME IInv, NEW r \in Runs
               PROVE  (from[r] + 1 .. checkpoint[r]) \cap Sound \subseteq saved[r]
    BY DEF CheckpointBacked
  <2>1. PICK p \in checkpoint[r] .. FeedLength : Reached(r, p)
    BY DEF IInv, ExtentInv
  <2>2. from[r] \in Nat /\ checkpoint[r] \in Nat
    BY Constants DEF IInv, TypeOK
  <2>3. (from[r] + 1 .. checkpoint[r]) \cap Sound \subseteq (from[r] + 1 .. p) \cap Sound
    BY <2>1, <2>2, Constants
  <2> QED
    BY <2>1, <2>3, Zenon DEF Reached
<1> QED
  BY <1>1, InvariantHolds, PTL

\* UpdateStatus and the guards of persistBatch: a run that is queued for processing has
\* ended for good with all its rows, and its status tells whether some were skipped.
THEOREM SyncQueuedIsFinal == Spec => []QueuedIsFinal
<1>1. IInv => QueuedIsFinal
  BY DEF IInv
<1> QED
  BY <1>1, InvariantHolds, PTL

\* StartRun: although it checks and creates in two steps, the unique index keeps two
\* callers from feeding RUNNING runs of the source at a time.
THEOREM SyncOneDriver == Spec => []OneDriver
<1>1. IInv => OneDriver
  <2> SUFFICES ASSUME IInv, NEW s \in Syncs, NEW u \in Syncs, s # u,
                      pc[s] \in {"fetch", "persist"}, pc[u] \in {"fetch", "persist"},
                      status[run[s]] = "RUNNING", status[run[u]] = "RUNNING"
               PROVE  FALSE
    BY DEF OneDriver
  <2>1. s \in Actors /\ u \in Actors
    BY DEF Actors
  <2>2. run[s] \in Runs /\ run[u] \in Runs /\ run[s] # NoRun
    BY <2>1, BusyRun
  <2> QED
    BY <2>2 DEF IInv, RunInv
<1> QED
  BY <1>1, InvariantHolds, PTL

\* SyncSource, StartRun and ResumeRun: a RUNNING run that nobody drives was left by a crash,
\* by a lost write of its end, by an INSERT whose caller got an error, or by ResumeRun; in
\* the last two cases it stays empty, at its start, and is never queued.
THEOREM SyncStrandedRuns == Spec => []StrandedRuns
<1>1. IInv => StrandedRuns
  BY DEF IInv, Accounted, UnclaimedInv, StrandedRuns
<1> QED
  BY <1>1, InvariantHolds, PTL

=============================================================================

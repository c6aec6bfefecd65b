------------------------ MODULE RunProcessingProofs ------------------------
(***************************************************************************)
(* For any number of runs, workers, tokens, records, commands and faults:  *)
(* RunProcessing is type correct, cursor, counters and products of a run   *)
(* move together, and a COMPLETED run is whole.                            *)
(*                                                                         *)
(* The argument: a token is held by one worker, and a row that has a token *)
(* is RUNNING (ClaimInv). So between its claim and its last statement at   *)
(* most one worker owns a run, and that one's own cursor is the row's      *)
(* (CursorInv), however stale the others are: the page it commits is the   *)
(* one right behind the cursor, and it completes the run only at the end.  *)
(***************************************************************************)
EXTENDS RunProcessing, FiniteSetTheorems, TLAPS

\* Where a worker is past its claim and acts on the cursor that it got from it.
Running == {"load", "list", "page", "fail", "release", "complete"}

\* Tokens are not shared, and a token in the row means that the run is RUNNING.
ClaimInv ==
  /\ \A w \in Workers : pc[w] # "idle" => job[w] \in Runs /\ held[w] \in Tokens
  /\ \A w \in Workers : pc[w] = "idle" => held[w] = NoToken
  /\ \A w, v \in Workers : held[w] # NoToken /\ held[w] = held[v] => w = v
  /\ \A r \in Runs : claimToken[r] # NoToken => status[r] = "RUNNING"

\* The owner of a run stands where the row says, and completes only the whole run.
CursorInv ==
  /\ \A w \in Workers : pc[w] \in Running /\ Owns(w) => at[w] = cursor[job[w]]
  /\ \A w \in Workers : pc[w] = "complete" => at[w] = RunLength

IInv == TypeOK /\ ClaimInv /\ CursorInv /\ ProgressExact /\ CompletedIsWhole

-----------------------------------------------------------------------------
(* The operators                                                           *)

\* A page is finite, and as long as the cursor moves.
LEMMA PageSize ==
  ASSUME NEW a \in 0 .. RunLength
  PROVE  LET z == IF a + BatchSize < RunLength THEN a + BatchSize ELSE RunLength IN
         /\ z \in 0 .. RunLength /\ a <= z
         /\ IsFiniteSet(a + 1 .. z) /\ Cardinality(a + 1 .. z) = z - a
<1> DEFINE z == IF a + BatchSize < RunLength THEN a + BatchSize ELSE RunLength
<1>1. z \in 0 .. RunLength /\ a <= z
  BY SizeAssumption
<1>2. a + 1 \in Int /\ z \in Int /\ a \in Int
  BY <1>1, SizeAssumption
<1> HIDE DEF z
<1>3. IsFiniteSet(a + 1 .. z)
  BY <1>2, FS_Interval
<1>4. Cardinality(a + 1 .. z) = IF a + 1 > z THEN 0 ELSE z - (a + 1) + 1
  BY <1>2, FS_Interval
<1>5. Cardinality(a + 1 .. z) = z - a
  BY <1>1, <1>2, <1>4
<1> QED
  BY <1>1, <1>3, <1>5 DEF z

\* The rejected records up to the new cursor are those up to the old one and the page's.
LEMMA RejectedSplit ==
  ASSUME NEW B \in SUBSET Records, NEW a \in Nat, NEW z \in Nat, a <= z
  PROVE  /\ Cardinality(B \cap 1 .. a) \in Nat
         /\ Cardinality((a + 1 .. z) \cap B) \in Nat
         /\ Cardinality(B \cap 1 .. z)
              = Cardinality(B \cap 1 .. a) + Cardinality((a + 1 .. z) \cap B)
<1> DEFINE S == B \cap 1 .. a
           T == (a + 1 .. z) \cap B
<1>1. IsFiniteSet(1 .. a) /\ IsFiniteSet(a + 1 .. z)
  BY FS_Interval
<1>2. IsFiniteSet(S) /\ IsFiniteSet(T)
  BY <1>1, FS_Intersection
<1>3. Cardinality(S) \in Nat /\ Cardinality(T) \in Nat
  BY <1>2, FS_CardinalityType
<1>4. S \cap T = {} /\ B \cap 1 .. z = S \cup T
  <2>1. \A x \in B : x \in Nat
    BY SizeAssumption DEF Records
  <2>2. S \cap T = {}
    BY <2>1
  <2>3. \A x \in B : x \in 1 .. z <=> x \in 1 .. a \/ x \in a + 1 .. z
    BY <2>1
  <2> QED
    BY <2>2, <2>3
<1> HIDE DEF S, T
<1>5. Cardinality(S \cup T) = Cardinality(S) + Cardinality(T) - Cardinality(S \cap T)
  BY <1>2, FS_Union
<1>6. Cardinality(S \cap T) = 0
  BY <1>4, FS_EmptySet
<1>7. Cardinality(B \cap 1 .. z) = Cardinality(S) + Cardinality(T)
  <2>1. Cardinality(B \cap 1 .. z) = Cardinality(S \cup T)
    BY <1>4, Zenon
  <2>2. Cardinality(S \cup T) = Cardinality(S) + Cardinality(T)
    BY <1>3, <1>5, <1>6
  <2> QED
    BY <2>1, <2>2
<1> QED
  BY <1>3, <1>7 DEF S, T

\* A new token is in no row and in nobody's hands.
LEMMA NewTokenFresh ==
  ASSUME FreshTokens # {}
  PROVE  /\ NewToken \in Tokens /\ NewToken # NoToken
         /\ \A r \in Runs : claimToken[r] # NewToken
         /\ \A w \in Workers : held[w] # NewToken
<1>1. NewToken \in FreshTokens
  BY DEF NewToken
<1> QED
  BY <1>1, NoneAssumption DEF FreshTokens

\* A fault, and the return of ProcessRun.
LEMMA FaultType ==
  ASSUME TypeOK, Fault
  PROVE  faults' \in 0 .. MaxFaults
BY BoundAssumption DEF Fault, TypeOK

LEMMA LeaveType ==
  ASSUME TypeOK, NEW w \in Workers, Leave(w)
  PROVE  /\ pc' \in [Workers -> Locations]
         /\ job' \in [Workers -> Runs \cup {NoRun}]
         /\ held' \in [Workers -> Tokens \cup {NoToken}]
         /\ at' \in [Workers -> 0 .. RunLength]
         /\ tries' \in [Workers -> 0 .. 1]
         /\ pc'[w] = "idle" /\ held'[w] = NoToken
         /\ \A v \in Workers \ {w} : /\ pc'[v] = pc[v] /\ job'[v] = job[v]
                                     /\ held'[v] = held[v] /\ at'[v] = at[v]
BY SizeAssumption DEF Leave, Goto, TypeOK, Locations

LEMMA InitIInv == Init => IInv
<1> SUFFICES ASSUME Init PROVE IInv
  OBVIOUS
<1>1. TypeOK
  BY SizeAssumption, BoundAssumption DEF Init, TypeOK, Locations
<1>2. ClaimInv /\ CursorInv /\ CompletedIsWhole
  BY DEF Init, ClaimInv, CursorInv, CompletedIsWhole, Running
<1>3. ProgressExact
  <2>1. ASSUME NEW r \in Runs PROVE bad[r] \cap 1 .. cursor[r] = {}
    BY DEF Init
  <2>2. \A r \in Runs : Cardinality(bad[r] \cap 1 .. cursor[r]) = 0
    BY <2>1, FS_EmptySet
  <2>3. \A r \in Runs, i \in Records : ~(i <= cursor[r])
    BY SizeAssumption DEF Init, Records
  <2> QED
    BY <2>2, <2>3 DEF Init, ProgressExact
<1> QED
  BY <1>1, <1>2, <1>3 DEF IInv

-----------------------------------------------------------------------------
(* What most steps have in common                                          *)

\* Counters, cursors and products are looked at through the rows only.
LEMMA RowsFrame ==
  ASSUME ProgressExact, UNCHANGED <<bad, cursor, seen, failed, applied>>
  PROVE  ProgressExact'
BY DEF ProgressExact

\* A worker past its claim takes a step that leaves the rows and its cursor alone.
LEMMA StepMove ==
  ASSUME IInv, NEW w \in Workers, NEW l \in Running, Goto(w, l), pc[w] \in Running,
         l = "complete" => at[w] = RunLength,
         UNCHANGED <<bad, rowVars, job, held, at, commands>>,
         tries' \in [Workers -> 0 .. 1], faults' \in 0 .. MaxFaults
  PROVE  IInv'
<1> USE DEF IInv
<1>1. TypeOK'
  BY DEF TypeOK, Goto, Running, Locations, rowVars
<1>2. \A v \in Workers : pc'[v] = IF v = w THEN l ELSE pc[v]
  BY DEF Goto, TypeOK
<1>3. l # "idle" /\ pc[w] # "idle"
  BY DEF Running
<1>4. ClaimInv'
  BY <1>2, <1>3 DEF ClaimInv, rowVars
<1>5. CursorInv'
  BY <1>2 DEF CursorInv, Owns, rowVars
<1>6. ProgressExact' /\ CompletedIsWhole'
  BY RowsFrame DEF CompletedIsWhole, rowVars
<1> QED
  BY <1>1, <1>4, <1>5, <1>6

\* A worker returns, and the rows stay as they are.
LEMMA StepLeave ==
  ASSUME IInv, NEW w \in Workers, Leave(w), UNCHANGED <<bad, rowVars, commands>>,
         faults' \in 0 .. MaxFaults
  PROVE  IInv'
<1> USE DEF IInv
<1>1. TypeOK'
  BY LeaveType DEF TypeOK, rowVars
<1>2. ClaimInv'
  BY LeaveType DEF ClaimInv, rowVars
<1>3. CursorInv'
  BY LeaveType DEF CursorInv, Owns, rowVars, Running
<1>4. ProgressExact' /\ CompletedIsWhole'
  BY RowsFrame DEF CompletedIsWhole, rowVars
<1> QED
  BY <1>1, <1>2, <1>3, <1>4

-----------------------------------------------------------------------------
(* The steps                                                               *)

LEMMA StepQueue == ASSUME IInv, NEW r \in Runs, Queue(r) PROVE IInv'
<1> USE DEF IInv
<1>1. TypeOK'
  BY DEF TypeOK, Queue, workerVars
<1>2. claimToken[r] = NoToken
  BY DEF ClaimInv, Queue
<1>3. ClaimInv'
  BY <1>2 DEF ClaimInv, Queue, workerVars, TypeOK
<1>4. CursorInv'
  BY DEF CursorInv, Owns, Queue, workerVars
<1>5. ProgressExact' /\ CompletedIsWhole'
  BY RowsFrame DEF CompletedIsWhole, Queue, TypeOK
<1> QED
  BY <1>1, <1>3, <1>4, <1>5

LEMMA StepExpire ==
  ASSUME IInv, NEW r \in Runs, Expire(r), faults' \in 0 .. MaxFaults
  PROVE  IInv'
<1> USE DEF IInv
<1>1. TypeOK'
  BY DEF TypeOK, Expire, workerVars
<1>2. ClaimInv' /\ CursorInv'
  BY DEF ClaimInv, CursorInv, Owns, Expire, workerVars
<1>3. ProgressExact' /\ CompletedIsWhole'
  BY RowsFrame DEF CompletedIsWhole, Expire
<1> QED
  BY <1>1, <1>2, <1>3

\* A free run gets a token that nobody else holds.
LEMMA StepClaimNext == ASSUME IInv, NEW w \in Workers, ClaimNext(w) PROVE IInv'
<1> USE DEF IInv
<1>1. PICK r \in Runs : /\ status[r] = "PENDING" \/ LeaseExpired(r)
                        /\ Claim(r, NewToken)
                        /\ job' = [job EXCEPT ![w] = r]
  BY DEF ClaimNext
<1>2. /\ NewToken \in Tokens /\ NewToken # NoToken
      /\ \A v \in Workers : held[v] # NewToken
  BY NewTokenFresh DEF ClaimNext
<1>3. /\ pc' = [pc EXCEPT ![w] = "claim"] /\ held' = [held EXCEPT ![w] = NewToken]
      /\ UNCHANGED <<bad, at, tries, commands, faults>>
  BY DEF ClaimNext, Goto
<1>4. /\ status' = [status EXCEPT ![r] = "RUNNING"]
      /\ claimToken' = [claimToken EXCEPT ![r] = NewToken]
      /\ leaseLive' = [leaseLive EXCEPT ![r] = TRUE]
      /\ UNCHANGED <<cursor, seen, failed, applied>>
  BY <1>1 DEF Claim
<1>5. TypeOK'
  <2>1. /\ status' \in [Runs -> {"ABSENT", "PENDING", "RUNNING", "COMPLETED", "FAILED"}]
        /\ claimToken' \in [Runs -> Tokens \cup {NoToken}]
        /\ leaseLive' \in [Runs -> BOOLEAN]
    BY <1>2, <1>4 DEF TypeOK
  <2>2. /\ pc' \in [Workers -> Locations]
        /\ job' \in [Workers -> Runs \cup {NoRun}]
        /\ held' \in [Workers -> Tokens \cup {NoToken}]
    BY <1>1, <1>2, <1>3 DEF TypeOK, Locations
  <2> QED
    BY <1>3, <1>4, <2>1, <2>2 DEF TypeOK
<1>6. /\ pc'[w] = "claim" /\ job'[w] = r /\ held'[w] = NewToken
      /\ \A v \in Workers \ {w} : pc'[v] = pc[v] /\ job'[v] = job[v] /\ held'[v] = held[v]
  BY <1>1, <1>3 DEF TypeOK
<1>7. \A q \in Runs : /\ claimToken'[q] = IF q = r THEN NewToken ELSE claimToken[q]
                      /\ status'[q] = IF q = r THEN "RUNNING" ELSE status[q]
  BY <1>4 DEF TypeOK
<1>8. ClaimInv'
  <2>1. \A v \in Workers : pc'[v] # "idle" => job'[v] \in Runs /\ held'[v] \in Tokens
    BY <1>2, <1>6 DEF ClaimInv
  <2>2. \A v \in Workers : pc'[v] = "idle" => held'[v] = NoToken
    BY <1>6 DEF ClaimInv
  <2>3. \A v, u \in Workers : held'[v] # NoToken /\ held'[v] = held'[u] => v = u
    BY <1>2, <1>6 DEF ClaimInv
  <2>4. \A q \in Runs : claimToken'[q] # NoToken => status'[q] = "RUNNING"
    BY <1>7 DEF ClaimInv
  <2> QED
    BY <2>1, <2>2, <2>3, <2>4 DEF ClaimInv
<1>9. CursorInv'
  <2>1. ASSUME NEW v \in Workers, pc'[v] \in Running, Owns(v)'
        PROVE  at'[v] = cursor'[job'[v]]
    <3>1. v # w
      BY <1>6, <2>1 DEF Running
    <3>2. job[v] \in Runs
      BY <1>6, <2>1, <3>1 DEF ClaimInv, Running
    <3>3. Owns(v)
      BY <1>2, <1>6, <1>7, <2>1, <3>1, <3>2 DEF Owns
    <3> QED
      BY <1>3, <1>4, <1>6, <2>1, <3>1, <3>3 DEF CursorInv
  <2>2. \A v \in Workers : pc'[v] = "complete" => at'[v] = RunLength
    BY <1>3, <1>6 DEF CursorInv
  <2> QED
    BY <2>1, <2>2 DEF CursorInv
<1>10. ProgressExact' /\ CompletedIsWhole'
  BY <1>3, <1>4, <1>7, RowsFrame DEF CompletedIsWhole
<1> QED
  BY <1>5, <1>8, <1>9, <1>10

LEMMA StepCommand ==
  ASSUME IInv, NEW w \in Workers, NEW r \in Runs, NEW fromStart \in BOOLEAN,
         Command(w, r, fromStart)
  PROVE  IInv'
<1> USE DEF IInv
<1>1. /\ NewToken \in Tokens /\ NewToken # NoToken
      /\ \A v \in Workers : held[v] # NewToken
  BY NewTokenFresh DEF Command
<1>2. PICK l \in {"reset", "claim"} : pc' = [pc EXCEPT ![w] = l]
  BY DEF Command, Goto
<1>3. commands' \in 0 .. MaxCommands
  BY BoundAssumption DEF Command, TypeOK
<1>4. TypeOK'
  <2>1. /\ pc' \in [Workers -> Locations]
        /\ job' \in [Workers -> Runs \cup {NoRun}]
        /\ held' \in [Workers -> Tokens \cup {NoToken}]
    BY <1>1, <1>2 DEF TypeOK, Locations, Command
  <2> QED
    BY <1>3, <2>1 DEF TypeOK, Command, rowVars
<1>5. /\ pc'[w] = l /\ job'[w] = r /\ held'[w] = NewToken
      /\ \A v \in Workers \ {w} : pc'[v] = pc[v] /\ job'[v] = job[v] /\ held'[v] = held[v]
  BY <1>2 DEF TypeOK, Command
<1>6. ClaimInv'
  <2>1. \A v \in Workers : pc'[v] # "idle" => job'[v] \in Runs /\ held'[v] \in Tokens
    BY <1>1, <1>5 DEF ClaimInv
  <2>2. \A v \in Workers : pc'[v] = "idle" => held'[v] = NoToken
    BY <1>5 DEF ClaimInv
  <2>3. \A v, u \in Workers : held'[v] # NoToken /\ held'[v] = held'[u] => v = u
    BY <1>1, <1>5 DEF ClaimInv
  <2> QED
    BY <2>1, <2>2, <2>3 DEF ClaimInv, Command, rowVars
<1>7. CursorInv'
  BY <1>5 DEF CursorInv, Owns, Running, Command, rowVars
<1>8. ProgressExact' /\ CompletedIsWhole'
  BY RowsFrame DEF CompletedIsWhole, Command, rowVars
<1> QED
  BY <1>4, <1>6, <1>7, <1>8

\* A reset puts the whole row back to the beginning, and takes the run from its owner.
LEMMA StepResetFromStart == ASSUME IInv, NEW w \in Workers, ResetFromStart(w) PROVE IInv'
<1> USE DEF IInv
<1> DEFINE r == job[w]
<1>1. r \in Runs
  BY DEF ResetFromStart, ClaimInv
<1>2. CASE Resettable(r) /\ status' = [status EXCEPT ![r] = "PENDING"]
  <2>1. /\ claimToken' = [claimToken EXCEPT ![r] = NoToken]
        /\ leaseLive' = [leaseLive EXCEPT ![r] = FALSE]
        /\ cursor' = [cursor EXCEPT ![r] = 0]
        /\ seen' = [seen EXCEPT ![r] = 0]
        /\ failed' = [failed EXCEPT ![r] = 0]
        /\ applied' = [applied EXCEPT ![r] = [i \in Records |-> 0]]
        /\ pc' = [pc EXCEPT ![w] = "claim"]
        /\ UNCHANGED <<job, held, at, tries, bad, commands, faults>>
    BY <1>2 DEF ResetFromStart, Goto
  <2>2. TypeOK'
    <3>1. /\ status' \in [Runs -> {"ABSENT", "PENDING", "RUNNING", "COMPLETED", "FAILED"}]
          /\ claimToken' \in [Runs -> Tokens \cup {NoToken}]
          /\ leaseLive' \in [Runs -> BOOLEAN]
          /\ cursor' \in [Runs -> 0 .. RunLength]
      <4>1. 0 \in 0 .. RunLength
        BY SizeAssumption
      <4>2. cursor' \in [Runs -> 0 .. RunLength]
        BY <2>1, <4>1, Zenon DEF TypeOK
      <4>3. /\ status' \in [Runs -> {"ABSENT", "PENDING", "RUNNING", "COMPLETED", "FAILED"}]
            /\ claimToken' \in [Runs -> Tokens \cup {NoToken}]
            /\ leaseLive' \in [Runs -> BOOLEAN]
        BY <1>2, <2>1 DEF TypeOK
      <4> QED
        BY <4>2, <4>3
    <3>2. /\ seen' \in [Runs -> Nat] /\ failed' \in [Runs -> Nat]
          /\ applied' \in [Runs -> [Records -> Nat]]
      <4>1. [i \in Records |-> 0] \in [Records -> Nat]
        OBVIOUS
      <4>2. applied' \in [Runs -> [Records -> Nat]]
        BY <2>1, <4>1, Zenon DEF TypeOK
      <4> QED
        BY <2>1, <4>2 DEF TypeOK
    <3>3. pc' \in [Workers -> Locations]
      BY <2>1 DEF TypeOK, Locations
    <3> QED
      BY <2>1, <3>1, <3>2, <3>3 DEF TypeOK
  <2>3. /\ \A q \in Runs \ {r} : /\ status'[q] = status[q] /\ claimToken'[q] = claimToken[q]
                                 /\ cursor'[q] = cursor[q] /\ seen'[q] = seen[q]
                                 /\ failed'[q] = failed[q] /\ applied'[q] = applied[q]
        /\ status'[r] = "PENDING" /\ claimToken'[r] = NoToken /\ cursor'[r] = 0
        /\ seen'[r] = 0 /\ failed'[r] = 0 /\ \A i \in Records : applied'[r][i] = 0
    BY <1>1, <1>2, <2>1 DEF TypeOK
  <2>4. /\ pc'[w] = "claim" /\ pc[w] = "reset"
        /\ \A v \in Workers \ {w} : pc'[v] = pc[v]
    BY <2>1 DEF TypeOK, ResetFromStart
  <2>5. ClaimInv'
    BY <2>1, <2>3, <2>4 DEF ClaimInv
  <2>6. CursorInv'
    <3>1. ASSUME NEW v \in Workers, pc'[v] \in Running, Owns(v)'
          PROVE  at'[v] = cursor'[job'[v]]
      <4>1. v # w /\ pc[v] \in Running
        BY <2>4, <3>1 DEF Running
      <4>2. job[v] \in Runs /\ held[v] \in Tokens
        BY <4>1 DEF ClaimInv, Running
      <4>3. job[v] # r
        BY <2>1, <2>3, <3>1, <4>2, NoneAssumption DEF Owns
      <4> QED
        BY <2>1, <2>3, <3>1, <4>1, <4>2, <4>3 DEF Owns, CursorInv
    <3>2. \A v \in Workers : pc'[v] = "complete" => at'[v] = RunLength
      BY <2>1, <2>4 DEF CursorInv
    <3> QED
      BY <3>1, <3>2 DEF CursorInv
  <2>7. ProgressExact'
    <3>1. ASSUME NEW q \in Runs \ {r}
          PROVE  /\ \A i \in Records : applied'[q][i] = IF i <= cursor'[q] THEN 1 ELSE 0
                 /\ seen'[q] = cursor'[q]
                 /\ failed'[q] = Cardinality(bad'[q] \cap 1 .. cursor'[q])
      <4>1. /\ cursor'[q] = cursor[q] /\ seen'[q] = seen[q] /\ failed'[q] = failed[q]
            /\ applied'[q] = applied[q] /\ bad'[q] = bad[q]
        BY <2>1, <2>3
      <4>2. failed'[q] = Cardinality(bad'[q] \cap 1 .. cursor'[q])
        BY <4>1, Zenon DEF ProgressExact
      <4> QED
        BY <4>1, <4>2 DEF ProgressExact
    <3>2. bad'[r] \cap 1 .. cursor'[r] = {}
      BY <2>3
    <3>3. Cardinality(bad'[r] \cap 1 .. cursor'[r]) = 0
      BY <3>2, FS_EmptySet
    <3>4. \A i \in Records : ~(i <= cursor'[r])
      BY <2>3, SizeAssumption DEF Records
    <3> QED
      BY <2>3, <3>1, <3>3, <3>4 DEF ProgressExact
  <2>8. CompletedIsWhole'
    BY <2>3 DEF CompletedIsWhole
  <2> QED
    BY <2>2, <2>5, <2>6, <2>7, <2>8
<1>3. CASE Leave(w) /\ UNCHANGED rowVars
  BY <1>3, StepLeave DEF ResetFromStart, TypeOK
<1> QED
  BY <1>2, <1>3 DEF ResetFromStart

\* The claim hands its cursor to the worker; whoever held the run before owns nothing now.
LEMMA StepClaimSpecific == ASSUME IInv, NEW w \in Workers, ClaimSpecific(w) PROVE IInv'
<1> USE DEF IInv
<1> DEFINE r == job[w]
           t == held[w]
<1>1. r \in Runs /\ t \in Tokens /\ t # NoToken
  BY NoneAssumption DEF ClaimSpecific, ClaimInv
<1>2. CASE Claim(r, t) /\ at' = [at EXCEPT ![w] = cursor[r]] /\ Goto(w, "load")
           /\ UNCHANGED <<job, held, tries>>
  <2>1. /\ status' = [status EXCEPT ![r] = "RUNNING"]
        /\ claimToken' = [claimToken EXCEPT ![r] = t]
        /\ leaseLive' = [leaseLive EXCEPT ![r] = TRUE]
        /\ UNCHANGED <<cursor, seen, failed, applied, bad, commands, faults>>
    BY <1>2 DEF Claim, ClaimSpecific
  <2>2. TypeOK'
    <3>1. /\ status' \in [Runs -> {"ABSENT", "PENDING", "RUNNING", "COMPLETED", "FAILED"}]
          /\ claimToken' \in [Runs -> Tokens \cup {NoToken}]
          /\ leaseLive' \in [Runs -> BOOLEAN]
      BY <1>1, <2>1 DEF TypeOK
    <3>2. cursor[r] \in 0 .. RunLength
      BY <1>1 DEF TypeOK
    <3>3. at' \in [Workers -> 0 .. RunLength]
      BY <1>2, <3>2, Zenon DEF TypeOK
    <3>4. pc' \in [Workers -> Locations]
      BY <1>2 DEF TypeOK, Locations, Goto
    <3> QED
      BY <1>2, <2>1, <3>1, <3>3, <3>4 DEF TypeOK
  <2>3. /\ pc'[w] = "load" /\ at'[w] = cursor[r] /\ pc[w] = "claim"
        /\ \A v \in Workers \ {w} : pc'[v] = pc[v] /\ at'[v] = at[v]
    BY <1>2 DEF TypeOK, Goto, ClaimSpecific
  <2>4. \A q \in Runs : /\ claimToken'[q] = IF q = r THEN t ELSE claimToken[q]
                        /\ status'[q] = IF q = r THEN "RUNNING" ELSE status[q]
    BY <2>1 DEF TypeOK
  <2>5. ClaimInv'
    BY <1>2, <2>3, <2>4 DEF ClaimInv
  <2>6. CursorInv'
    <3>1. ASSUME NEW v \in Workers, v # w, pc'[v] \in Running, Owns(v)'
          PROVE  at'[v] = cursor'[job'[v]]
      <4>1. pc[v] \in Running /\ job[v] \in Runs /\ held[v] # t
        BY <1>1, <2>3, <3>1 DEF ClaimInv, Running
      <4>2. Owns(v)
        BY <1>2, <2>4, <3>1, <4>1 DEF Owns
      <4> QED
        BY <1>2, <2>1, <2>3, <3>1, <4>1, <4>2 DEF CursorInv
    <3>2. at'[w] = cursor'[job'[w]]
      BY <1>2, <2>1, <2>3
    <3>3. \A v \in Workers : pc'[v] = "complete" => at'[v] = RunLength
      BY <2>3 DEF CursorInv
    <3> QED
      BY <3>1, <3>2, <3>3 DEF CursorInv
  <2>7. ProgressExact' /\ CompletedIsWhole'
    BY <2>1, <2>4, RowsFrame DEF CompletedIsWhole
  <2> QED
    BY <2>2, <2>5, <2>6, <2>7
<1>3. CASE Leave(w) /\ UNCHANGED rowVars
  BY <1>3, StepLeave DEF ClaimSpecific, TypeOK
<1> QED
  BY <1>2, <1>3 DEF ClaimSpecific

LEMMA StepLoadSource == ASSUME IInv, NEW w \in Workers, LoadSource(w) PROVE IInv'
<1>1. PICK l \in {"list", "fail"} : Goto(w, l)
  BY DEF LoadSource
<1> QED
  BY <1>1, StepMove DEF LoadSource, Running, IInv, TypeOK

LEMMA StepListPage == ASSUME IInv, NEW w \in Workers, ListPage(w) PROVE IInv'
<1> DEFINE l == IF at[w] < RunLength THEN "page" ELSE "complete"
<1>1. at[w] \in 0 .. RunLength
  BY DEF IInv, TypeOK
<1>2. Goto(w, l) /\ l \in Running /\ pc[w] \in Running
  BY DEF ListPage, Running
<1>3. l = "complete" => at[w] = RunLength
  BY <1>1, SizeAssumption
<1> HIDE DEF l
<1> QED
  BY <1>2, <1>3, StepMove DEF ListPage, IInv, TypeOK

LEMMA StepQueryFails == ASSUME IInv, NEW w \in Workers, QueryFails(w) PROVE IInv'
<1>1. PICK l \in {"fail", "release"} : Goto(w, l)
  BY DEF QueryFails
<1>2. faults' \in 0 .. MaxFaults
  BY FaultType DEF QueryFails, IInv
<1> QED
  BY <1>1, <1>2, StepMove DEF QueryFails, Running, IInv, TypeOK

LEMMA StepPageConflict == ASSUME IInv, NEW w \in Workers, PageConflict(w) PROVE IInv'
<1>1. CASE tries[w] = 0
  <2>1. Goto(w, "page")
    BY <1>1 DEF PageConflict, Goto, IInv, TypeOK
  <2>2. tries' \in [Workers -> 0 .. 1]
    BY <1>1 DEF PageConflict, IInv, TypeOK
  <2> QED
    BY <2>1, <2>2, StepMove DEF PageConflict, Running, IInv, TypeOK
<1>2. CASE tries[w] # 0
  <2>1. Goto(w, "fail") /\ UNCHANGED tries
    BY <1>2 DEF PageConflict
  <2> QED
    BY <2>1, StepMove DEF PageConflict, Running, IInv, TypeOK
<1> QED
  BY <1>1, <1>2

\* The owner's page is the one right behind the row's cursor, so every record of it is
\* applied for the first time and the counters grow by what the page holds.
LEMMA StepCommitPage == ASSUME IInv, NEW w \in Workers, CommitPage(w) PROVE IInv'
<1> USE DEF IInv
<1> DEFINE r == job[w]
           a == at[w]
           z == Last(w)
<1>1. /\ pc[w] = "page" /\ r \in Runs /\ Owns(w) /\ a = cursor[r] /\ held[w] # NoToken
      /\ a \in 0 .. RunLength /\ status[r] = "RUNNING"
  BY NoneAssumption DEF CommitPage, MayProgress, ClaimInv, CursorInv, Running, TypeOK
<1>2. /\ z \in 0 .. RunLength /\ a <= z
      /\ IsFiniteSet(a + 1 .. z) /\ Cardinality(a + 1 .. z) = z - a
  BY <1>1, PageSize DEF Last
<1>3. Page(w) = a + 1 .. z
  BY DEF Page
<1>4. a \in Nat /\ z \in Nat
  BY <1>1, <1>2, SizeAssumption
<1>5. PICK l \in {"fail", "list", "release"} : Goto(w, l)
  BY DEF CommitPage
<1>6. bad[r] \in SUBSET Records
  BY <1>1 DEF TypeOK
<1> HIDE DEF z
<1>7. /\ Cardinality(bad[r] \cap 1 .. a) \in Nat
      /\ Cardinality((a + 1 .. z) \cap bad[r]) \in Nat
      /\ Cardinality(bad[r] \cap 1 .. z)
           = Cardinality(bad[r] \cap 1 .. a) + Cardinality((a + 1 .. z) \cap bad[r])
  BY <1>2, <1>4, <1>6, RejectedSplit
<1>8. /\ seen[r] = a /\ failed[r] = Cardinality(bad[r] \cap 1 .. a)
      /\ \A i \in Records : applied[r][i] = IF i <= a THEN 1 ELSE 0
  BY <1>1, Zenon DEF ProgressExact
<1>9. /\ cursor' = [cursor EXCEPT ![r] = z] /\ at' = [at EXCEPT ![w] = z]
      /\ seen' = [seen EXCEPT ![r] = seen[r] + Cardinality(a + 1 .. z)]
      /\ failed' = [failed EXCEPT ![r] = failed[r] + Cardinality((a + 1 .. z) \cap bad[r])]
      /\ applied' = [applied EXCEPT ![r] =
           [i \in Records |-> IF i \in a + 1 .. z THEN applied[r][i] + 1 ELSE applied[r][i]]]
      /\ leaseLive' = [leaseLive EXCEPT ![r] = TRUE]
      /\ tries' = [tries EXCEPT ![w] = 0]
      /\ UNCHANGED <<bad, status, claimToken, job, held, commands>>
  BY <1>3, Zenon DEF CommitPage, z
<1>10. /\ cursor'[r] = z /\ at'[w] = z
       /\ seen'[r] = seen[r] + Cardinality(a + 1 .. z)
       /\ failed'[r] = failed[r] + Cardinality((a + 1 .. z) \cap bad[r])
       /\ \A v \in Workers \ {w} : at'[v] = at[v]
       /\ \A q \in Runs \ {r} : /\ cursor'[q] = cursor[q] /\ seen'[q] = seen[q]
                                /\ failed'[q] = failed[q] /\ applied'[q] = applied[q]
  BY <1>1, <1>9, Zenon DEF TypeOK
<1>11. \A i \in Records :
         applied'[r][i] = IF i \in a + 1 .. z THEN applied[r][i] + 1 ELSE applied[r][i]
  BY <1>1, <1>9, Zenon DEF TypeOK
<1>12. seen'[r] = z
  BY <1>2, <1>4, <1>8, <1>10
<1>13. failed'[r] = Cardinality(bad[r] \cap 1 .. z)
  BY <1>7, <1>8, <1>10
<1>14. \A i \in Records : applied'[r][i] = IF i <= z THEN 1 ELSE 0
  <2> SUFFICES ASSUME NEW i \in Records PROVE applied'[r][i] = IF i <= z THEN 1 ELSE 0
    OBVIOUS
  <2>1. i \in Nat /\ i >= 1
    BY SizeAssumption DEF Records
  <2>2. applied[r][i] = IF i <= a THEN 1 ELSE 0
    BY <1>8
  <2>3. applied'[r][i] = IF i \in a + 1 .. z THEN applied[r][i] + 1 ELSE applied[r][i]
    BY <1>11
  <2> QED
    BY <1>2, <1>4, <2>1, <2>2, <2>3
<1>15. ProgressExact'
  <2>1. ASSUME NEW q \in Runs \ {r}
        PROVE  /\ \A i \in Records : applied'[q][i] = IF i <= cursor'[q] THEN 1 ELSE 0
               /\ seen'[q] = cursor'[q]
               /\ failed'[q] = Cardinality(bad'[q] \cap 1 .. cursor'[q])
    <3>1. /\ cursor'[q] = cursor[q] /\ seen'[q] = seen[q] /\ failed'[q] = failed[q]
          /\ applied'[q] = applied[q] /\ bad'[q] = bad[q]
      BY <1>9, <1>10
    <3>2. failed'[q] = Cardinality(bad'[q] \cap 1 .. cursor'[q])
      BY <3>1, Zenon DEF ProgressExact
    <3> QED
      BY <3>1, <3>2 DEF ProgressExact
  <2>2. failed'[r] = Cardinality(bad'[r] \cap 1 .. cursor'[r])
    BY <1>9, <1>10, <1>13, Zenon
  <2> QED
    <3>1. ASSUME NEW q \in Runs
          PROVE  /\ \A i \in Records : applied'[q][i] = IF i <= cursor'[q] THEN 1 ELSE 0
                 /\ seen'[q] = cursor'[q]
                 /\ failed'[q] = Cardinality(bad'[q] \cap 1 .. cursor'[q])
      <4>1. CASE q = r
        BY <1>10, <1>12, <1>14, <2>2, <4>1, Zenon
      <4>2. CASE q # r
        BY <2>1, <4>2
      <4> QED
        BY <4>1, <4>2
    <3> QED
      BY <3>1, Zenon DEF ProgressExact
<1>16. TypeOK'
  <2>1. cursor' \in [Runs -> 0 .. RunLength] /\ at' \in [Workers -> 0 .. RunLength]
    BY <1>2, <1>9, Zenon DEF TypeOK
  <2>2. seen[r] + Cardinality(a + 1 .. z) \in Nat
    BY <1>2, <1>4, <1>8
  <2>3. failed[r] + Cardinality((a + 1 .. z) \cap bad[r]) \in Nat
    BY <1>7, <1>8
  <2>4. seen' \in [Runs -> Nat] /\ failed' \in [Runs -> Nat]
    BY <1>9, <2>2, <2>3, Zenon DEF TypeOK
  <2>5. [i \in Records |-> IF i \in a + 1 .. z THEN applied[r][i] + 1 ELSE applied[r][i]]
          \in [Records -> Nat]
    <3>1. \A i \in Records : applied[r][i] \in Nat
      BY <1>1, Zenon DEF TypeOK
    <3>2. \A i \in Records : applied[r][i] + 1 \in Nat
      BY <3>1
    <3> QED
      BY <3>1, <3>2, Zenon
  <2>6. applied' \in [Runs -> [Records -> Nat]]
    BY <1>9, <2>5, Zenon DEF TypeOK
  <2>7. /\ leaseLive' \in [Runs -> BOOLEAN]
        /\ tries' \in [Workers -> 0 .. 1]
        /\ pc' \in [Workers -> Locations]
    <3>1. 0 \in 0 .. 1 /\ l \in Locations
      BY <1>5 DEF Locations
    <3> QED
      BY <1>5, <1>9, <3>1, Zenon DEF TypeOK, Goto
  <2>8. faults' \in 0 .. MaxFaults
    BY FaultType DEF CommitPage, TypeOK
  <2> QED
    BY <1>9, <2>1, <2>4, <2>6, <2>7, <2>8 DEF TypeOK
<1>17. /\ pc'[w] = l /\ \A v \in Workers \ {w} : pc'[v] = pc[v]
  BY <1>5 DEF Goto, TypeOK
<1>18. ClaimInv'
  BY <1>1, <1>9, <1>17 DEF ClaimInv
<1>19. CursorInv'
  <2>1. ASSUME NEW v \in Workers, v # w, pc'[v] \in Running, Owns(v)'
        PROVE  at'[v] = cursor'[job'[v]]
    <3>1. pc[v] \in Running /\ job[v] \in Runs /\ held[v] \in Tokens /\ Owns(v)
      BY <1>9, <1>17, <2>1 DEF ClaimInv, Owns, Running
    <3>2. job[v] # r
      BY <1>1, <2>1, <3>1 DEF ClaimInv, Owns
    <3> QED
      BY <1>9, <1>10, <2>1, <3>1, <3>2 DEF CursorInv
  <2>2. at'[w] = cursor'[job'[w]]
    BY <1>9, <1>10
  <2>3. \A v \in Workers : pc'[v] = "complete" => at'[v] = RunLength
    BY <1>10, <1>17 DEF CursorInv
  <2> QED
    BY <2>1, <2>2, <2>3 DEF CursorInv
<1>20. CompletedIsWhole'
  BY <1>1, <1>9, <1>10 DEF CompletedIsWhole
<1> QED
  BY <1>15, <1>16, <1>18, <1>19, <1>20

LEMMA StepLeaseLost == ASSUME IInv, NEW w \in Workers, LeaseLost(w) PROVE IInv'
BY StepLeave DEF LeaseLost, IInv, TypeOK

LEMMA StepCrash == ASSUME IInv, NEW w \in Workers, Crash(w) PROVE IInv'
BY StepLeave, FaultType DEF Crash, IInv

\* The last statement gives up the claim if it is still there; a run is completed only
\* by an owner that reached its end.
LEMMA StepFinish ==
  ASSUME IInv, NEW w \in Workers,
         NEW l \in Running, NEW s \in {"PENDING", "FAILED", "COMPLETED"},
         s = "COMPLETED" => l = "complete", Finish(w, l, s)
  PROVE  IInv'
<1> USE DEF IInv
<1> DEFINE r == job[w]
<1>1. r \in Runs /\ pc[w] = l /\ pc[w] \in Running /\ held[w] # NoToken
  BY NoneAssumption DEF Finish, ClaimInv, Running
<1>2. CASE UNCHANGED rowVars
  <2>1. faults' \in 0 .. MaxFaults
    BY FaultType DEF Finish, TypeOK
  <2> QED
    BY <1>2, <2>1, StepLeave DEF Finish
<1>3. CASE GiveBack(w, s) /\ UNCHANGED faults /\ Owns(w)
  <2>1. /\ status' = [status EXCEPT ![r] = s]
        /\ claimToken' = [claimToken EXCEPT ![r] = NoToken]
        /\ leaseLive' = [leaseLive EXCEPT ![r] = FALSE]
        /\ UNCHANGED <<cursor, seen, failed, applied, bad, commands, faults>>
        /\ Leave(w)
    BY <1>3 DEF GiveBack, Finish
  <2>2. TypeOK'
    <3>1. /\ status' \in [Runs -> {"ABSENT", "PENDING", "RUNNING", "COMPLETED", "FAILED"}]
          /\ claimToken' \in [Runs -> Tokens \cup {NoToken}]
          /\ leaseLive' \in [Runs -> BOOLEAN]
      BY <2>1 DEF TypeOK
    <3> QED
      BY <2>1, <3>1, LeaveType DEF TypeOK
  <2>3. \A q \in Runs : /\ claimToken'[q] = IF q = r THEN NoToken ELSE claimToken[q]
                        /\ status'[q] = IF q = r THEN s ELSE status[q]
    BY <2>1 DEF TypeOK
  <2>4. ClaimInv'
    BY <2>1, <2>3, LeaveType DEF ClaimInv
  <2>5. CursorInv'
    <3>1. ASSUME NEW v \in Workers, pc'[v] \in Running, Owns(v)'
          PROVE  at'[v] = cursor'[job'[v]]
      <4>1. v # w
        BY <2>1, <3>1, LeaveType DEF Running
      <4>2. /\ pc[v] \in Running /\ at'[v] = at[v]
            /\ job'[v] = job[v] /\ held'[v] = held[v]
        BY <2>1, <3>1, <4>1, LeaveType
      <4>3. job[v] \in Runs /\ held[v] # NoToken
        BY <4>2, NoneAssumption DEF ClaimInv, Running
      <4>4. Owns(v)
        BY <2>3, <3>1, <4>2, <4>3 DEF Owns
      <4> QED
        BY <2>1, <4>2, <4>4 DEF CursorInv
    <3>2. \A v \in Workers : pc'[v] = "complete" => at'[v] = RunLength
      BY <2>1, LeaveType DEF CursorInv
    <3> QED
      BY <3>1, <3>2 DEF CursorInv
  <2>6. ProgressExact'
    BY <2>1, RowsFrame
  <2>7. CompletedIsWhole'
    <3>1. s = "COMPLETED" => cursor[r] = RunLength
      BY <1>1, <1>3 DEF CursorInv
    <3> QED
      BY <2>1, <2>3, <3>1 DEF CompletedIsWhole
  <2> QED
    BY <2>2, <2>4, <2>5, <2>6, <2>7
<1> QED
  BY <1>2, <1>3 DEF Finish, GiveBack

\* Every step keeps the invariant.
LEMMA StepIInv == IInv /\ [Next]_vars => IInv'
<1> SUFFICES ASSUME IInv, [Next]_vars PROVE IInv'
  OBVIOUS
<1>1. ASSUME NEW r \in Runs, Queue(r) \/ AbandonedLeaseExpires(r) \/ EarlyLeaseExpires(r)
      PROVE  IInv'
  <2>1. CASE Queue(r)
    BY <2>1, StepQueue
  <2>2. CASE AbandonedLeaseExpires(r) \/ EarlyLeaseExpires(r)
    <3>1. Expire(r) /\ faults' \in 0 .. MaxFaults
      BY <2>2, FaultType DEF AbandonedLeaseExpires, EarlyLeaseExpires, IInv, TypeOK
    <3> QED
      BY <3>1, StepExpire
  <2> QED
    BY <1>1, <2>1, <2>2
<1>2. ASSUME NEW w \in Workers, Step(w) PROVE IInv'
  <2>1. CASE ReleaseRun(w) \/ FailRun(w) \/ CompleteRun(w)
    <3>1. CASE ReleaseRun(w)
      BY <3>1, StepFinish DEF ReleaseRun, Running
    <3>2. CASE FailRun(w)
      BY <3>2, StepFinish DEF FailRun, Running
    <3>3. CASE CompleteRun(w)
      BY <3>3, StepFinish DEF CompleteRun, Running
    <3> QED
      BY <2>1, <3>1, <3>2, <3>3
  <2> QED
    BY <1>2, <2>1, StepResetFromStart, StepClaimSpecific, StepLoadSource, StepListPage,
       StepPageConflict, StepCommitPage, StepLeaseLost DEF Step
<1>3. ASSUME NEW w \in Workers, ClaimNext(w) \/ QueryFails(w) \/ Crash(w) PROVE IInv'
  BY <1>3, StepClaimNext, StepQueryFails, StepCrash
<1>4. ASSUME NEW w \in Workers, NEW r \in Runs, NEW fromStart \in BOOLEAN,
             Command(w, r, fromStart)
      PROVE  IInv'
  BY <1>4, StepCommand
<1>5. CASE UNCHANGED vars
  <2>1. UNCHANGED <<bad, cursor, seen, failed, applied>>
    BY <1>5 DEF vars, rowVars
  <2>2. ProgressExact'
    BY <2>1, RowsFrame DEF IInv
  <2> QED
    BY <1>5, <2>2 DEF vars, rowVars, workerVars, IInv, TypeOK, ClaimInv, CursorInv, Owns,
       CompletedIsWhole
<1> QED
  BY <1>1, <1>2, <1>3, <1>4, <1>5 DEF Next

-----------------------------------------------------------------------------
(* The theorems                                                            *)

LEMMA InvariantHolds == Spec => []IInv
BY InitIInv, StepIInv, PTL DEF Spec

\* RunProcessing is type correct: no cursor, in a row or in a worker, leaves the run.
THEOREM RunTypeCorrect == Spec => []TypeOK
<1>1. IInv => TypeOK
  BY DEF IInv
<1> QED
  BY <1>1, InvariantHolds, PTL

\* Since the last reset of a run every record up to its cursor was applied exactly once,
\* none beyond it, and its counters count just those, whoever lost the lease meanwhile.
THEOREM RunProgressExact == Spec => []ProgressExact
<1>1. IInv => ProgressExact
  BY DEF IInv
<1> QED
  BY <1>1, InvariantHolds, PTL

\* A COMPLETED run has its last record applied, although Complete checks only the token.
THEOREM RunCompletedIsWhole == Spec => []CompletedIsWhole
<1>1. IInv => CompletedIsWhole
  BY DEF IInv
<1> QED
  BY <1>1, InvariantHolds, PTL

=============================================================================

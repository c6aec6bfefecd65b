------------------------ MODULE EventConsumerProofs ------------------------
(***************************************************************************)
(* For any number of consumers, events, stream entries, retries and faults: *)
(* EventConsumer is type correct, the handler's effect commits at most     *)
(* once per event, and no acknowledged message is lost.                    *)
(*                                                                         *)
(* The argument: COMPLETED is a final state of a key, and only the         *)
(* transaction that writes it commits an effect (EffectAtMostOnce is       *)
(* inductive by itself). What settles a message, a dead-letter row or a    *)
(* committed effect, is never undone, and the stream only grows            *)
(* (SettledStays); so it is enough that a delivery reaches its XACK only   *)
(* once its message is settled (TaskInv).                                  *)
(***************************************************************************)
EXTENDS EventConsumer, TLAPS

\* The message at i needs no further delivery to this group.
Settled(i) ==
  \/ dlq[i] # "none"
  \/ stream[i].event # Corrupt /\ stream[i].target = "other"
  \/ stream[i].event # Corrupt /\ effects[stream[i].event] > 0

\* Everything that names a stream ID names an entry that was added.
PositionInv ==
  /\ pel \subseteq 1 .. Len(stream)
  /\ acked \subseteq 1 .. Len(stream)
  /\ \A i \in Ids : dlq[i] # "none" => i <= Len(stream)
  /\ \A t \in Tasks : loc[t] # "none" => t[2] <= Len(stream)

\* Only decoded messages get to the guard and the handler, and only settled ones to
\* their XACK.
TaskInv ==
  /\ \A t \in Tasks :
       loc[t] \in {"claim", "inspect", "handle", "release_retry", "release_dead"}
         => stream[t[2]].event # Corrupt
  /\ \A t \in Tasks : loc[t] = "ack" => Settled(t[2])

IInv == TypeOK /\ PositionInv /\ TaskInv /\ EffectAtMostOnce /\ NothingLost

\* What no step takes back.
Grows ==
  /\ Len(stream) <= Len(stream')
  /\ \A i \in 1 .. Len(stream) : stream'[i] = stream[i]
  /\ \A i \in Ids : dlq[i] # "none" => dlq'[i] # "none"
  /\ \A e \in Events : effects[e] <= effects'[e]

\* The places of a delivery whose envelope was decoded and is meant for this group.
Decoded == {"claim", "inspect", "handle", "release_retry", "release_dead"}

-----------------------------------------------------------------------------

\* The entry at a position of the stream.
LEMMA EntryType ==
  ASSUME TypeOK, NEW i \in 1 .. Len(stream)
  PROVE  /\ stream[i] \in Entries
         /\ i \in Ids
         /\ stream[i].event \in Events \cup {Corrupt}
         /\ stream[i].payload \in Payloads
         /\ stream[i].target \in {"any", "this", "other"}
<1>1. stream \in Seq(Entries) /\ Len(stream) <= MaxEntries
  BY DEF TypeOK
<1>2. stream[i] \in Entries
  BY <1>1
<1>3. i \in Ids
  BY <1>1, BoundAssumption DEF Ids
<1> QED
  BY <1>2, <1>3 DEF Entries

\* A delivery under way stands for an entry, one past the decoding for an event.
LEMMA TaskEvent ==
  ASSUME TypeOK, PositionInv, TaskInv, NEW t \in Tasks, loc[t] # "none"
  PROVE  /\ t[2] \in 1 .. Len(stream)
         /\ t[2] \in Ids
         /\ loc[t] \in Decoded => /\ Event(t) # Corrupt
                                  /\ Event(t) \in Events
                                  /\ Payload(t) \in Payloads
<1>1. t[2] \in Ids
  BY DEF Tasks
<1>2. t[2] \in 1 .. Len(stream)
  BY <1>1, BoundAssumption DEF PositionInv, Ids, TypeOK
<1>3. stream[t[2]].event \in Events \cup {Corrupt} /\ stream[t[2]].payload \in Payloads
  BY <1>2, EntryType
<1>4. loc[t] \in Decoded => stream[t[2]].event # Corrupt
  BY DEF TaskInv, Decoded
<1> QED
  BY <1>1, <1>2, <1>3, <1>4 DEF Event, Payload

\* What settled a message is not taken back.
LEMMA SettledStays ==
  ASSUME TypeOK, TypeOK', Grows, NEW i \in 1 .. Len(stream), Settled(i)
  PROVE  Settled(i)'
<1>1. i \in Ids /\ stream[i].event \in Events \cup {Corrupt}
  BY EntryType
<1>2. stream'[i] = stream[i]
  BY DEF Grows
<1>3. CASE dlq[i] # "none"
  BY <1>1, <1>3 DEF Grows, Settled
<1>4. CASE stream[i].event # Corrupt /\ stream[i].target = "other"
  BY <1>2, <1>4 DEF Settled
<1>5. CASE stream[i].event # Corrupt /\ effects[stream[i].event] > 0
  <2> DEFINE e == stream[i].event
  <2>1. e \in Events
    BY <1>1, <1>5
  <2>2. effects[e] \in Nat /\ effects'[e] \in Nat /\ effects[e] <= effects'[e]
    BY <2>1 DEF TypeOK, Grows
  <2>3. effects'[e] > 0
    BY <2>2, <1>5
  <2> QED
    BY <1>2, <1>5, <2>3 DEF Settled
<1> QED
  BY <1>3, <1>4, <1>5 DEF Settled

\* The invariant after a step, from what the step does to each place that names a
\* stream ID.
LEMMA Carry ==
  ASSUME IInv, TypeOK', EffectAtMostOnce', Grows,
         pel' \subseteq pel \cup 1 .. Len(stream),
         \A i \in acked' \ acked : i \in 1 .. Len(stream) /\ Settled(i),
         \A i \in Ids : dlq'[i] # "none" => dlq[i] # "none" \/ i <= Len(stream),
         \A t \in Tasks : loc'[t] # "none" => loc[t] # "none" \/ t[2] <= Len(stream),
         \A t \in Tasks : loc'[t] \in Decoded
           => loc[t] \in Decoded \/ (t[2] <= Len(stream) /\ stream[t[2]].event # Corrupt),
         \A t \in Tasks : loc'[t] = "ack"
           => loc[t] = "ack" \/ Settled(t[2])'
  PROVE  IInv'
<1> USE DEF IInv
<1>1. Len(stream) \in Nat /\ Len(stream') \in Nat /\ Len(stream) <= Len(stream')
  BY DEF TypeOK, Grows
<1>2. PositionInv'
  <2>1. pel' \subseteq 1 .. Len(stream')
    BY <1>1 DEF PositionInv
  <2>2. ASSUME NEW i \in acked' PROVE i \in 1 .. Len(stream')
    <3>1. i \in 1 .. Len(stream)
      BY <2>2 DEF PositionInv
    <3> QED
      BY <1>1, <3>1
  <2>3. ASSUME NEW i \in Ids, dlq'[i] # "none" PROVE i <= Len(stream')
    BY <1>1, <2>3, BoundAssumption DEF PositionInv, Ids
  <2>4. ASSUME NEW t \in Tasks, loc'[t] # "none" PROVE t[2] <= Len(stream')
    <3>1. t[2] <= Len(stream)
      BY <2>4 DEF PositionInv
    <3>2. t[2] \in Nat
      BY BoundAssumption DEF Tasks, Ids
    <3> QED
      BY <1>1, <3>1, <3>2
  <2> QED
    BY <2>1, <2>2, <2>3, <2>4 DEF PositionInv
<1>3. TaskInv'
  <2>1. ASSUME NEW t \in Tasks, loc'[t] \in Decoded PROVE stream'[t[2]].event # Corrupt
    <3>1. stream[t[2]].event # Corrupt /\ t[2] <= Len(stream)
      BY <2>1 DEF TaskInv, PositionInv, Decoded
    <3>2. t[2] \in 1 .. Len(stream)
      BY <1>1, <3>1, BoundAssumption DEF Tasks, Ids
    <3> QED
      BY <3>1, <3>2 DEF Grows
  <2>2. ASSUME NEW t \in Tasks, loc'[t] = "ack" PROVE Settled(t[2])'
    <3> SUFFICES ASSUME loc[t] = "ack" PROVE Settled(t[2])'
      BY <2>2
    <3>1. Settled(t[2]) /\ t[2] \in 1 .. Len(stream)
      BY TaskEvent DEF TaskInv
    <3> QED
      BY <3>1, SettledStays
  <2> QED
    BY <2>1, <2>2 DEF TaskInv, Decoded
<1>4. NothingLost'
  <2>1. ASSUME NEW i \in acked' PROVE Settled(i)'
    <3>1. i \in 1 .. Len(stream) /\ Settled(i)
      BY <2>1 DEF NothingLost, Settled, PositionInv
    <3> QED
      BY <3>1, SettledStays
  <2> QED
    BY <2>1 DEF NothingLost, Settled
<1> QED
  BY <1>2, <1>3, <1>4

LEMMA InitIInv == Init => IInv
<1> SUFFICES ASSUME Init PROVE IInv
  OBVIOUS
<1>1. TypeOK
  <2>1. stream \in Seq(Entries) /\ Len(stream) = 0
    BY DEF Init
  <2> QED
    BY <2>1, BoundAssumption, RetryAssumption DEF Init, TypeOK, Locations
<1>2. PositionInv /\ TaskInv /\ EffectAtMostOnce /\ NothingLost
  BY DEF Init, PositionInv, TaskInv, EffectAtMostOnce, NothingLost
<1> QED
  BY <1>1, <1>2 DEF IInv

-----------------------------------------------------------------------------
(* The steps                                                               *)

\* An entry is added, whoever publishes it.
LEMMA StepAppend ==
  ASSUME IInv, NEW m \in Entries, Len(stream) < MaxEntries, stream' = Append(stream, m),
         UNCHANGED <<lastRead, pel, acked, taskVars, keyVars, dlq, effects, faults>>
  PROVE  IInv'
<1> USE DEF IInv
<1>1. /\ stream \in Seq(Entries) /\ Len(stream) \in Nat
      /\ stream' \in Seq(Entries) /\ Len(stream') = Len(stream) + 1
      /\ \A i \in 1 .. Len(stream) : stream'[i] = stream[i]
  BY DEF TypeOK
<1>2. TypeOK'
  <2>1. lastRead \in 0 .. Len(stream') /\ Len(stream') <= MaxEntries
    BY <1>1, BoundAssumption DEF TypeOK
  <2> QED
    BY <1>1, <2>1 DEF TypeOK, taskVars, keyVars
<1>3. EffectAtMostOnce' /\ Grows
  BY <1>1 DEF EffectAtMostOnce, Grows, keyVars, TypeOK
<1>4. /\ \A t \in Tasks : loc'[t] # "none" => loc[t] # "none"
      /\ \A t \in Tasks : loc'[t] \in Decoded => loc[t] \in Decoded
      /\ \A t \in Tasks : loc'[t] = "ack" => loc[t] = "ack"
      /\ \A i \in Ids : dlq'[i] # "none" => dlq[i] # "none"
      /\ \A i \in acked' \ acked : FALSE
      /\ pel' \subseteq pel
  BY DEF taskVars
<1> QED
  BY <1>2, <1>3, <1>4, Carry

\* A delivery t moves to l, and touches no message but its own.
LEMMA CarryTask ==
  ASSUME IInv, TypeOK', EffectAtMostOnce', Grows,
         NEW t \in Tasks, loc[t] # "none", NEW l, Goto(t, l),
         l \in Decoded => loc[t] \in Decoded,
         l = "ack" => Settled(t[2])',
         \A i \in Ids : dlq'[i] # "none" => dlq[i] # "none" \/ i = t[2],
         pel' \subseteq pel,
         \A i \in acked' \ acked : i = t[2] /\ loc[t] = "ack"
  PROVE  IInv'
<1>1. t[2] \in 1 .. Len(stream) /\ t[2] <= Len(stream)
  BY TaskEvent DEF IInv
<1>2. ASSUME NEW i \in acked' \ acked PROVE i \in 1 .. Len(stream) /\ Settled(i)
  BY <1>1 DEF IInv, TaskInv
<1>3. ASSUME NEW i \in Ids, dlq'[i] # "none" PROVE dlq[i] # "none" \/ i <= Len(stream)
  BY <1>1, <1>3
<1>4. \A u \in Tasks : loc'[u] = IF u = t THEN l ELSE loc[u]
  BY DEF Goto, IInv, TypeOK
<1>5. /\ \A u \in Tasks : loc'[u] # "none" => loc[u] # "none" \/ u[2] <= Len(stream)
      /\ \A u \in Tasks : loc'[u] \in Decoded => loc[u] \in Decoded
      /\ \A u \in Tasks : loc'[u] = "ack" => loc[u] = "ack" \/ Settled(u[2])'
  BY <1>4
<1> QED
  BY <1>2, <1>3, <1>5, Carry

\* What Classify and the attempt counter make of an error keeps the types.
LEMMA RetryType ==
  ASSUME TypeOK, NEW t \in Tasks, RetryOrDeadLetter(t)
  PROVE  /\ attempt' \in [Tasks -> 0 .. RetryMaxAttempts]
         /\ \E l \in {"claim", "dead_letter"} : Goto(t, l)
<1>1. attempt[t] \in 0 .. RetryMaxAttempts
  BY DEF TypeOK
<1>2. CASE attempt[t] = RetryMaxAttempts
  BY <1>2 DEF RetryOrDeadLetter, TypeOK
<1>3. CASE attempt[t] # RetryMaxAttempts
  <2>1. attempt[t] + 1 \in 0 .. RetryMaxAttempts
    BY <1>1, <1>3, RetryAssumption
  <2> QED
    BY <1>3, <2>1 DEF RetryOrDeadLetter, TypeOK
<1> QED
  BY <1>2, <1>3

\* The end of a task and a fault keep the types.
LEMMA LeaveType ==
  ASSUME TypeOK, NEW t \in Tasks, Leave(t)
  PROVE  attempt' \in [Tasks -> 0 .. RetryMaxAttempts] /\ Goto(t, "none")
BY RetryAssumption DEF Leave, TypeOK

LEMMA FaultType ==
  ASSUME TypeOK, Fault
  PROVE  faults' \in 0 .. MaxFaults
BY BoundAssumption DEF Fault, TypeOK

LEMMA GotoType ==
  ASSUME TypeOK, NEW t \in Tasks, NEW l \in Locations, Goto(t, l)
  PROVE  loc' \in [Tasks -> Locations]
BY DEF Goto, TypeOK

\* A step that leaves the stream, the dead letters and the effects alone.
LEMMA GrowsFrame ==
  ASSUME TypeOK, UNCHANGED <<stream, dlq, effects>>
  PROVE  Grows
BY DEF Grows, TypeOK

-----------------------------------------------------------------------------

LEMMA StepRead == ASSUME IInv, Read PROVE IInv'
<1> USE DEF IInv
<1>1. Len(stream) \in Nat /\ lastRead \in Nat /\ lastRead + 1 \in 1 .. Len(stream)
  BY DEF TypeOK, Read
<1>2. lastRead + 1 \in Ids /\ lastRead + 1 \in 0 .. Len(stream)
  BY <1>1, EntryType
<1>3. TypeOK'
  BY <1>2 DEF TypeOK, Read, taskVars, keyVars
<1>4. EffectAtMostOnce' /\ Grows
  BY GrowsFrame DEF EffectAtMostOnce, Read, keyVars
<1>5. pel' \subseteq pel \cup 1 .. Len(stream)
  BY <1>1 DEF Read
<1> QED
  BY <1>3, <1>4, <1>5, Carry DEF Read, taskVars

LEMMA StepGroupLost == ASSUME IInv, GroupLost PROVE IInv'
<1> USE DEF IInv
<1>1. Len(stream) \in Nat
  BY DEF TypeOK
<1>2. TypeOK'
  BY <1>1, FaultType DEF TypeOK, GroupLost, taskVars, keyVars
<1>3. EffectAtMostOnce' /\ Grows
  BY GrowsFrame DEF EffectAtMostOnce, GroupLost, keyVars
<1> QED
  BY <1>2, <1>3, Carry DEF GroupLost, taskVars

LEMMA StepReplay == ASSUME IInv, NEW i \in Ids, Replay(i) PROVE IInv'
<1> USE DEF IInv
<1>1. TypeOK'
  BY DEF TypeOK, Replay, streamVars, taskVars, keyVars
<1>2. EffectAtMostOnce'
  BY DEF EffectAtMostOnce, Replay, keyVars
<1>3. dlq[i] # "none" /\ \A j \in Ids : dlq'[j] # "none" <=> dlq[j] # "none"
  BY DEF Replay, Replayable, TypeOK
<1>4. Grows
  BY <1>3 DEF Grows, Replay, streamVars, TypeOK
<1> QED
  BY <1>1, <1>2, <1>3, <1>4, Carry DEF Replay, streamVars, taskVars

LEMMA StepPublishReplay == ASSUME IInv, NEW i \in Ids, PublishReplay(i) PROVE IInv'
<1> USE DEF IInv
<1>1. i \in 1 .. Len(stream)
  BY BoundAssumption DEF PublishReplay, PositionInv, Ids, TypeOK
<1>2. [stream[i] EXCEPT !.target = "this"] \in Entries
  BY <1>1, EntryType DEF Entries
<1> QED
  BY <1>2, StepAppend DEF PublishReplay

LEMMA StepDispatch ==
  ASSUME IInv, NEW c \in Consumers, NEW i \in Ids, Dispatch(c, i)
  PROVE  IInv'
<1> USE DEF IInv
<1> DEFINE t == <<c, i>>
           l == First(stream[i])
<1>1. t \in Tasks /\ t[2] = i
  BY DEF Tasks
<1>2. i \in 1 .. Len(stream) /\ i <= Len(stream)
  BY DEF Dispatch, PositionInv
<1>3. /\ l \in Locations
      /\ l \in Decoded => stream[i].event # Corrupt
      /\ l = "ack" => Settled(i)
  BY DEF First, Locations, Decoded, Settled
<1>4. TypeOK'
  <2>1. 1 \in 0 .. RetryMaxAttempts
    BY RetryAssumption
  <2>2. attempt' \in [Tasks -> 0 .. RetryMaxAttempts]
    BY <1>1, <2>1 DEF Dispatch, TypeOK
  <2>3. loc' \in [Tasks -> Locations]
    BY <1>1, <1>3, GotoType DEF Dispatch
  <2> QED
    BY <2>2, <2>3 DEF TypeOK, Dispatch, streamVars, keyVars
<1>5. EffectAtMostOnce' /\ Grows
  BY GrowsFrame DEF EffectAtMostOnce, Dispatch, streamVars, keyVars
<1>6. \A u \in Tasks : loc'[u] = IF u = t THEN l ELSE loc[u]
  BY <1>1 DEF Dispatch, Goto, TypeOK
<1>7. l = "ack" => Settled(t[2])'
  BY <1>1, <1>2, <1>3, <1>4, <1>5, SettledStays
<1>8. /\ \A u \in Tasks : loc'[u] # "none" => loc[u] # "none" \/ u[2] <= Len(stream)
      /\ \A u \in Tasks : loc'[u] \in Decoded
           => loc[u] \in Decoded \/ (u[2] <= Len(stream) /\ stream[u[2]].event # Corrupt)
      /\ \A u \in Tasks : loc'[u] = "ack" => loc[u] = "ack" \/ Settled(u[2])'
  BY <1>1, <1>2, <1>3, <1>6, <1>7
<1> QED
  BY <1>4, <1>5, <1>8, Carry DEF Dispatch, streamVars

LEMMA StepCrash == ASSUME IInv, NEW c \in Consumers, Crash(c) PROVE IInv'
<1> USE DEF IInv
<1>1. TypeOK'
  <2>1. loc' \in [Tasks -> Locations]
    BY DEF Crash, TypeOK, Locations
  <2>2. attempt' \in [Tasks -> 0 .. RetryMaxAttempts]
    BY RetryAssumption DEF Crash, TypeOK
  <2> QED
    BY <2>1, <2>2, FaultType DEF TypeOK, Crash, streamVars, keyVars
<1>2. EffectAtMostOnce' /\ Grows
  BY GrowsFrame DEF EffectAtMostOnce, Crash, streamVars, keyVars
<1>3. /\ \A u \in Tasks : loc'[u] # "none" => loc[u] # "none"
      /\ \A u \in Tasks : loc'[u] \in Decoded => loc[u] \in Decoded
      /\ \A u \in Tasks : loc'[u] = "ack" => loc[u] = "ack"
  BY DEF Crash, Decoded
<1> QED
  BY <1>1, <1>2, <1>3, Carry DEF Crash, streamVars

\* The clock: a lease runs out.
LEMMA StepLeaseExpires ==
  ASSUME IInv, NEW e \in Events, LeaseExpires(e), faults' \in 0 .. MaxFaults
  PROVE  IInv'
<1> USE DEF IInv
<1>1. TypeOK'
  BY DEF TypeOK, LeaseExpires, streamVars, taskVars
<1>2. EffectAtMostOnce' /\ Grows
  BY GrowsFrame DEF EffectAtMostOnce, LeaseExpires, streamVars
<1> QED
  BY <1>1, <1>2, Carry DEF LeaseExpires, streamVars, taskVars

LEMMA StepClaimKey == ASSUME IInv, NEW t \in Tasks, ClaimKey(t) PROVE IInv'
<1> USE DEF IInv
<1> DEFINE e == Event(t)
<1>1. loc[t] # "none" /\ loc[t] \in Decoded
  BY DEF ClaimKey, Decoded
<1>2. e \in Events /\ Payload(t) \in Payloads
  BY <1>1, TaskEvent
<1>3. PICK l \in {"handle", "inspect"} : Goto(t, l)
  BY DEF ClaimKey
<1>4. TypeOK'
  <2>1. loc' \in [Tasks -> Locations]
    BY <1>3, GotoType DEF Locations
  <2>2. CASE Available(e, Payload(t))
    BY <1>2, <2>1, <2>2 DEF TypeOK, ClaimKey, streamVars
  <2>3. CASE ~Available(e, Payload(t))
    BY <2>1, <2>3 DEF TypeOK, ClaimKey, streamVars, keyVars
  <2> QED
    BY <2>2, <2>3
<1>5. EffectAtMostOnce'
  <2>1. CASE Available(e, Payload(t))
    <3>1. keyStatus[e] # "COMPLETED"
      BY <2>1 DEF Available
    <3> QED
      BY <1>2, <2>1, <3>1 DEF EffectAtMostOnce, ClaimKey, TypeOK
  <2>2. CASE ~Available(e, Payload(t))
    BY <2>2 DEF EffectAtMostOnce, ClaimKey, keyVars
  <2> QED
    BY <2>1, <2>2
<1>6. Grows
  BY GrowsFrame DEF ClaimKey, streamVars
<1> QED
  BY <1>1, <1>3, <1>4, <1>5, <1>6, CarryTask DEF ClaimKey, streamVars, Decoded

LEMMA StepStoreError == ASSUME IInv, NEW t \in Tasks, StoreError(t) PROVE IInv'
<1> USE DEF IInv
<1>1. loc[t] # "none" /\ loc[t] \in Decoded
  BY DEF StoreError, Decoded
<1>2. PICK l \in {"claim", "dead_letter"} : Goto(t, l)
  BY RetryType DEF StoreError
<1>3. TypeOK'
  <2>1. loc' \in [Tasks -> Locations]
    BY <1>2, GotoType DEF Locations
  <2> QED
    BY <2>1, RetryType, FaultType DEF TypeOK, StoreError, streamVars, keyVars
<1>4. EffectAtMostOnce' /\ Grows
  BY GrowsFrame DEF EffectAtMostOnce, StoreError, streamVars, keyVars
<1> QED
  BY <1>1, <1>2, <1>3, <1>4, CarryTask DEF StoreError, streamVars

\* A duplicate is acknowledged only because its key is COMPLETED: the effect is there.
LEMMA StepInspectKey == ASSUME IInv, NEW t \in Tasks, InspectKey(t) PROVE IInv'
<1> USE DEF IInv
<1>1. loc[t] # "none" /\ loc[t] \in Decoded
  BY DEF InspectKey, Decoded
<1>2. t[2] \in 1 .. Len(stream) /\ Event(t) \in Events /\ Event(t) # Corrupt
  BY <1>1, TaskEvent
<1>3. Found(t) \in {"dead_letter", "ack", "none"}
  BY DEF Found
<1>4. Goto(t, Found(t))
  BY LeaveType DEF InspectKey
<1>5. TypeOK'
  <2>1. loc' \in [Tasks -> Locations]
    BY <1>3, <1>4, GotoType DEF Locations
  <2>2. attempt' \in [Tasks -> 0 .. RetryMaxAttempts]
    BY LeaveType DEF InspectKey, TypeOK
  <2> QED
    BY <2>1, <2>2 DEF TypeOK, InspectKey, streamVars, keyVars
<1>6. EffectAtMostOnce' /\ Grows
  BY GrowsFrame DEF EffectAtMostOnce, InspectKey, streamVars, keyVars
<1>7. ASSUME Found(t) = "ack" PROVE Settled(t[2])'
  <2>1. keyStatus[Event(t)] = "COMPLETED"
    BY <1>7 DEF Found
  <2>2. effects[Event(t)] = 1
    BY <1>2, <2>1 DEF EffectAtMostOnce
  <2>3. Settled(t[2])
    BY <1>2, <2>2 DEF Settled, Event
  <2> QED
    BY <1>2, <1>5, <1>6, <2>3, SettledStays
<1> QED
  BY <1>1, <1>3, <1>4, <1>5, <1>6, <1>7, CarryTask DEF InspectKey, streamVars, Decoded

\* Only a key that is IN_PROGRESS is completed, so no effect was committed before.
LEMMA StepHandlerCommits == ASSUME IInv, NEW t \in Tasks, HandlerCommits(t) PROVE IInv'
<1> USE DEF IInv
<1> DEFINE e == Event(t)
<1>1. loc[t] # "none" /\ loc[t] \in Decoded
  BY DEF HandlerCommits, Decoded
<1>2. t[2] \in 1 .. Len(stream) /\ e \in Events /\ e # Corrupt
  BY <1>1, TaskEvent
<1>3. PICK l \in {"ack", "release_retry", "release_dead"} : Goto(t, l)
  BY DEF HandlerCommits
<1>4. effects[e] = 0
  BY <1>2 DEF EffectAtMostOnce, HandlerCommits, HoldsLease
<1>5. TypeOK'
  <2>1. loc' \in [Tasks -> Locations]
    BY <1>3, GotoType DEF Locations
  <2>2. faults' \in 0 .. MaxFaults
    BY FaultType DEF HandlerCommits, TypeOK
  <2>3. effects' \in [Events -> Nat]
    BY <1>2 DEF HandlerCommits, TypeOK
  <2>4. /\ keyStatus' \in [Events -> {"ABSENT", "IN_PROGRESS", "COMPLETED"}]
        /\ keyToken' \in [Events -> Tasks \cup {NoTask}]
        /\ keyExpired' \in [Events -> BOOLEAN]
    BY <1>2 DEF HandlerCommits, CompleteKey, TypeOK
  <2> QED
    BY <2>1, <2>2, <2>3, <2>4 DEF TypeOK, HandlerCommits, CompleteKey, streamVars
<1>6. EffectAtMostOnce'
  BY <1>2, <1>4 DEF EffectAtMostOnce, HandlerCommits, CompleteKey, TypeOK
<1>7. Grows /\ effects'[e] = 1
  BY <1>2, <1>4 DEF Grows, HandlerCommits, streamVars, TypeOK
<1>8. Settled(t[2])'
  BY <1>2, <1>7 DEF Settled, Event, HandlerCommits, streamVars
<1> QED
  BY <1>1, <1>3, <1>5, <1>6, <1>7, <1>8, CarryTask DEF HandlerCommits, streamVars

LEMMA StepHandlerLosesLease ==
  ASSUME IInv, NEW t \in Tasks, HandlerLosesLease(t)
  PROVE  IInv'
<1> USE DEF IInv
<1>1. loc[t] # "none" /\ Goto(t, "none")
  BY LeaveType DEF HandlerLosesLease
<1>2. TypeOK'
  <2>1. loc' \in [Tasks -> Locations]
    BY <1>1, GotoType DEF Locations
  <2> QED
    BY <2>1, LeaveType DEF TypeOK, HandlerLosesLease, streamVars, keyVars
<1>3. EffectAtMostOnce' /\ Grows
  BY GrowsFrame DEF EffectAtMostOnce, HandlerLosesLease, streamVars, keyVars
<1> QED
  BY <1>1, <1>2, <1>3, CarryTask DEF HandlerLosesLease, streamVars, Decoded

LEMMA StepHandlerFails == ASSUME IInv, NEW t \in Tasks, HandlerFails(t) PROVE IInv'
<1> USE DEF IInv
<1>1. loc[t] # "none" /\ loc[t] \in Decoded
  BY DEF HandlerFails, Decoded
<1>2. PICK l \in {"release_retry", "release_dead"} : Goto(t, l)
  BY DEF HandlerFails
<1>3. TypeOK'
  <2>1. loc' \in [Tasks -> Locations]
    BY <1>2, GotoType DEF Locations
  <2> QED
    BY <2>1 DEF TypeOK, HandlerFails, streamVars, keyVars
<1>4. EffectAtMostOnce' /\ Grows
  BY GrowsFrame DEF EffectAtMostOnce, HandlerFails, streamVars, keyVars
<1> QED
  BY <1>1, <1>2, <1>3, <1>4, CarryTask DEF HandlerFails, streamVars

LEMMA StepReleaseKey == ASSUME IInv, NEW t \in Tasks, ReleaseKey(t) PROVE IInv'
<1> USE DEF IInv
<1>1. loc[t] # "none" /\ loc[t] \in Decoded
  BY DEF ReleaseKey, Decoded
<1>2. PICK l \in {"claim", "dead_letter"} : Goto(t, l)
  BY RetryType DEF ReleaseKey
<1>3. TypeOK'
  <2>1. loc' \in [Tasks -> Locations]
    BY <1>2, GotoType DEF Locations
  <2>2. attempt' \in [Tasks -> 0 .. RetryMaxAttempts]
    BY RetryType DEF ReleaseKey, TypeOK
  <2>3. faults' \in 0 .. MaxFaults
    BY FaultType DEF ReleaseKey, TypeOK
  <2>4. keyExpired' \in [Events -> BOOLEAN]
    BY Zenon DEF ReleaseKey, TypeOK
  <2> QED
    BY <2>1, <2>2, <2>3, <2>4 DEF TypeOK, ReleaseKey, streamVars
<1>4. EffectAtMostOnce' /\ Grows
  BY GrowsFrame DEF EffectAtMostOnce, ReleaseKey, streamVars
<1> QED
  BY <1>1, <1>2, <1>3, <1>4, CarryTask DEF ReleaseKey, streamVars

\* The message is acknowledged only once its dead-letter row is written.
LEMMA StepDeadLetter == ASSUME IInv, NEW t \in Tasks, DeadLetter(t) PROVE IInv'
<1> USE DEF IInv
<1>1. loc[t] # "none"
  BY DEF DeadLetter
<1>2. t[2] \in Ids
  BY <1>1, TaskEvent
<1>3. EffectAtMostOnce'
  BY DEF EffectAtMostOnce, DeadLetter, keyVars
<1>4. CASE Insert(t[2]) /\ Goto(t, "ack") /\ UNCHANGED <<attempt, faults>>
  <2>1. /\ dlq' \in [Ids -> {"none", "DEAD", "REPLAYED"}]
        /\ dlq'[t[2]] # "none"
        /\ \A i \in Ids : i # t[2] => dlq'[i] = dlq[i]
        /\ \A i \in Ids : dlq[i] # "none" => dlq'[i] # "none"
    BY <1>2, <1>4 DEF Insert, TypeOK
  <2>2. TypeOK'
    <3>1. loc' \in [Tasks -> Locations]
      BY <1>4, GotoType DEF Locations
    <3> QED
      BY <1>4, <2>1, <3>1 DEF TypeOK, DeadLetter, streamVars, keyVars
  <2>3. Grows
    BY <2>1 DEF Grows, DeadLetter, streamVars, TypeOK
  <2>4. Settled(t[2])'
    BY <2>1 DEF Settled
  <2> QED
    BY <1>1, <1>3, <1>4, <2>1, <2>2, <2>3, <2>4, CarryTask
       DEF DeadLetter, streamVars, Decoded
<1>5. CASE Fault /\ Leave(t) /\ UNCHANGED dlq
  <2>1. Goto(t, "none")
    BY <1>5, LeaveType
  <2>2. TypeOK'
    <3>1. loc' \in [Tasks -> Locations]
      BY <2>1, GotoType DEF Locations
    <3> QED
      BY <1>5, <3>1, LeaveType, FaultType DEF TypeOK, DeadLetter, streamVars, keyVars
  <2>3. Grows
    BY <1>5, GrowsFrame DEF DeadLetter, streamVars
  <2> QED
    BY <1>1, <1>3, <1>5, <2>1, <2>2, <2>3, CarryTask DEF DeadLetter, streamVars, Decoded
<1> QED
  BY <1>4, <1>5 DEF DeadLetter

LEMMA StepAck == ASSUME IInv, NEW t \in Tasks, Ack(t) PROVE IInv'
<1> USE DEF IInv
<1>1. loc[t] # "none" /\ loc[t] = "ack" /\ Goto(t, "none")
  BY LeaveType DEF Ack
<1>2. t[2] \in Ids
  BY <1>1, TaskEvent
<1>3. TypeOK'
  <2>1. loc' \in [Tasks -> Locations]
    BY <1>1, GotoType DEF Locations
  <2>2. faults' \in 0 .. MaxFaults
    BY FaultType DEF Ack, TypeOK
  <2>3. pel' \in SUBSET Ids /\ acked' \in SUBSET Ids
    BY <1>2 DEF Ack, TypeOK
  <2>4. attempt' \in [Tasks -> 0 .. RetryMaxAttempts]
    BY LeaveType DEF Ack
  <2> QED
    BY <2>1, <2>2, <2>3, <2>4 DEF TypeOK, Ack, keyVars
<1>4. EffectAtMostOnce' /\ Grows
  BY GrowsFrame DEF EffectAtMostOnce, Ack, keyVars
<1>5. pel' \subseteq pel /\ \A i \in acked' \ acked : i = t[2]
  BY DEF Ack
<1>6. UNCHANGED dlq
  BY DEF Ack
<1> QED
  BY <1>1, <1>3, <1>4, <1>5, <1>6, CarryTask DEF Decoded

LEMMA StepAbandon == ASSUME IInv, NEW t \in Tasks, Abandon(t) PROVE IInv'
<1> USE DEF IInv
<1>1. loc[t] # "none" /\ Goto(t, "none")
  BY LeaveType DEF Abandon
<1>2. TypeOK'
  <2>1. loc' \in [Tasks -> Locations]
    BY <1>1, GotoType DEF Locations
  <2> QED
    BY <2>1, LeaveType, FaultType DEF TypeOK, Abandon, streamVars, keyVars
<1>3. EffectAtMostOnce' /\ Grows
  BY GrowsFrame DEF EffectAtMostOnce, Abandon, streamVars, keyVars
<1> QED
  BY <1>1, <1>2, <1>3, CarryTask DEF Abandon, streamVars, Decoded

\* Every step keeps the invariant.
LEMMA StepIInv == IInv /\ [Next]_vars => IInv'
<1> SUFFICES ASSUME IInv, [Next]_vars PROVE IInv'
  OBVIOUS
<1>1. ASSUME NEW m \in Entries, Publish(m) \/ PublishForeignReplay(m) PROVE IInv'
  BY <1>1, StepAppend DEF Publish, PublishForeignReplay
<1>2. ASSUME NEW i \in Ids, PublishReplay(i) \/ Replay(i) PROVE IInv'
  BY <1>2, StepPublishReplay, StepReplay
<1>3. ASSUME NEW c \in Consumers, Crash(c) PROVE IInv'
  BY <1>3, StepCrash
<1>4. ASSUME NEW c \in Consumers, NEW i \in Ids, Dispatch(c, i) PROVE IInv'
  BY <1>4, StepDispatch
<1>5. CASE Read \/ GroupLost
  BY <1>5, StepRead, StepGroupLost
<1>6. ASSUME NEW t \in Tasks, TaskStep(t) \/ StoreError(t) \/ Abandon(t) PROVE IInv'
  BY <1>6, StepClaimKey, StepInspectKey, StepReleaseKey, StepDeadLetter, StepAck,
     StepHandlerCommits, StepHandlerLosesLease, StepHandlerFails, StepStoreError,
     StepAbandon DEF TaskStep
<1>7. ASSUME NEW e \in Events, AbandonedLeaseExpires(e) \/ EarlyLeaseExpires(e) PROVE IInv'
  <2>1. LeaseExpires(e)
    BY <1>7 DEF AbandonedLeaseExpires, EarlyLeaseExpires
  <2>2. faults' \in 0 .. MaxFaults
    BY <1>7, FaultType DEF AbandonedLeaseExpires, EarlyLeaseExpires, IInv, TypeOK
  <2> QED
    BY <2>1, <2>2, StepLeaseExpires
<1>8. CASE UNCHANGED vars
  BY <1>8 DEF vars, streamVars, taskVars, keyVars, IInv, TypeOK, PositionInv, TaskInv,
     EffectAtMostOnce, NothingLost, Settled
<1> QED
  BY <1>1, <1>2, <1>3, <1>4, <1>5, <1>6, <1>7, <1>8 DEF Next

-----------------------------------------------------------------------------
(* The theorems                                                            *)

LEMMA InvariantHolds == Spec => []IInv
BY InitIInv, StepIInv, PTL DEF Spec

\* EventConsumer is type correct: in particular no attempt counter passes
\* RetryMaxAttempts, and the group never reads past the end of its stream.
THEOREM ConsumerTypeCorrect == Spec => []TypeOK
<1>1. IInv => TypeOK
  BY DEF IInv
<1> QED
  BY <1>1, InvariantHolds, PTL

\* The handler's effect commits at most once per event, exactly when its idempotency key
\* is COMPLETED, whatever is republished, redelivered, reclaimed, retried or replayed.
THEOREM ConsumerEffectAtMostOnce == Spec => []EffectAtMostOnce
<1>1. IInv => EffectAtMostOnce
  BY DEF IInv
<1> QED
  BY <1>1, InvariantHolds, PTL

\* A message the group acknowledged was meant for another group, took effect or has a
\* dead-letter row.
THEOREM ConsumerNothingLost == Spec => []NothingLost
<1>1. IInv => NothingLost
  BY DEF IInv
<1> QED
  BY <1>1, InvariantHolds, PTL

-----------------------------------------------------------------------------
(***************************************************************************)
(* EventConsumer implements EventHandling. Of IInv the argument needs that *)
(* an effect is the first one (EffectAtMostOnce) and that an XACK follows  *)
(* settlement (TaskInv); that the effect is of an event published to this  *)
(* group needs besides that no delivery of another group's replay gets     *)
(* past the decoding (ForeignInv).                                         *)
(***************************************************************************)

\* The entry at i is a replay for another group.
Foreign(i) == stream[i].event # Corrupt /\ stream[i].target = "other"

\* Nothing is done with such an entry but to acknowledge it.
ForeignInv == \A t \in Tasks : loc[t] \notin {"none", "ack"} => ~Foreign(t[2])

\* Whoever gets past the decoding is there before, or takes up an entry for this group.
LEMMA PastDecoding ==
  ASSUME IInv, [Next]_vars, NEW t \in Tasks, loc'[t] \notin {"none", "ack"}
  PROVE  loc[t] \notin {"none", "ack"} \/ (t[2] \in pel /\ ~Foreign(t[2]))
<1> SUFFICES ASSUME loc[t] \in {"none", "ack"} PROVE t[2] \in pel /\ ~Foreign(t[2])
  OBVIOUS
<1>1. loc \in [Tasks -> Locations]
  BY DEF IInv, TypeOK
<1>2. loc' # loc
  BY <1>1
<1>3. ASSUME NEW c \in Consumers, NEW i \in Ids, Dispatch(c, i)
      PROVE  t[2] \in pel /\ ~Foreign(t[2])
  <2>1. <<c, i>> \in Tasks
    BY DEF Tasks
  <2>2. loc' = [loc EXCEPT ![<<c, i>>] = First(stream[i])] /\ i \in pel
    BY <1>3 DEF Dispatch, Goto
  <2>3. t = <<c, i>> /\ First(stream[i]) # "ack"
    BY <1>1, <2>1, <2>2
  <2>4. t[2] = i
    BY <2>3
  <2> QED
    BY <2>2, <2>3, <2>4 DEF First, Foreign
<1>4. ASSUME NEW c \in Consumers, Crash(c) PROVE FALSE
  BY <1>1, <1>4 DEF Crash
<1>5. ASSUME NEW u \in Tasks, TaskStep(u) \/ StoreError(u) \/ Abandon(u) PROVE FALSE
  <2>1. PICK l : loc' = [loc EXCEPT ![u] = l]
    BY <1>5 DEF TaskStep, StoreError, Abandon, ClaimKey, InspectKey, ReleaseKey, DeadLetter, Ack,
       HandlerCommits, HandlerLosesLease, HandlerFails, RetryOrDeadLetter, Leave, Goto
  <2>2. t = u
    BY <1>1, <2>1
  <2>3. loc[u] = "ack" => Ack(u)
    BY <1>5 DEF TaskStep, StoreError, Abandon, ClaimKey, InspectKey, ReleaseKey, DeadLetter,
       HandlerCommits, HandlerLosesLease, HandlerFails
  <2>4. loc[u] # "none"
    BY <1>5 DEF TaskStep, StoreError, Abandon, ClaimKey, InspectKey, ReleaseKey, DeadLetter, Ack,
       HandlerCommits, HandlerLosesLease, HandlerFails
  <2>5. Ack(u)
    BY <2>2, <2>3, <2>4
  <2> QED
    BY <1>1, <2>2, <2>5 DEF Ack, Leave, Goto
<1> QED
  BY <1>2, <1>3, <1>4, <1>5 DEF Next, Publish, PublishForeignReplay, PublishReplay, Replay, Read,
     GroupLost, AbandonedLeaseExpires, EarlyLeaseExpires, LeaseExpires, vars, taskVars

\* The stream only grows.
LEMMA StreamGrows ==
  ASSUME IInv, [Next]_vars, NEW i \in 1 .. Len(stream)
  PROVE  stream'[i] = stream[i]
<1>1. stream \in Seq(Entries)
  BY DEF IInv, TypeOK
<1>2. ASSUME NEW m, stream' = Append(stream, m) PROVE stream'[i] = stream[i]
  BY <1>1, <1>2
<1>3. UNCHANGED stream \/ \E m : stream' = Append(stream, m)
  BY DEF Next, Publish, PublishForeignReplay, PublishReplay, Replay, Crash, Dispatch, Read, GroupLost,
     TaskStep, StoreError, Abandon, ClaimKey, InspectKey, ReleaseKey, DeadLetter, Ack, HandlerCommits,
     HandlerLosesLease, HandlerFails, AbandonedLeaseExpires, EarlyLeaseExpires, LeaseExpires,
     vars, streamVars
<1> QED
  BY <1>2, <1>3

LEMMA ForeignStep == IInv /\ ForeignInv /\ [Next]_vars => ForeignInv'
<1> SUFFICES ASSUME IInv, ForeignInv, [Next]_vars,
                    NEW t \in Tasks, loc'[t] \notin {"none", "ack"}
             PROVE  ~Foreign(t[2])'
  BY DEF ForeignInv
<1>1. loc[t] \notin {"none", "ack"} \/ (t[2] \in pel /\ ~Foreign(t[2]))
  BY PastDecoding
<1>2. t[2] \in 1 .. Len(stream)
  BY <1>1, TaskEvent DEF IInv, PositionInv
<1>3. ~Foreign(t[2])
  BY <1>1 DEF ForeignInv
<1> QED
  BY <1>2, <1>3, StreamGrows DEF Foreign

LEMMA ForeignHolds == Spec => []ForeignInv
<1>1. Init => ForeignInv
  BY DEF Init, ForeignInv
<1> QED
  BY <1>1, ForeignStep, InvariantHolds, PTL DEF Spec

\* An XADD of any kind.
LEMMA SimulatesAppend ==
  ASSUME IInv, NEW m \in Entries, stream' = Append(stream, m), UNCHANGED <<effects, dlq, acked>>,
         m.target = "this" => \E i \in Ids : /\ dlq[i] = "REPLAYED"
                                            /\ m = [stream[i] EXCEPT !.target = "this"]
  PROVE  Handling!Next
<1>1. stream \in Seq(Entries)
  BY DEF IInv, TypeOK
<1>2. DOMAIN stream = 1 .. Len(stream)
  BY <1>1
<1>3. \A i \in Ids : dlq[i] = "REPLAYED" => i \in DOMAIN stream
  BY <1>2 DEF IInv, PositionInv, Ids
<1>4. Handling!Arrive(m)
  BY <1>3 DEF Handling!Arrive
<1> QED
  BY <1>4 DEF Handling!Next

LEMMA SimulatesReplay ==
  ASSUME IInv, NEW i \in Ids, PublishReplay(i) \/ Replay(i)
  PROVE  Handling!Next
<1>1. CASE PublishReplay(i)
  <2>1. i \in 1 .. Len(stream)
    BY <1>1 DEF PublishReplay, IInv, PositionInv, Ids
  <2>2. stream[i] \in Entries
    BY <2>1, EntryType DEF IInv
  <2>3. [stream[i] EXCEPT !.target = "this"] \in Entries
    BY <2>2 DEF Entries
  <2> QED
    BY <1>1, <2>3, SimulatesAppend DEF PublishReplay
<1>2. CASE Replay(i)
  <2>1. Handling!Replay(i)
    BY <1>2 DEF Replay, Replayable, Handling!Replay, streamVars
  <2> QED
    BY <2>1 DEF Handling!Next
<1> QED
  BY <1>1, <1>2

LEMMA SimulatesCommit ==
  ASSUME IInv, ForeignInv, NEW t \in Tasks, HandlerCommits(t)
  PROVE  Handling!Next
<1>1. loc[t] = "handle" /\ HoldsLease(t)
  BY DEF HandlerCommits
<1>2. t[2] \in 1 .. Len(stream) /\ Event(t) # Corrupt /\ Event(t) \in Events
  BY <1>1, TaskEvent DEF IInv, Decoded
<1>3. effects[Event(t)] = 0
  BY <1>1, <1>2 DEF IInv, EffectAtMostOnce, HoldsLease
<1>4. effects' = [effects EXCEPT ![Event(t)] = 1]
  BY <1>3 DEF HandlerCommits
<1>5. stream \in Seq(Entries)
  BY DEF IInv, TypeOK
<1>6. t[2] \in DOMAIN stream
  BY <1>2, <1>5
<1>7. stream[t[2]].event = Event(t) /\ stream[t[2]].target # "other"
  BY <1>1, <1>2 DEF ForeignInv, Foreign, Event
<1>8. Handling!TakeEffect(Event(t))
  BY <1>3, <1>4, <1>6, <1>7 DEF HandlerCommits, streamVars, Handling!TakeEffect
<1> QED
  BY <1>2, <1>8 DEF Handling!Next

LEMMA SimulatesDeadLetter ==
  ASSUME IInv, ForeignInv, NEW t \in Tasks, DeadLetter(t)
  PROVE  Handling!Next \/ UNCHANGED Handling!vars
<1>1. loc[t] = "dead_letter" /\ UNCHANGED <<stream, acked, effects>>
  BY DEF DeadLetter, streamVars
<1>2. t[2] \in 1 .. Len(stream) /\ t[2] \in Ids
  BY <1>1, TaskEvent DEF IInv
<1>3. stream \in Seq(Entries) /\ dlq \in [Ids -> {"none", "DEAD", "REPLAYED"}]
  BY DEF IInv, TypeOK
<1>4. CASE dlq[t[2]] = "none" /\ Insert(t[2])
  <2>1. dlq' = [dlq EXCEPT ![t[2]] = "DEAD"]
    BY <1>4 DEF Insert
  <2>2. t[2] \in DOMAIN stream
    BY <1>2, <1>3
  <2>3. ~Foreign(t[2])
    BY <1>1 DEF ForeignInv
  <2>4. Handling!Bury(t[2])
    BY <1>1, <1>4, <2>1, <2>2, <2>3 DEF Handling!Bury, Foreign
  <2> QED
    BY <1>2, <2>4 DEF Handling!Next
<1>5. CASE dlq[t[2]] # "none" /\ Insert(t[2])
  <2>1. dlq' = dlq
    BY <1>3, <1>5 DEF Insert
  <2> QED
    BY <1>1, <2>1 DEF Handling!vars
<1>6. CASE UNCHANGED dlq
  BY <1>1, <1>6 DEF Handling!vars
<1> QED
  BY <1>4, <1>5, <1>6 DEF DeadLetter

LEMMA SimulatesAck ==
  ASSUME IInv, NEW t \in Tasks, Ack(t)
  PROVE  Handling!Next \/ UNCHANGED Handling!vars
<1>1. loc[t] = "ack" /\ UNCHANGED <<stream, dlq, effects>>
  BY DEF Ack
<1>2. t[2] \in 1 .. Len(stream) /\ t[2] \in Ids
  BY <1>1, TaskEvent DEF IInv
<1>3. stream \in Seq(Entries)
  BY DEF IInv, TypeOK
<1>4. t[2] \in DOMAIN stream
  BY <1>2, <1>3
<1>5. Settled(t[2])
  BY <1>1 DEF IInv, TaskInv
<1>6. CASE acked' = acked \cup {t[2]}
  <2>1. Handling!Acknowledge(t[2])
    BY <1>1, <1>4, <1>5, <1>6 DEF Settled, Handling!Acknowledge
  <2> QED
    BY <1>2, <2>1 DEF Handling!Next
<1>7. CASE UNCHANGED acked
  BY <1>1, <1>7 DEF Handling!vars
<1> QED
  BY <1>6, <1>7 DEF Ack

LEMMA StepHandling == IInv /\ ForeignInv /\ [Next]_vars => [Handling!Next]_(Handling!vars)
<1> SUFFICES ASSUME IInv, ForeignInv, [Next]_vars PROVE Handling!Next \/ UNCHANGED Handling!vars
  OBVIOUS
<1>1. ASSUME NEW m \in Entries, Publish(m) \/ PublishForeignReplay(m) PROVE Handling!Next
  BY <1>1, SimulatesAppend DEF Publish, PublishForeignReplay
<1>2. ASSUME NEW i \in Ids, PublishReplay(i) \/ Replay(i) PROVE Handling!Next
  BY <1>2, SimulatesReplay
<1>3. ASSUME NEW t \in Tasks, HandlerCommits(t) \/ DeadLetter(t) \/ Ack(t)
      PROVE  Handling!Next \/ UNCHANGED Handling!vars
  BY <1>3, SimulatesCommit, SimulatesDeadLetter, SimulatesAck
<1>4. ASSUME NEW t \in Tasks,
             \/ ClaimKey(t) \/ InspectKey(t) \/ ReleaseKey(t) \/ HandlerLosesLease(t)
             \/ HandlerFails(t) \/ StoreError(t) \/ Abandon(t)
      PROVE  UNCHANGED Handling!vars
  BY <1>4 DEF ClaimKey, InspectKey, ReleaseKey, HandlerLosesLease, HandlerFails, StoreError, Abandon,
     streamVars, Handling!vars
<1>5. CASE \/ \E c \in Consumers : Crash(c)
           \/ \E c \in Consumers, i \in Ids : Dispatch(c, i)
           \/ Read \/ GroupLost
  BY <1>5 DEF Crash, Dispatch, Read, GroupLost, streamVars, Handling!vars
<1>6. CASE \E e \in Events : AbandonedLeaseExpires(e) \/ EarlyLeaseExpires(e)
  BY <1>6 DEF AbandonedLeaseExpires, EarlyLeaseExpires, LeaseExpires, streamVars, Handling!vars
<1>7. CASE UNCHANGED vars
  BY <1>7 DEF vars, streamVars, Handling!vars
<1> QED
  BY <1>1, <1>2, <1>3, <1>4, <1>5, <1>6, <1>7 DEF Next, TaskStep

\* The consumer group implements EventHandling: whatever is redelivered, reclaimed, taken over
\* or lost inside it, from outside an event takes effect once, and only if it was published
\* to this group, entries are acknowledged when they are settled, and dead letters are
\* kept and replayed once.
THEOREM HandlingImplemented == Spec => HandlingSpec
<1>1. Init => Handling!Init
  BY DEF Init, Handling!Init
<1> QED
  BY <1>1, StepHandling, InvariantHolds, ForeignHolds, PTL DEF Spec, HandlingSpec, Handling!Spec

=============================================================================

---------------------------- MODULE TariffDecision ----------------------------
(***************************************************************************)
(* A duty decision beside the activations of RegulatoryDataset. The        *)
(* service reads the versions in force at the evaluation time, judges      *)
(* their freshness, and then reads their rules in a second statement of    *)
(* its own; activations may commit before, between and after the two. The  *)
(* rules of a version are frozen when it is loaded, so they are constant.  *)
(*                                                                         *)
(* The second statement has no ORDER BY: its rows come in any order, and   *)
(* the domain picks the most specific rule of each measure in one pass.    *)
(***************************************************************************)
EXTENDS RegulatoryDataset, Sequences, SequencesExt

CONSTANTS
  Rules,             \* tariff_rates: records [dataset, hs, origin, measure, rate, from, to]
  Queries,           \* TariffQueryParams: records [destination, origin, hs, on]
  Union,             \* member states of the customs union
  TariffKeys,        \* the keys of category TARIFF of each jurisdiction
  FetchedAt,         \* fetched_at of each version
  SLA                \* maximum age of tariff data

VARIABLES
  dpc,               \* "idle", "candidates" between the two reads, "done"
  query,
  at,                \* EvaluatedAt
  covered,           \* the versions the first read found
  answer,            \* the measures of the resolution, or why there is none
  settled            \* history: no activation may still write at or before `at`

decisionVars == <<dpc, query, at, covered, answer, settled>>
allVars == <<vars, decisionVars>>

Reasons == {"NO_REGULATORY_COVERAGE", "STALE_REGULATORY_DATA", "NO_TARIFF_RATE",
            "AMBIGUOUS_TARIFF", "UNSUPPORTED_MEASURE"}

Held(reason) == [held |-> reason, measures |-> {}]
Resolved(ms) == [held |-> "", measures |-> ms]

DecisionTypeOK ==
  /\ TypeOK
  /\ dpc \in {"idle", "candidates", "done"}
  /\ query \in Queries \cup {None} /\ at \in Times \cup {None}
  /\ covered \subseteq Datasets
  /\ \/ answer = None
     \/ answer.held \in Reasons /\ answer.measures = {}
     \/ answer.held = "" /\ answer.measures \subseteq Rules /\ answer.measures # {}
  /\ settled \in BOOLEAN

DecisionInit ==
  /\ Init
  /\ dpc = "idle" /\ query = None /\ at = None
  /\ covered = {} /\ answer = None /\ settled = TRUE

-----------------------------------------------------------------------------
(* The query                                                               *)

\* importJurisdiction: a member state imports into the union.
ImportJurisdiction(country) == IF country \in Union THEN "EU" ELSE country

ASSUME TariffAssumption ==
  /\ None \notin Queries
  /\ \A q \in Queries : TariffKeys[ImportJurisdiction(q.destination)] \subseteq Keys
  /\ IsFiniteSet(Rules) /\ \A r \in Rules : Len(r.hs) \in Nat

\* NewTariffQuery refuses goods that cross no border.
IsImport(q) == ImportJurisdiction(q.destination) # ImportJurisdiction(q.origin)

HSPrefixes(code) == {SubSeq(code, 1, n) : n \in 1 .. Len(code)}

-----------------------------------------------------------------------------
(* First read: coverage                                                    *)

\* Bug: the versions that are active now, whatever the evaluation time.
ActiveNow(j, t) == UNION {Active(k) : k \in TariffKeys[j]}

\* ActiveAt: of every source of the jurisdiction, the version in force.
ActiveAt(j, t) == UNION {InForce(k, t) : k \in TariffKeys[j]}

\* SLAs.Check: none is older than the SLA at t.
Fresh(ds, t) == \A d \in ds : t <= FetchedAt[d] + SLA

\* An activation of a version of jurisdiction j that has taken a time at or before t.
UnderWay(j, t) ==
  \E c \in Commands : pc[c] # "idle" /\ KeyOf[own[c]] \in TariffKeys[j] /\ now[c] <= t

\* Service.Coverage, in the service's ResolveTariff: HOLD without or with stale data.
Coverage(q, t) ==
  LET j == ImportJurisdiction(q.destination)
      ds == ActiveAt(j, t)
  IN /\ dpc # "candidates" /\ IsImport(q)
     /\ query' = q /\ at' = t /\ covered' = ds
     /\ settled' = ~UnderWay(j, t)
     /\ IF ds # {} /\ Fresh(ds, t)
        THEN dpc' = "candidates" /\ answer' = None
        ELSE /\ dpc' = "done"
             /\ answer' = Held(IF ds = {} THEN "NO_REGULATORY_COVERAGE"
                               ELSE "STALE_REGULATORY_DATA")
     /\ UNCHANGED vars

-----------------------------------------------------------------------------
(* Second read: the candidates, and the domain's ResolveTariff             *)

\* ListTariffCandidates: rules of the versions for the code or a prefix of it and for
\* the origin or any, in force on the transaction's date; preferences are not read.
TariffCandidates(ds, q) ==
  {r \in Rules : /\ r.dataset \in ds
                 /\ r.hs \in HSPrefixes(q.hs)
                 /\ r.origin \in {q.origin, "*"}
                 /\ r.measure # "PREFERENTIAL"
                 /\ r.from <= q.on /\ q.on < r.to}

\* compareSpecificity: a rule for the origin, then the longer code.
MoreSpecific(q, a, b) ==
  \/ a.origin = q.origin /\ b.origin # q.origin
  \/ (a.origin = q.origin <=> b.origin = q.origin) /\ Len(a.hs) > Len(b.hs)

\* A map with one more entry.
With(best, k, r) == [m \in DOMAIN best \cup {k} |-> IF m = k THEN r ELSE best[m]]

\* Bug: a tie is remembered when a more specific rule turns up.
ConsiderStickyTie(q, acc, r) ==
  LET k == r.measure IN
  IF k \notin DOMAIN acc.best THEN [acc EXCEPT !.best = With(acc.best, k, r)]
  ELSE IF MoreSpecific(q, r, acc.best[k]) THEN [acc EXCEPT !.best[k] = r]
  ELSE IF MoreSpecific(q, acc.best[k], r) THEN acc
  ELSE [acc EXCEPT !.tied = @ \cup {k}]

\* One turn of mostSpecific's loop.
Consider(q, acc, r) ==
  LET k == r.measure IN
  IF k \notin DOMAIN acc.best THEN [acc EXCEPT !.best = With(acc.best, k, r)]
  ELSE IF MoreSpecific(q, r, acc.best[k])
       THEN [acc EXCEPT !.best[k] = r, !.tied = @ \ {k}]
  ELSE IF MoreSpecific(q, acc.best[k], r) THEN acc
  ELSE [acc EXCEPT !.tied = @ \cup {k}]

\* The state of the loop after n candidates, and after all of them.
MostSpecific(q, candidates) ==
  LET after[n \in 0 .. Len(candidates)] ==
        IF n = 0 THEN [best |-> <<>>, tied |-> {}]
        ELSE Consider(q, after[n - 1], candidates[n])
  IN after[Len(candidates)]

\* The measures are looked at with the MFN rate first, then by programme; the first that
\* is ambiguous or unsupported names the reason. Programmes are taken in any order.
ResolveTariff(q, candidates) ==
  LET found == MostSpecific(q, candidates)
      keys == DOMAIN found.best
      bad == {k \in keys : k \in found.tied \/ found.best[k].rate = "UNSUPPORTED_MEASURE"}
      first == IF "MFN" \in bad THEN {"MFN"} ELSE bad
  IN IF "MFN" \notin keys THEN {Held("NO_TARIFF_RATE")}
     ELSE IF bad = {} THEN {Resolved({found.best[k] : k \in keys})}
     ELSE {Held(IF k \in found.tied THEN "AMBIGUOUS_TARIFF" ELSE "UNSUPPORTED_MEASURE") :
             k \in first}

Candidates ==
  /\ dpc = "candidates"
  /\ dpc' = "done"
  /\ \E rows \in SetToSeqs(TariffCandidates(covered, query)) :
       answer' \in ResolveTariff(query, rows)
  /\ UNCHANGED <<vars, query, at, covered, settled>>

\* The second statement fails: an error that is no HOLD, and no answer.
CandidatesFail ==
  /\ dpc = "candidates"
  /\ dpc' = "idle" /\ query' = None /\ at' = None /\ covered' = {} /\ settled' = TRUE
  /\ UNCHANGED <<vars, answer>>

-----------------------------------------------------------------------------
(* The activations beside it                                               *)

\* A command that takes a time at or before `at` after the first read unsettles it.
Activations ==
  /\ Next
  /\ UNCHANGED <<dpc, query, at, covered, answer>>
  /\ settled' = (settled /\ (at # None =>
                   ~UnderWay(ImportJurisdiction(query.destination), at)'))

DecisionNext ==
  \/ Activations
  \/ \E q \in Queries, t \in Times : Coverage(q, t)
  \/ Candidates \/ CandidatesFail

DecisionSpec == DecisionInit /\ [][DecisionNext]_allVars

-----------------------------------------------------------------------------
(* Properties                                                              *)

\* A decision once made stands: unless an activation had already taken, or takes later,
\* a time at or before the evaluation time, the record says for ever what the first read
\* found, one version of each source. Whoever repeats the query gets the same versions.
SettledDecisionStands ==
  dpc # "idle" /\ settled =>
    /\ covered = UNION {InForce(k, at) : k \in TariffKeys[ImportJurisdiction(query.destination)]}
    /\ \A d, e \in covered : KeyOf[d] = KeyOf[e] => d = e

\* The rules of covered that no rule of the same measure beats.
Unbeaten(m) ==
  LET rs == {r \in TariffCandidates(covered, query) : r.measure = m}
  IN {r \in rs : \A s \in rs : ~MoreSpecific(query, s, r)}

\* Whatever order the rows come in and whatever is activated between the two reads, the
\* duty is exactly the rule of each measure that beats all others, of fresh versions that
\* the first read found; and a missing or ambiguous rate is never resolved.
ResolvesMostSpecific ==
  LET measures == {r.measure : r \in TariffCandidates(covered, query)}
      clear == \A m \in measures : \E r \in Rules :
                 Unbeaten(m) = {r} /\ r.rate # "UNSUPPORTED_MEASURE"
  IN dpc = "done" /\ answer.held \notin {"NO_REGULATORY_COVERAGE", "STALE_REGULATORY_DATA"} =>
       /\ Fresh(covered, at)
       /\ answer.held = "" <=> clear /\ "MFN" \in measures
       /\ answer.held = "" => answer.measures = UNION {Unbeaten(m) : m \in measures}
       /\ answer.held = "AMBIGUOUS_TARIFF" =>
            \E m \in measures : Cardinality(Unbeaten(m)) > 1

=============================================================================

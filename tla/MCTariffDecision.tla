--------------------------- MODULE MCTariffDecision ---------------------------
(* Three versions of one tariff source and one of another; two commands and a decision. *)
(* Half of a code is a chapter: rules on 85 and on 85 28, for one origin and for any.   *)
EXTENDS TariffDecision

CONSTANTS d1, d2, d3, d4, k1, k2, ann, bob, c1, c2

MCDatasets == {d1, d2, d3, d4}
MCKeys == {k1, k2}
MCKeyOf == [d \in MCDatasets |-> IF d = d4 THEN k2 ELSE k1]
MCLoaders == {ann}
MCReviewers == {ann, bob}
MCCommands == {c1, c2}
MCTimes == 1 .. 2
MCUnion == {"DE", "FR"}
MCTariffKeys == [j \in {"EU", "US", "CN"} |-> IF j = "EU" THEN {k1, k2} ELSE {}]
MCFetchedAt == [d \in MCDatasets |-> IF d = d3 THEN 1 ELSE 0]
MCSLA == 1

Rule(d, hs, origin, measure, rate, from, to) ==
  [dataset |-> d, hs |-> hs, origin |-> origin, measure |-> measure, rate |-> rate,
   from |-> from, to |-> to]

\* d1 and d2 differ in nothing a decision looks at.
MCRules ==
  {Rule(d, <<85>>, "*", "MFN", "AD_VALOREM", 0, 9) : d \in {d1, d2, d4}} \cup
  {Rule(d, <<85, 28>>, "*", "MFN", "AD_VALOREM", 0, 9) : d \in {d1, d2}} \cup
  {Rule(d3, <<85>>, "CN", "MFN", "SPECIFIC", 0, 9),
   Rule(d4, <<85>>, "*", "LEVY", "AD_VALOREM", 0, 1),
   Rule(d3, <<85>>, "*", "LEVY", "UNSUPPORTED_MEASURE", 1, 9),
   Rule(d3, <<85>>, "CN", "PREFERENTIAL", "AD_VALOREM", 0, 9)}

Query(to, origin, hs, on) == [destination |-> to, origin |-> origin, hs |-> hs, on |-> on]

MCQueries ==
  {Query("DE", "CN", <<85, 28>>, 0), Query("DE", "CN", <<85, 28>>, 1), Query("FR", "US", <<85>>, 0),
   Query("DE", "FR", <<85>>, 0)}

MCSymmetry == Permutations(MCCommands) \cup Permutations({d1, d2})

=============================================================================

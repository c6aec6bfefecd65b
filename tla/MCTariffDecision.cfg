SPECIFICATION DecisionSpec
CONSTANTS
  d1 = d1
  d2 = d2
  d3 = d3
  d4 = d4
  k1 = k1
  k2 = k2
  ann = ann
  bob = bob
  c1 = c1
  c2 = c2
  Datasets <- MCDatasets
  Keys <- MCKeys
  KeyOf <- MCKeyOf
  Loaders <- MCLoaders
  Reviewers <- MCReviewers
  Commands <- MCCommands
  Times <- MCTimes
  None = None
  Rules <- MCRules
  Queries <- MCQueries
  Union <- MCUnion
  TariffKeys <- MCTariffKeys
  FetchedAt <- MCFetchedAt
  SLA <- MCSLA
INVARIANTS DecisionTypeOK OneInForce EventsFormChain NoWaitCycle SettledDecisionStands ResolvesMostSpecific
PROPERTIES PastStandsStill
SYMMETRY MCSymmetry

SPECIFICATION FairSpec
CONSTANTS
  m1 = m1
  m2 = m2
  Migrators <- MCMigrators
  NumVersions = 4
  NoTx <- MCNoTx
  Releases <- MCReleases
  None = None
INVARIANTS TypeOK VersionTellsAll SchemaMatchesRecord
PROPERTIES CommandsEnd

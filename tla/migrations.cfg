SPECIFICATION FairSpec

CONSTANTS
  m1 = m1
  m2 = m2
  Runs <- TwoRuns
  Files = 13
  FirstRelease = 12
  References <- ReferencesOfFiles
  StatusFile = 10
  MaxDeaths = 1

INVARIANTS
  TypeOK
  CompleteMeansAll
  ReferencesExist

PROPERTIES
  StatusSurvives
  ImplementsSchemaVersion
  OneRunSuffices

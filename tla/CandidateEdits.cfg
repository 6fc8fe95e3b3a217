SPECIFICATION Spec
CONSTANTS
  Words <- MCWords
  Family <- MCFamily
  Canonical <- MCCanonical
  NoFamily = NoFamily
  Jobs <- MCJobs
  Industries = {"travel", "games"}
  Places = {"berlin", "paris"}
  Amounts <- MCAmounts
  Tenures = {0, 1, 2}
  Weights <- MCWeights
  Configured <- MCConfigured
  MaxEdits = 2
INVARIANTS
  TypeOK
  ScoresWithinWeights
  SpellingDoesNotMatter
PROPERTY
  WideningNeverLowers
CHECK_DEADLOCK FALSE

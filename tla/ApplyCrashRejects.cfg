SPECIFICATION Spec
CONSTANTS
  Job = {j1}
  NoJob = NoJob
  App = {a1}
  NoApp = NoApp
  Call = {c1, c2}
  PageLists <- NoPages
  Modes = {"manual"}
  Faults = {"crash", "retry"}
  Serial = TRUE
  MaxInterventions = 1
INVARIANT
  RejectedMeansDeclined
CHECK_DEADLOCK FALSE

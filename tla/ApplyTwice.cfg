SPECIFICATION Spec
CONSTANTS
  Job = {j1}
  NoJob = NoJob
  App = {a1, a2}
  NoApp = NoApp
  Call = {c1, c2}
  PageLists <- NoPages
  Modes = {"manual"}
  Faults = {}
  Serial = TRUE
  MaxInterventions = 1
INVARIANT
  OneApplicationPerJob
CHECK_DEADLOCK FALSE

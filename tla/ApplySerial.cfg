SPECIFICATION Spec
CONSTANTS
  Job = {j1}
  NoJob = NoJob
  App = {a1}
  NoApp = NoApp
  Call = {c1, c2}
  PageLists <- AllPages
  Modes = {"manual", "hybrid"}
  Faults = {"browser", "pages", "retry"}
  Serial = TRUE
  MaxInterventions = 1
INVARIANTS
  TypeOK
  RejectedMeansDeclined
  DeclineHonoured
  InterruptsAreQueued
  RowFollowsGraph
PROPERTIES
  ImplementsLifecycle

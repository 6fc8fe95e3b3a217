SPECIFICATION Spec
CONSTANTS
  Job = {j1}
  NoJob = NoJob
  App = {a1}
  NoApp = NoApp
  Call = {c1, c2}
  PageLists <- OnePage
  Modes = {"manual", "automatic"}
  Faults = {"crash", "config", "retry"}
  Serial = FALSE
  MaxInterventions = 1
INVARIANTS
  NoSubmitWithoutConsent
  
  ShownIsResumable

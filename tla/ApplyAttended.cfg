SPECIFICATION AttendedSpec
CONSTANTS
  Job = {j1}
  NoJob = NoJob
  App = {a1, a2}
  NoApp = NoApp
  Call = {c1, c2}
  PageLists <- ThreePages
  Modes = {"hybrid"}
  Faults = {}
  Serial = TRUE
  MaxInterventions = 1
INVARIANT
  AnswersFitTheirQuestions
PROPERTIES
  Settles
CHECK_DEADLOCK FALSE

SPECIFICATION AttendedSpec
CONSTANTS
  Run = {r1, r2}
  NoRun = NoRun
  Call = {c1, c2}
  g1 = g1
  g2 = g2
  l1 = l1
  cto = cto
  head = head
  greenhouse = greenhouse
  lever = lever
  Job = {g1, l1}
  Opportunity = {cto, head}
  Portal = {greenhouse, lever}
  PortalLists <- PortalsAndRepeats
  Boards <- MCBoards
  Ratings <- FewRatings
  Faults = {"partial", "retry"}
  Serial = TRUE
  MaxInterventions = 1
INVARIANTS
  TypeOK
  PausedRunsAreQueued
  ReviewedJobsWereShown
  DecisionsHonoured
  RowsTellTheirRun
PROPERTIES
  ImplementsRunLifecycle
  RunsComplete
CHECK_DEADLOCK FALSE

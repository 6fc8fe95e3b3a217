SPECIFICATION Spec
CONSTANTS
  Run = {r1}
  NoRun = NoRun
  Call = {c1, c2}
  g1 = g1
  g2 = g2
  l1 = l1
  cto = cto
  head = head
  greenhouse = greenhouse
  lever = lever
  Job = {g1, g2, l1}
  Opportunity = {cto, head}
  Portal = {greenhouse, lever}
  PortalLists <- OnePortal
  Boards <- FewBoards
  Ratings <- AllRatings
  Faults = {"crash", "limits", "partial"}
  Serial = FALSE
  MaxInterventions = 1
INVARIANTS
  QueuedOnlyIfCleared
CHECK_DEADLOCK FALSE

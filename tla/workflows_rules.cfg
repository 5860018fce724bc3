SPECIFICATION Spec
CONSTANTS
  c1 = c1
  c2 = c2
  dev = dev
  prod = prod
  u1 = u1
  u2 = u2
  Component = {c1, c2}
  Classes <- TwoClasses
  Definitions <- ThreeDefinitions
  Early = {c1}
  User = {u1, u2}
  Env = {"crash", "lost", "update", "rule", "edit", "root"}
  MaxRuns = 3
  MaxEvents = 2
INVARIANTS TypeOK RulesStand DefinitionsStand
PROPERTIES RequiredExist RolloutsKeepWorkflow AdditionsSurvive PeoplesRulesStay
CHECK_DEADLOCK FALSE

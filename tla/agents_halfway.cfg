SPECIFICATION Spec
CONSTANTS
  a1 = a1
  a2 = a2
  p1 = p1
  b1 = b1
  b2 = b2
  Agent = {a1, a2}
  Person = {p1}
  Base = {b1}
  BaseOf <- SharedBase
  Deployment = {1, 2}
  DeployedFrom <- AllFromB1
  StageOf <- OneEach
  LastStage = 3
  MaxCycle = 1
  Rollout = {a1, a2}
  Steps = 2
  ReviewWorkflow = TRUE
  HasReviewer = TRUE
  Env = {"crash"}
  MaxEvents = 1
INVARIANTS WholeChange
CHECK_DEADLOCK FALSE

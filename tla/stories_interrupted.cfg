SPECIFICATION Spec
CONSTANTS
  st1 = st1
  st2 = st2
  c1 = c1
  c2 = c2
  d1 = d1
  d2 = d2
  d3 = d3
  d4 = d4
  d5 = d5
  Stories <- One
  Component = {c1}
  ComponentOf <- OneOf
  LandedThrough <- ToTheEnd
  Degrade <- NoneDegraded
  Space = {d1, d2, d3}
  StageOf <- TwoAndOne
  LastStage <- Three
  Prerequisites <- Default
  Unreleased = {}
  Skewed = {}
  Exceptions = {}
  Unpainted = {}
  Choices <- Whole
  Env = {"crash"}
  MaxRuns = 3
  MaxEvents = 1
INVARIANTS WalkedReadsCompleted
CHECK_DEADLOCK FALSE

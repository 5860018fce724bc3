SPECIFICATION Both
CONSTANTS
  st1 = st1
  st2 = st2
  c1 = c1
  c2 = c2
  d1 = d1
  d2 = d2
  d3 = d3
  d4 = d4
  d5 = d5
  Stories <- Two
  Component = {c1, c2}
  ComponentOf <- HalfOf
  LandedThrough <- HalfLands
  Degrade <- HalfDegraded
  Space = {d1, d2, d3, d4, d5}
  StageOf <- HalfStages
  LastStage <- Three
  Prerequisites <- Default
  Unreleased = {}
  Skewed = {}
  Exceptions = {d2}
  Unpainted = {}
  Choices <- SomePhases
  Env = {"crash", "fault", "edit"}
  MaxRuns = 3
  MaxEvents = 2
INVARIANTS WalkTypeOK WalkStoriesStand WalkNeverRefused WalkCompletes BesideSkewShows
PROPERTIES BothKeepTheirPromise WalkGetsThrough BesideNothingRepublished
CHECK_DEADLOCK FALSE

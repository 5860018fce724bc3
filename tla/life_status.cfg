SPECIFICATION LifeSpec
CONSTANTS
  Shuffle <- InOrder
  Empty = Empty
  Drafts <- AllDrafts
  Machine = {"m1", "m2"}
  AgentName = {"amy", "bob"}
  Tool = {1, 2}
  Views = 2
  Query = {"q1", "q2", "q3"}
  Look = {"l1", "l2"}
  Definition <- OldAndNew
  ToolOf <- OwnTool
  PhaseArgs <- Everything
  Verbs = {"install", "up", "down", "reset", "uninstall", "agents up", "agents down"}
  Env = {}
  MaxJobs = 4
  MaxEvents = 0
INVARIANTS StatusIsRight
CHECK_DEADLOCK FALSE

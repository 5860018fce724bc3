---------------------------- MODULE PipelineProofs ----------------------------
(***************************************************************************)
(* AgentDemo implements ChangePipeline: every step of the runner, of       *)
(* people or of the delivery system is one step of the pipeline of the     *)
(* agents' changes, or none. And what the runner remembers of an agent is  *)
(* what it would find in the org (MemoryInv).                              *)
(***************************************************************************)
EXTENDS AgentDemoProofs

\* A step of the pipeline is one change's.
LEMMA PipelineStep ==
  ASSUME NEW a \in Agent, NEW n \in Cycle
  PROVE  /\ Pipeline!Open(a, n) => Pipeline!Next
         /\ Pipeline!Close(a, n) => Pipeline!Next
         /\ Pipeline!StartRollout(a, n) => Pipeline!Next
         /\ \A d \in Deployment : Pipeline!Release(a, n, d) => Pipeline!Next
         /\ Pipeline!EnterStage(a, n) => Pipeline!Next
         /\ Pipeline!Finish(a, n) => Pipeline!Next
         /\ Pipeline!Abandon(a, n) => Pipeline!Next
BY DEF Pipeline!Next, Pipeline!Cycle, Cycle

\* The pipeline as AgentDemo has it.
Change == [a \in Agent |-> [n \in Cycle |-> Standings(a, n)]]
Reached == [a \in Agent |-> [n \in Cycle |-> stage[a][n]]]
Shipped == [a \in Agent |-> [n \in Cycle |-> {d \in Deployment : releases[a][n][d] > 0}]]

\* A step that changes where one change stands, and nothing else.
Stands(a, n, x) ==
  /\ \A c \in Agent, m \in Cycle : Standings(c, m)' = IF c = a /\ m = n THEN x ELSE Standings(c, m)
  /\ \A c \in Agent : stage'[c] = stage[c] /\ releases'[c] = releases[c]

LEMMA ChangeStands ==
  ASSUME NEW a \in Agent, NEW n \in Cycle, NEW x, Stands(a, n, x)
  PROVE  Change' = [Change EXCEPT ![a][n] = x] /\ UNCHANGED <<Reached, Shipped>>
<1>1. Change' = [Change EXCEPT ![a][n] = x]
  <2>1. Change' = [c \in Agent |-> [m \in Cycle |-> IF c = a /\ m = n THEN x ELSE Change[c][m]]]
    BY Zenon DEF Change, Stands
  <2>2. ASSUME NEW c \in Agent
        PROVE  [m \in Cycle |-> IF c = a /\ m = n THEN x ELSE Change[c][m]]
                 = IF c = a THEN [Change[a] EXCEPT ![n] = x] ELSE Change[c]
    BY DEF Change
  <2> QED BY <2>1, <2>2 DEF Change
<1>2. UNCHANGED <<Reached, Shipped>>
  BY DEF Reached, Shipped, Stands
<1> QED BY <1>1, <1>2

\* A step that is none of the pipeline's.
Same ==
  \A c \in Agent :
    /\ \A m \in Cycle : Standings(c, m)' = Standings(c, m)
    /\ stage'[c] = stage[c]
    /\ \A m \in Cycle, d \in Deployment : Released(c, m, d)' <=> Released(c, m, d)

LEMMA SamePipeline ==
  ASSUME Same
  PROVE  UNCHANGED Pipeline!vars
<1>1. Change' = Change
  BY DEF Change, Same
<1>2. Reached' = Reached
  BY DEF Reached, Same
<1>3. Shipped' = Shipped
  BY DEF Shipped, Same, Released
<1> QED BY <1>1, <1>2, <1>3 DEF Pipeline!vars, Change, Reached, Shipped

-----------------------------------------------------------------------------
\* A change of a rollout agent that rolls out is the one its agent is at, and its
\* last; no two changes of a component roll out, whichever agent rolls them; and
\* an order is completed as soon as its last stage is.
MovingRight(a) ==
  a \in Rollout => \A n \in Cycle : order[a][n] = "moving" =>
    /\ up => phase[a] \in {"queued", "rolling"} /\ of[a] = a /\ cur[a] = n
    /\ \A m \in Cycle : m > n => changeSet[a][m] = "none"

\* Of the agents' orders of its component, only that of the change in hand moves.
OnlyMoves(a) ==
  \A c \in Agent, m \in Cycle : BaseOf[c] = BaseOf[a] /\ order[c][m] = "moving" => c = of[a] /\ m = cur[a]

AgentsClear ==
  /\ \A a, c \in Agent : \A n, m \in Cycle :
       BaseOf[c] = BaseOf[a] /\ order[c][m] = "moving" /\ order[a][n] = "moving" => c = a /\ m = n
  /\ \A a \in Agent : at[a] = "name" => OnlyMoves(a)

NotYet == \A a \in Agent, n \in Cycle : ~Finished(a, n, health)

PipeInv == (\A a \in Agent : MovingRight(a)) /\ AgentsClear /\ NotYet

\* Where the runner opens a change, there is room for one.
LEMMA OpensOne ==
  ASSUME TypeInv, NEW a \in Agent, at[a] \in {"create", "enter", "discard"}
  PROVE  NextCycle(a) \in Cycle
<1>1. cycle[a] \in 0 .. MaxCycle
  BY DEF TypeInv, LocalTypeOK
<1>2. cycle[a] < MaxCycle
  BY DEF TypeInv, Room
<1> QED BY <1>1, <1>2, BoundsAssumption DEF NextCycle, Cycle

\* open: the base is entered by a change after all others of its agent.
LEMMA OpenPiped ==
  ASSUME TypeInv, ChangeInv, PipeInv, NEW a \in Agent, at[a] = "enter",
         CanOpen(a, NextCycle(a)), ServerSetState(a, NextCycle(a), "Open")
  PROVE  Pipeline!Next
<1> DEFINE n == NextCycle(a)
<1>0. /\ RolloutTypes /\ changeSet \in [Owner -> [Cycle -> ChangeSetState]]
      /\ n \in Cycle /\ up /\ phase[a] = "idle" /\ n = cycle[a] + 1 /\ n \in Nat
  <2>1. up /\ phase[a] = "idle"
    BY DEF TypeInv, Serial, PhaseOf
  <2>2. cycle[a] \in 0 .. MaxCycle /\ cycle[a] < MaxCycle
    <3>1. cycle[a] \in 0 .. MaxCycle
      BY DEF TypeInv, LocalTypeOK
    <3>2. cycle[a] < MaxCycle
      BY DEF TypeInv, Room
    <3> QED BY <3>1, <3>2
  <2>3. cycle[a] + 1 \in Cycle /\ cycle[a] + 1 \in Nat
    BY <2>2, BoundsAssumption DEF Cycle
  <2>4. changeSet \in [Owner -> [Cycle -> ChangeSetState]]
    BY DEF TypeInv, ServerTypeOK
  <2> QED BY <2>1, <2>3, <2>4, RolloutTyped DEF NextCycle
<1>1. /\ changeSet' = [changeSet EXCEPT ![a][n] = "Open"] /\ UNCHANGED <<order, stage, releases>>
      /\ changeSet[a][n] = "created"
  BY DEF ServerSetState, CanOpen, orderVars, releaseVars
<1>2. order[a][n] = "none"
  BY <1>0, <1>1 DEF ChangeInv, StandsRight
<1> HIDE DEF n
<1>3. \A c \in Agent, m \in Cycle :
        changeSet'[c][m] = IF c = a /\ m = n THEN "Open" ELSE changeSet[c][m]
  BY <1>0, <1>1 DEF RolloutTypes
<1>4. Stands(a, n, "open")
  BY <1>1, <1>2, <1>3 DEF Stands, Standings
<1>5. \A m \in Cycle : m >= n => Standings(a, m) = "absent"
  <2> SUFFICES ASSUME NEW m \in Cycle, m >= n PROVE Standings(a, m) = "absent"
    OBVIOUS
  <2>1. CASE m = n
    BY <1>1, <1>2, <2>1 DEF Standings
  <2>2. CASE m > cycle[a] + 1
    BY <1>0, <2>2 DEF ChangeInv, StandsRight, Standings
  <2> QED BY <1>0, <2>1, <2>2 DEF Cycle
<1>6. \A m \in Cycle : ~Pipeline!Pending(a, m)
  <2> SUFFICES ASSUME NEW m \in Cycle
               PROVE  /\ Standings(a, m) # "open"
                      /\ a \in Rollout => Standings(a, m) \notin {"closed", "rolling"}
    BY DEF Pipeline!Pending
  <2>1. changeSet[a][m] # "Open" /\ ~Undone(a, m)
    BY <1>0 DEF ChangeInv, StandsRight
  <2>2. a \in Rollout => order[a][m] # "moving"
    BY <1>0 DEF PipeInv, MovingRight
  <2> QED BY <2>1, <2>2 DEF Standings, Undone
<1>7. \A c \in Agent, m \in Cycle : BaseOf[c] = BaseOf[a] => Standings(c, m) # "open"
  BY <1>0 DEF CanOpen, Holding, Standings, RolloutTypes
<1>8. Pipeline!Open(a, n)
  BY <1>0, <1>4, <1>5, <1>6, <1>7, ChangeStands
  DEF Pipeline!Open, Change, Reached, Shipped, Pipeline!Cycle, Cycle
<1> QED BY <1>0, <1>8, PipelineStep

\* close.
LEMMA ClosePiped ==
  ASSUME TypeInv, ChangeInv, NEW a \in Agent, CloseChangeSet(a)
  PROVE  Pipeline!Next
<1> DEFINE n == cur[a]
<1>0. /\ RolloutTypes /\ changeSet \in [Owner -> [Cycle -> ChangeSetState]] /\ up /\ phase[a] = "closing"
  BY RolloutTyped DEF TypeInv, ServerTypeOK, CloseChangeSet, Serving, Begins, Serial, PhaseOf
<1>1. n \in Cycle /\ changeSet[a][n] = "Open" /\ order[a][n] = "none"
  BY <1>0 DEF ChangeInv, StandsRight
<1>2. changeSet' = [changeSet EXCEPT ![a][n] = "Closed"] /\ UNCHANGED <<order, stage, releases>>
  BY DEF CloseChangeSet, ServerSetState, orderVars, releaseVars
<1> HIDE DEF n
<1>3. \A c \in Agent, m \in Cycle :
        changeSet'[c][m] = IF c = a /\ m = n THEN "Closed" ELSE changeSet[c][m]
  BY <1>0, <1>2 DEF RolloutTypes
<1>4. Stands(a, n, "closed") /\ Standings(a, n) = "open"
  BY <1>1, <1>2, <1>3 DEF Stands, Standings
<1>5. Pipeline!Close(a, n)
  <2>1. Change' = [Change EXCEPT ![a][n] = "closed"] /\ UNCHANGED <<Reached, Shipped>>
    BY <1>1, <1>4, ChangeStands
  <2>2. Change[a][n] = "open"
    BY <1>1, <1>4 DEF Change
  <2> QED BY <2>1, <2>2 DEF Pipeline!Close, Change, Reached, Shipped, Pipeline!Cycle, Cycle
<1> QED BY <1>1, <1>5, PipelineStep

\* startRollout: none of the component's other changes rolls out.
LEMMA NamePiped ==
  ASSUME TypeInv, ChangeInv, RolloutInv, PipeInv, NEW a \in Agent, at[a] = "name",
         ServerCreateOrder(of[a], cur[a])
  PROVE  Pipeline!Next \/ UNCHANGED Pipeline!vars
<1>0. RolloutTypes /\ cur[a] \in Cycle /\ of[a] \in Owner /\ BaseOf[of[a]] = BaseOf[a] /\ up /\ phase[a] = "queued"
  BY RolloutTyped, RollsOne DEF TypeInv, Serial, PhaseOf, RolloutTypes
<1>n. PICK o \in Owner, n \in Cycle : o = of[a] /\ n = cur[a]
  BY <1>0
<1>1. changeSet[o][n] = "Closed" /\ a \in Rollout /\ order[o][n] = "none" /\ BaseOf[o] = BaseOf[a]
  BY <1>0, <1>n DEF ChangeInv, StandsRight, ServerCreateOrder
<1>2. /\ order' = [order EXCEPT ![o][n] = "moving"] /\ stage' = [stage EXCEPT ![o][n] = 0]
      /\ UNCHANGED <<changeSet, releases>>
  BY <1>n DEF ServerCreateOrder, changeSetVars, releaseVars
<1>3. \A c \in Agent, m \in Cycle : order'[c][m] = IF c = o /\ m = n THEN "moving" ELSE order[c][m]
  BY <1>0, <1>2 DEF RolloutTypes
<1>4. \A c \in Agent : stage'[c] = stage[c]
  <2>1. o \in Agent => stage[o][n] = 0
    BY <1>0, <1>1 DEF RolloutInv, RolledRight
  <2> QED BY <1>0, <1>2, <2>1 DEF RolloutTypes
<1>5. CASE o \notin Agent
  <2>1. \A c \in Agent, m \in Cycle : Standings(c, m)' = Standings(c, m)
    BY <1>2, <1>3, <1>5 DEF Standings
  <2> QED BY <1>2, <1>4, <2>1, SamePipeline DEF Same, Released
<1>6. CASE o \in Agent
  <2>1. Stands(o, n, "rolling") /\ Standings(o, n) = "closed"
    BY <1>1, <1>2, <1>3, <1>4 DEF Stands, Standings
  <2>2. ASSUME NEW c \in Agent, NEW m \in Cycle, BaseOf[c] = BaseOf[o]
        PROVE  Standings(c, m) # "rolling"
    <3>1. order[c][m] = "moving" => c = o /\ m = n
      BY <1>n, <1>1, <2>2 DEF PipeInv, AgentsClear, OnlyMoves
    <3> QED BY <1>1, <3>1 DEF Standings
  <2>3. Change' = [Change EXCEPT ![o][n] = "rolling"] /\ UNCHANGED <<Reached, Shipped>>
    BY <1>6, <2>1, ChangeStands
  <2>4. /\ Change[o][n] = "closed" /\ \E c \in Rollout : BaseOf[c] = BaseOf[o]
        /\ \A c \in Agent, m \in Cycle : BaseOf[c] = BaseOf[o] => Change[c][m] # "rolling"
    BY <1>1, <1>6, <2>1, <2>2 DEF Change
  <2>5. Pipeline!StartRollout(o, n)
    BY <2>3, <2>4 DEF Pipeline!StartRollout, Change, Reached, Shipped, Pipeline!Cycle, Cycle
  <2> QED BY <1>6, <2>5, PipelineStep
<1> QED BY <1>5, <1>6

\* A Release: the first of its space for the order, or one more of the same.
LEMMA PublishPiped ==
  ASSUME TypeInv, RolloutInv, NEW a \in Agent, at[a] = "publish", NEW d \in todo[a],
         ServerPublish(of[a], cur[a], d)
  PROVE  Pipeline!Next \/ UNCHANGED Pipeline!vars
<1>0. RolloutTypes /\ cur[a] \in Cycle /\ of[a] \in Owner /\ BaseOf[of[a]] = BaseOf[a] /\ d \in Deployment
  BY RolloutTyped, RollsOne DEF RolloutTypes
<1>n. PICK o \in Owner, n \in Cycle : o = of[a] /\ n = cur[a]
  BY <1>0
<1>1. o \in Agent => d \in InStage(BaseOf[o], stage[o][n])
  BY <1>0, <1>n DEF RolloutInv, HandRight
<1>2. /\ UNCHANGED <<changeSet, order, stage>> /\ order[o][n] \in {"moving", "completed"}
      /\ ServerPublish(o, n, d)
  BY <1>n DEF ServerPublish, changeSetVars, orderVars
<1>3. \A c \in Agent, m \in Cycle, e \in Deployment :
        Released(c, m, e)' <=> Released(c, m, e) \/ (c = o /\ m = n /\ e = d)
  BY ONLY <1>0, <1>2, PublishReleases
<1>4. \A c \in Agent, m \in Cycle : Standings(c, m)' = Standings(c, m)
  BY <1>2 DEF Standings
<1>5. CASE o \in Agent => Released(o, n, d)
  <2>1. Same
    BY <1>2, <1>3, <1>4, <1>5 DEF Same
  <2> QED BY <2>1, SamePipeline
<1>6. CASE o \in Agent /\ ~Released(o, n, d)
  <2>0. order[o][n] = "moving"
    BY <1>0, <1>1, <1>2, <1>6 DEF RolloutInv, RolledRight
  <2>1. Change' = Change /\ Reached' = Reached
    BY <1>2, <1>4 DEF Change, Reached
  <2>2. Shipped' = [Shipped EXCEPT ![o][n] = @ \union {d}]
    <3>1. \A c \in Agent, m \in Cycle :
            {e \in Deployment : releases'[c][m][e] > 0} =
              IF c = o /\ m = n THEN {e \in Deployment : releases[c][m][e] > 0} \union {d}
              ELSE {e \in Deployment : releases[c][m][e] > 0}
      BY <1>0, <1>3 DEF Released
    <3> QED BY <1>6, <3>1 DEF Shipped
  <2>3. Change[o][n] = "rolling" /\ Reached[o][n] = stage[o][n]
    BY <1>6, <2>0 DEF Change, Standings, Reached
  <2>4. d \in InStage(BaseOf[o], Reached[o][n])
    BY <1>1, <1>6, <2>3
  <2>5. Pipeline!Release(o, n, d)
    BY <2>1, <2>2, <2>3, <2>4
    DEF Pipeline!Release, Pipeline!InStage, InStage, Change, Reached, Shipped, Pipeline!Cycle, Cycle
  <2> QED BY <1>0, <1>6, <2>5, PipelineStep
<1> QED BY <1>5, <1>6

\* promote: the stage the order leaves is released whole.
LEMMA PromotePiped ==
  ASSUME TypeInv, RolloutInv, NEW a \in Agent, at[a] = "promote", ServerPromote(of[a], cur[a])
  PROVE  Pipeline!Next \/ UNCHANGED Pipeline!vars
<1>0. RolloutTypes /\ cur[a] \in Cycle /\ of[a] \in Owner /\ BaseOf[of[a]] = BaseOf[a]
  BY RolloutTyped, RollsOne DEF RolloutTypes
<1>n. PICK o \in Owner, n \in Cycle : o = of[a] /\ n = cur[a]
  BY <1>0
<1>1. /\ UNCHANGED <<changeSet, order, releases>> /\ order[o][n] = "moving" /\ stage[o][n] < LastStage
      /\ stage' = [stage EXCEPT ![o][n] = stage[o][n] + 1]
  BY <1>n DEF ServerPromote, CanPromote, changeSetVars, releaseVars
<1>2. o \in Agent => \A d \in InStage(BaseOf[o], stage[o][n]) : Released(o, n, d)
  BY <1>0, <1>n DEF RolloutInv, HandRight
<1>3. \A c \in Agent, m \in Cycle : Standings(c, m)' = Standings(c, m)
  BY <1>1 DEF Standings
<1>4. CASE o \notin Agent
  <2>1. \A c \in Agent : stage'[c] = stage[c]
    BY <1>0, <1>1, <1>4 DEF RolloutTypes
  <2> QED BY <1>1, <1>3, <2>1, SamePipeline DEF Same, Released
<1>5. CASE o \in Agent
  <2>1. Change' = Change /\ Shipped' = Shipped
    BY <1>1, <1>3 DEF Change, Shipped
  <2>2. Reached' = [Reached EXCEPT ![o][n] = @ + 1]
    BY <1>0, <1>1, <1>5 DEF Reached, RolloutTypes
  <2>3. Change[o][n] = "rolling" /\ Reached[o][n] = stage[o][n]
    BY <1>1, <1>5 DEF Change, Standings, Reached
  <2>4. InStage(BaseOf[o], Reached[o][n]) \subseteq Shipped[o][n] /\ Reached[o][n] < LastStage
    BY <1>1, <1>2, <1>5, <2>3 DEF Shipped, Released, InStage
  <2>5. Pipeline!EnterStage(o, n)
    BY <2>1, <2>2, <2>3, <2>4
    DEF Pipeline!EnterStage, Pipeline!StageShipped, Pipeline!InStage, InStage, Change, Reached, Shipped,
        Pipeline!Cycle, Cycle
  <2> QED BY <1>5, <2>5, PipelineStep
<1> QED BY <1>4, <1>5

\* A step that leaves every change where it stands and ships nothing.
LEMMA Stays ==
  ASSUME UNCHANGED <<changeSet, order, stage, releases>>
  PROVE  UNCHANGED Pipeline!vars
BY SamePipeline DEF Same, Standings, Released

\* A ChangeSet that holds nothing is made, or taken back.
LEMMA Unheld ==
  ASSUME TypeInv, NEW a \in Agent, NEW n \in Cycle, NEW x \in {"none", "created"},
         changeSet[a][n] \in {"none", "created"},
         changeSet' = [changeSet EXCEPT ![a][n] = x], UNCHANGED <<order, stage, releases>>
  PROVE  UNCHANGED Pipeline!vars
<1>1. \A c \in Agent, m \in Cycle :
        changeSet'[c][m] = IF c = a /\ m = n THEN x ELSE changeSet[c][m]
  BY DEF TypeInv, ServerTypeOK, Owner
<1>2. \A c \in Agent, m \in Cycle : Standings(c, m)' = Standings(c, m)
  BY <1>1 DEF Standings
<1> QED BY <1>2, SamePipeline DEF Same, Released

\* A report completes at most one agent's order: the orders it completes wait
\* for the same deployment, so they are of one component.
LEMMA FinishPiped ==
  ASSUME TypeInv, RolloutInv, PipeInv, NEW d \in Deployment, NEW h \in Health, ServerReport(d, h)
  PROVE  Pipeline!Next \/ UNCHANGED Pipeline!vars
<1>0. RolloutTypes /\ health \in [Deployment -> Health]
  BY RolloutTyped DEF TypeInv, ServerTypeOK
<1>1. /\ UNCHANGED <<changeSet, stage, releases, pinned>> /\ health' = [health EXCEPT ![d] = h]
      /\ \A c \in Agent, m \in Cycle :
           order'[c][m] = IF Finished(c, m, health') THEN "completed" ELSE order[c][m]
  BY <1>0 DEF ServerReport, changeSetVars, RolloutTypes
<1>2. \A c \in Agent, m \in Cycle : Finished(c, m, health') => order[c][m] = "moving" /\ DeployedFrom[d] = BaseOf[c]
  <2> SUFFICES ASSUME NEW c \in Agent, NEW m \in Cycle, Finished(c, m, health')
               PROVE  order[c][m] = "moving" /\ DeployedFrom[d] = BaseOf[c]
    OBVIOUS
  <2>1. ~Finished(c, m, health)
    BY DEF PipeInv, NotYet
  <2>2. d \in InStage(BaseOf[c], LastStage)
    BY <1>0, <1>1, <2>1 DEF Finished, InStage
  <2> QED BY <2>2 DEF Finished, InStage
<1>3. CASE \A c \in Agent, m \in Cycle : ~Finished(c, m, health')
  <2>1. \A c \in Agent, m \in Cycle : Standings(c, m)' = Standings(c, m)
    BY <1>1, <1>3 DEF Standings
  <2> QED BY <1>1, <2>1, SamePipeline DEF Same, Released
<1>4. ASSUME NEW a \in Agent, NEW n \in Cycle, Finished(a, n, health')
      PROVE  Pipeline!Next
  <2>1. \A c \in Agent, m \in Cycle : Finished(c, m, health') => c = a /\ m = n
    BY <1>2, <1>4 DEF PipeInv, AgentsClear
  <2>2. \A c \in Agent, m \in Cycle : order'[c][m] = IF c = a /\ m = n THEN "completed" ELSE order[c][m]
    BY <1>1, <1>4, <2>1
  <2>3. Stands(a, n, "done") /\ Standings(a, n) = "rolling"
    <3>1. order[a][n] = "moving" /\ changeSet' = changeSet
      BY <1>1, <1>2, <1>4
    <3>2. \A c \in Agent, m \in Cycle : Standings(c, m)' = IF c = a /\ m = n THEN "done" ELSE Standings(c, m)
      BY <2>2, <3>1 DEF Standings
    <3>3. \A c \in Agent : stage'[c] = stage[c] /\ releases'[c] = releases[c]
      BY <1>1
    <3> QED BY <3>1, <3>2, <3>3 DEF Stands, Standings
  <2>4. Change' = [Change EXCEPT ![a][n] = "done"] /\ UNCHANGED <<Reached, Shipped>>
    BY <2>3, ChangeStands
  <2>5. Change[a][n] = "rolling" /\ Reached[a][n] = LastStage
    <3>1. stage[a][n] = LastStage
      BY <1>1, <1>4 DEF Finished
    <3> QED BY <2>3, <3>1 DEF Change, Reached
  <2>6. InStage(BaseOf[a], Reached[a][n]) \subseteq Shipped[a][n]
    <3>1. \A e \in InStage(BaseOf[a], LastStage) : <<a, n, e>> \in pinned
      BY <1>4 DEF Finished
    <3>2. \A e \in InStage(BaseOf[a], LastStage) : Released(a, n, e)
      BY <3>1 DEF RolloutInv, RolledRight, InStage
    <3> QED BY <2>5, <3>2 DEF Shipped, Released, InStage
  <2>7. Pipeline!Finish(a, n)
    BY <2>4, <2>5, <2>6
    DEF Pipeline!Finish, Pipeline!StageShipped, Pipeline!InStage, InStage, Change, Reached, Shipped,
        Pipeline!Cycle, Cycle
  <2> QED BY <2>7, PipelineStep
<1> QED BY <1>3, <1>4

\* An aborted order, an agent's or a person's.
LEMMA AbandonPiped ==
  ASSUME TypeInv, NEW o \in Owner, NEW n \in Cycle, AbortOrder(o, n)
  PROVE  Pipeline!Next \/ UNCHANGED Pipeline!vars
<1>0. RolloutTypes
  BY RolloutTyped
<1>1. /\ UNCHANGED <<changeSet, stage, releases>> /\ order[o][n] = "moving"
      /\ \A c \in Agent, m \in Cycle : order'[c][m] = IF c = o /\ m = n THEN "terminal" ELSE order[c][m]
  BY <1>0 DEF AbortOrder, changeSetVars, releaseVars, RolloutTypes
<1>2. CASE o \in Agent
  <2>1. Stands(o, n, "abandoned") /\ Standings(o, n) = "rolling"
    BY <1>1 DEF Stands, Standings
  <2>2. Change' = [Change EXCEPT ![o][n] = "abandoned"] /\ UNCHANGED <<Reached, Shipped>>
    BY <1>2, <2>1, ChangeStands
  <2>3. Change[o][n] = "rolling"
    BY <1>2, <2>1 DEF Change
  <2>4. Pipeline!Abandon(o, n)
    BY <2>2, <2>3 DEF Pipeline!Abandon, Change, Reached, Shipped, Pipeline!Cycle, Cycle
  <2> QED BY <1>2, <2>4, PipelineStep
<1>3. CASE o \notin Agent
  <2>1. \A c \in Agent, m \in Cycle : Standings(c, m)' = Standings(c, m)
    BY <1>1, <1>3 DEF Standings
  <2> QED BY <1>1, <2>1, SamePipeline DEF Same, Released
<1> QED BY <1>2, <1>3

\* What else people do is none of the pipeline's.
LEMMA PeoplePiped ==
  ASSUME TypeInv, RolloutInv, PipeInv, People
  PROVE  Pipeline!Next \/ UNCHANGED Pipeline!vars
<1>0. RolloutTypes /\ changeSet \in [Owner -> [Cycle -> ChangeSetState]]
  BY RolloutTyped DEF TypeInv, ServerTypeOK
<1>1. ASSUME NEW p \in Person, NEW n \in Cycle,
             PersonOpens(p, n) \/ PersonCloses(p, n) \/ PlayNamesOrder(p, n) \/ PlayFinishes(p, n)
      PROVE  UNCHANGED Pipeline!vars
  <2>1. \A c \in Agent : /\ changeSet'[c] = changeSet[c] /\ order'[c] = order[c]
                          /\ stage'[c] = stage[c] /\ releases'[c] = releases[c]
    BY <1>0, <1>1
    DEF PersonOpens, PersonCloses, PlayNamesOrder, PlayFinishes, ServerSetState, ServerCreateOrder,
        changeSetVars, orderVars, releaseVars, RolloutTypes
  <2> QED BY <2>1, SamePipeline DEF Same, Standings, Released
<1>2. ASSUME UNCHANGED <<changeSet, order, stage, releases>>
      PROVE  UNCHANGED Pipeline!vars
  BY <1>2, Stays
<1>3. ASSUME NEW d \in Deployment, NEW h \in Health, ServerReport(d, h)
      PROVE  Pipeline!Next \/ UNCHANGED Pipeline!vars
  BY <1>3, FinishPiped
<1> QED
  BY <1>1, <1>2, <1>3, AbandonPiped
  DEF People, Approve, RuleArrives, PlainRelease, ServerPublishPlain, Observe, Incident, Heal, Health,
      changeSetVars, orderVars, releaseVars

\* A move of the runner.
LEMMA MovePiped ==
  ASSUME TypeInv, ChangeInv, RolloutInv, PipeInv, NEW a \in Agent, Move(a)
  PROVE  Pipeline!Next \/ UNCHANGED Pipeline!vars
<1>1. CASE CheckHeld(a) \/ ReadRule(a) \/ BaseTaken(a) \/ RunStep(a) \/ CloseRefused(a) \/ AskReview(a)
           \/ ListOrders(a) \/ RolloutComplete(a) \/ RolloutMoves(a) \/ ResolveStage(a)
  BY <1>1, Stays
  DEF CheckHeld, ReadRule, BaseTaken, RunStep, CloseRefused, AskReview, ListOrders, RolloutComplete,
      RolloutMoves, ResolveStage, Goes, ServerWrite, ServerAsk, serverVars, changeSetVars, orderVars,
      releaseVars
<1>2. CASE CreateChangeSet(a) \/ DiscardChangeSet(a)
  <2>1. NextCycle(a) \in Cycle
    BY <1>2, OpensOne DEF CreateChangeSet, DiscardChangeSet, Serving
  <2>2. CASE ServerCreate(a, NextCycle(a), sawRequired[a])
    BY <2>1, <2>2, Unheld DEF ServerCreate, CanCreate, orderVars, releaseVars
  <2>3. CASE DiscardChangeSet(a)
    <3>1. changeSet[a][NextCycle(a)] = "created"
      BY <2>3 DEF ChangeInv, StandsRight, DiscardChangeSet, Serving, NextCycle
    <3> QED BY <2>1, <2>3, <3>1, Unheld DEF DiscardChangeSet, ServerSetState, orderVars, releaseVars
  <2> QED BY <1>2, <2>2, <2>3, Stays DEF CreateChangeSet, serverVars, changeSetVars, orderVars, releaseVars
<1>3. CASE EnterBase(a)
  BY <1>3, OpenPiped DEF EnterBase, Serving
<1>4. CASE CloseChangeSet(a)
  BY <1>4, ClosePiped
<1>5. CASE NameOrder(a) \/ PublishNext(a) \/ Promote(a)
  <2>1. CASE UNCHANGED serverVars
    BY <2>1, Stays DEF serverVars, changeSetVars, orderVars, releaseVars
  <2>2. CASE at[a] = "name" /\ ServerCreateOrder(of[a], cur[a])
    BY <2>2, NamePiped
  <2>3. ASSUME NEW d \in todo[a], at[a] = "publish", ServerPublish(of[a], cur[a], d)
        PROVE  Pipeline!Next \/ UNCHANGED Pipeline!vars
    BY <2>3, PublishPiped
  <2>4. CASE at[a] = "promote" /\ ServerPromote(of[a], cur[a])
    BY <2>4, PromotePiped
  <2> QED BY <1>5, <2>1, <2>2, <2>3, <2>4 DEF NameOrder, PublishNext, Promote, Serving
<1> QED BY <1>1, <1>2, <1>3, <1>4, <1>5 DEF Move

\* A failed call, or one whose answer is lost.
LEMMA FailurePiped ==
  ASSUME TypeInv, ChangeInv, RolloutInv, PipeInv, NEW a \in Agent, CallFails(a) \/ AnswerLost(a)
  PROVE  Pipeline!Next \/ UNCHANGED Pipeline!vars
<1>1. CASE UNCHANGED <<changeSet, order, stage, releases>>
  BY <1>1, Stays
<1>2. CASE at[a] = "create" /\ ServerCreate(a, NextCycle(a), sawRequired[a])
  BY <1>2, OpensOne, Unheld DEF ServerCreate, CanCreate, orderVars, releaseVars
<1>3. CASE at[a] = "enter" /\ CanOpen(a, NextCycle(a)) /\ ServerSetState(a, NextCycle(a), "Open")
  BY <1>3, OpenPiped
<1>4. CASE at[a] = "name" /\ ServerCreateOrder(of[a], cur[a])
  BY <1>4, NamePiped
<1>5. CASE at[a] = "promote" /\ ServerPromote(of[a], cur[a])
  BY <1>5, PromotePiped
<1>6. ASSUME NEW d \in todo[a], at[a] = "publish", ServerPublish(of[a], cur[a], d)
      PROVE  Pipeline!Next \/ UNCHANGED Pipeline!vars
  BY <1>6, PublishPiped
<1> QED
  BY <1>1, <1>2, <1>3, <1>4, <1>5, <1>6
  DEF CallFails, AnswerLost, Serving, ServerWrite, ServerAsk, serverVars, changeSetVars, orderVars,
      releaseVars

\* Every step is one of the pipeline's, or none.
LEMMA NextPiped ==
  ASSUME TypeInv, ChangeInv, RolloutInv, PipeInv, [Next]_vars
  PROVE  [Pipeline!Next]_(Pipeline!vars)
<1>1. CASE Start \/ Crash \/ UNCHANGED vars
  BY <1>1, Stays DEF Start, Crash, vars, serverVars, changeSetVars, orderVars, releaseVars
<1> QED BY <1>1, MovePiped, FailurePiped, PeoplePiped DEF Next
-----------------------------------------------------------------------------
\* MovingRight, where an agent's orders are its own affair.
LEMMA MovingUntouched ==
  ASSUME NEW a \in Agent, MovingRight(a), changeSet'[a] = changeSet[a],
         \A n \in Cycle : order'[a][n] = "moving" => order[a][n] = "moving",
         up' = FALSE \/ (up' = up /\ phase'[a] = phase[a] /\ of'[a] = of[a] /\ cur'[a] = cur[a])
  PROVE  MovingRight(a)'
BY DEF MovingRight

\* An idle agent, or one with an open change, has no order that moves.
LEMMA NoneMoves ==
  ASSUME NEW a \in Agent, MovingRight(a), up, phase[a] \notin {"queued", "rolling"},
         order'[a] = order[a]
  PROVE  MovingRight(a)'
BY DEF MovingRight

\* adopt finds the order that moves where it carries the agent's last change.
LEMMA MovingFound ==
  ASSUME TypeInv, NEW a \in Agent, StandsRight(a), NEW n \in Cycle, order[a][n] = "moving",
         \A m \in Cycle : m > n => changeSet[a][m] = "none"
  PROVE  Standing(a) = {Holds("rolling", a, n)}
<1>1. /\ changeSet[a] \in [Cycle -> ChangeSetState] /\ MaxCycle \in Nat /\ n \in 1 .. MaxCycle
      /\ changeSet[a][n] = "Closed" /\ \A m \in Cycle : m > n => changeSet[a][m] = "none"
  BY BoundsAssumption DEF TypeInv, ServerTypeOK, Owner, Cycle, StandsRight
<1>2. OpenOf(a) = {}
  <2>1. ASSUME NEW m \in Cycle, changeSet[a][m] = "Open"
        PROVE  FALSE
    <3>1. \A k \in Cycle : k > m => changeSet[a][k] = "none"
      BY <2>1 DEF StandsRight
    <3>2. m = n
      BY <1>1, <2>1, <3>1 DEF Cycle
    <3> QED BY <1>1, <2>1, <3>2
  <2> QED BY <2>1 DEF OpenOf
<1>3. n \in Named(a) /\ \A m \in Named(a) : m <= n
  BY <1>1 DEF Named, Cycle
<1>4. Ordered(a) \subseteq Named(a) /\ Moving(a) \subseteq Ordered(a) /\ n \in Moving(a)
  BY DEF Ordered, Named, Moving, StandsRight
<1>5. LastCycle(a) = n
  <2>1. Named(a) \union Ordered(a) = Named(a)
    BY <1>4
  <2>2. Highest(Named(a)) \in Named(a) /\ n <= Highest(Named(a))
    BY <1>1, <1>3, CycleSets, HighestOf
  <2>3. Highest(Named(a)) = n
    BY <1>1, <1>3, <2>2, CycleSets
  <2> QED BY <1>2, <2>1, <2>3 DEF LastCycle
<1>6. Highest(Moving(a)) = n
  <2>1. Highest(Moving(a)) \in Moving(a) /\ n <= Highest(Moving(a))
    BY <1>1, <1>4, CycleSets, HighestOf
  <2> QED BY <1>1, <1>3, <1>4, <2>1, CycleSets
<1> QED BY <1>2, <1>4, <1>5, <1>6 DEF Standing

\* A move of the agent's own. One that holds a change that is not its own has no
\* orders.
LEMMA MoveMovingRight ==
  ASSUME TypeInv, NEW a \in Agent, StandsRight(a), HoldsRight(a), MovingRight(a),
         Move(a) \/ CallFails(a) \/ AnswerLost(a)
  PROVE  MovingRight(a)'
<1>0. RolloutTypes /\ changeSet \in [Owner -> [Cycle -> ChangeSetState]]
  BY RolloutTyped DEF TypeInv, ServerTypeOK
<1>s. /\ at[a] # "rest" => up /\ phase[a] = PhaseOf(at[a])
  BY DEF TypeInv, Serial
<1>h. CASE of[a] # a
  <2>1. \A n \in Cycle : order[a][n] = "none"
    BY <1>h DEF HoldsRight, StandsRight
  <2>2. order'[a] = order[a]
    BY <1>0, <1>h, MoveDoes DEF ServerCreateOrder, ServerPublish, ServerPromote, orderVars, RolloutTypes
  <2> QED BY <2>1, <2>2 DEF MovingRight
<1>1. CASE UNCHANGED <<changeSet, order, up, phase, of, cur>>
  BY <1>1, MovingUntouched
<1>2. CASE UNCHANGED order /\ up /\ phase[a] \notin {"queued", "rolling"}
  BY <1>2, NoneMoves
<1>3. CASE /\ of[a] = a /\ at[a] = "name" /\ ServerCreateOrder(of[a], cur[a])
           /\ UNCHANGED <<up, of, cur>> /\ phase'[a] \in {"queued", "rolling"}
  <2>1. up /\ phase[a] = "queued" /\ cur[a] \in Cycle
    BY <1>3, <1>s, RollsOne DEF PhaseOf
  <2>2. /\ UNCHANGED changeSet /\ order[a][cur[a]] = "none"
        /\ \A n \in Cycle : order'[a][n] = IF n = cur[a] THEN "moving" ELSE order[a][n]
    BY <1>0, <1>3 DEF ServerCreateOrder, changeSetVars, RolloutTypes
  <2>3. \A m \in Cycle : m > cur[a] => changeSet[a][m] = "none"
    BY <1>3, <2>1, <2>2 DEF StandsRight, Undone
  <2> QED BY <1>3, <2>1, <2>2, <2>3 DEF MovingRight
<1>4. CASE of[a] = a /\ RolloutComplete(a)
  <2>1. up /\ order[a][cur[a]] = "completed" /\ UNCHANGED <<changeSet, order>>
    BY <1>4, <1>s DEF RolloutComplete, Serving, Begins, serverVars, changeSetVars, orderVars
  <2> QED BY <2>1 DEF MovingRight
<1>5. CASE CheckHeld(a) \/ ReadRule(a) \/ CreateChangeSet(a) \/ EnterBase(a) \/ BaseTaken(a)
           \/ DiscardChangeSet(a) \/ RunStep(a) \/ CloseChangeSet(a) \/ CloseRefused(a) \/ AskReview(a)
  <2>1. UNCHANGED order
    BY <1>5
    DEF CheckHeld, ReadRule, CreateChangeSet, EnterBase, BaseTaken, DiscardChangeSet, RunStep,
        CloseChangeSet, CloseRefused, AskReview, Goes, ServerCreate, ServerSetState, ServerWrite,
        ServerAsk, serverVars, orderVars
  <2>2. up /\ phase[a] \in {"idle", "closing"}
    BY <1>5, <1>s
    DEF CheckHeld, ReadRule, CreateChangeSet, EnterBase, BaseTaken, DiscardChangeSet, RunStep,
        CloseChangeSet, CloseRefused, AskReview, Serving, Begins, PhaseOf
  <2> QED BY <1>2, <2>1, <2>2
<1>6. CASE ListOrders(a) \/ RolloutMoves(a) \/ ResolveStage(a) \/ PublishNext(a) \/ Promote(a)
  <2>1. UNCHANGED <<changeSet, order, up, phase, of, cur>>
    BY <1>6
    DEF ListOrders, RolloutMoves, ResolveStage, PublishNext, Promote, Goes, ServerPublish,
        ServerPromote, serverVars, changeSetVars, orderVars
  <2> QED BY <1>1, <2>1
<1>7. CASE of[a] = a /\ NameOrder(a)
  BY <1>0, <1>1, <1>3, <1>7, <1>s
  DEF NameOrder, Serving, PhaseOf, RolloutTypes, serverVars, changeSetVars, orderVars
<1>8. CASE of[a] = a /\ (CallFails(a) \/ AnswerLost(a))
  BY <1>1, <1>2, <1>3, <1>8, <1>s
  DEF CallFails, AnswerLost, Serving, PhaseOf, ServerCreate, ServerSetState, ServerWrite, ServerAsk,
      ServerPublish, ServerPromote, serverVars, changeSetVars, orderVars
<1> QED BY <1>h, <1>4, <1>5, <1>6, <1>7, <1>8 DEF Move

\* What people do to an agent's changes is to complete or abort their orders.
LEMMA PeopleMoves ==
  ASSUME TypeInv, People
  PROVE  /\ UNCHANGED <<at, up, phase, of, cur>>
         /\ \A a \in Agent : /\ changeSet'[a] = changeSet[a]
                             /\ \A n \in Cycle : order'[a][n] = "moving" => order[a][n] = "moving"
<1>0. /\ changeSet \in [Owner -> [Cycle -> ChangeSetState]] /\ order \in [Owner -> [Cycle -> OrderState]]
      /\ \A a \in Agent : a \in Owner /\ a \notin Person
  BY OwnersAssumption DEF TypeInv, ServerTypeOK, Owner
<1>1. UNCHANGED <<at, up, phase, of, cur>>
  BY DEF People, Approve, PersonOpens, PersonCloses, PlayNamesOrder, PlayFinishes, AbortOrder,
         RuleArrives, PlainRelease, Observe, Incident, Heal, runnerVars, localVars
<1> SUFFICES ASSUME NEW a \in Agent
             PROVE  /\ changeSet'[a] = changeSet[a]
                    /\ \A n \in Cycle : order'[a][n] = "moving" => order[a][n] = "moving"
  BY <1>1
<1>2. ASSUME NEW p \in Person, NEW n \in Cycle,
             PersonOpens(p, n) \/ PersonCloses(p, n) \/ PlayNamesOrder(p, n) \/ PlayFinishes(p, n)
      PROVE  changeSet'[a] = changeSet[a] /\ order'[a] = order[a]
  BY <1>0, <1>2
  DEF PersonOpens, PersonCloses, PlayNamesOrder, PlayFinishes, ServerSetState, ServerCreateOrder,
      changeSetVars, orderVars
<1>3. ASSUME NEW o \in Owner, NEW n \in Cycle, AbortOrder(o, n)
      PROVE  /\ changeSet'[a] = changeSet[a]
             /\ \A m \in Cycle : order'[a][m] = "moving" => order[a][m] = "moving"
  BY <1>0, <1>3 DEF AbortOrder, changeSetVars
<1>4. ASSUME NEW d \in Deployment, NEW h \in Health, ServerReport(d, h)
      PROVE  /\ changeSet'[a] = changeSet[a]
             /\ \A m \in Cycle : order'[a][m] = "moving" => order[a][m] = "moving"
  BY <1>0, <1>4 DEF ServerReport, changeSetVars
<1>5. CASE UNCHANGED <<changeSet, order>>
  BY <1>5
<1> QED
  BY <1>2, <1>3, <1>4, <1>5
  DEF People, Approve, RuleArrives, PlainRelease, ServerPublishPlain, Observe, Incident, Heal,
      Health, changeSetVars, orderVars

LEMMA NextMovingRight ==
  ASSUME TypeInv, ChangeInv, [Next]_vars, NEW a \in Agent, MovingRight(a)
  PROVE  MovingRight(a)'
<1>0. StandsRight(a) /\ HoldsRight(a)
  BY DEF ChangeInv
<1>1. CASE Start
  <2>1. UNCHANGED <<changeSet, order>> /\ Holds(phase'[a], of'[a], cur'[a]) \in Standing(a)
    BY <1>1, StartStands DEF Start, serverVars, changeSetVars, orderVars
  <2>2. ASSUME a \in Rollout, NEW n \in Cycle, order[a][n] = "moving"
        PROVE  /\ phase'[a] = "rolling" /\ of'[a] = a /\ cur'[a] = n
               /\ \A m \in Cycle : m > n => changeSet[a][m] = "none"
    <3>1. \A m \in Cycle : m > n => changeSet[a][m] = "none"
      BY <2>2 DEF MovingRight
    <3>2. Holds(phase'[a], of'[a], cur'[a]) = Holds("rolling", a, n)
      BY <1>0, <2>1, <2>2, <3>1, MovingFound
    <3> QED BY <3>1, <3>2 DEF Holds
  <2> QED BY <2>1, <2>2 DEF MovingRight
<1>2. ASSUME NEW c \in Agent, Move(c) \/ CallFails(c) \/ AnswerLost(c)
      PROVE  MovingRight(a)'
  <2>1. CASE c = a
    BY <1>0, <1>2, <2>1, MoveMovingRight
  <2>2. CASE c # a
    <3>1. /\ changeSet'[a] = changeSet[a] /\ up' = up /\ phase'[a] = phase[a] /\ of'[a] = of[a] /\ cur'[a] = cur[a]
          /\ \A n \in Cycle : order'[a][n] = order[a][n] \/ (order[a][n] = "none" /\ changeSet[a][n] = "Closed")
      BY <1>2, <2>2, MoveOthers DEF ChangeInv
    <3>2. \A n \in Cycle : a \in Rollout /\ order[a][n] = "none" /\ changeSet[a][n] = "Closed" => Undone(a, n)
      BY DEF Undone
    <3>3. \A n \in Cycle : Undone(a, n) =>
            /\ up => phase[a] = "queued" /\ of[a] = a /\ cur[a] = n
            /\ \A m \in Cycle : m > n => changeSet[a][m] = "none"
      BY <1>0 DEF StandsRight
    <3> QED BY <3>1, <3>2, <3>3 DEF MovingRight
  <2> QED BY <2>1, <2>2
<1>3. CASE Crash
  BY <1>3, MovingUntouched DEF Crash, serverVars, changeSetVars, orderVars
<1>4. CASE People
  BY <1>4, PeopleMoves, MovingUntouched
<1>5. CASE UNCHANGED vars
  BY <1>5, MovingUntouched DEF vars, serverVars, changeSetVars, orderVars, runnerVars, localVars
<1> QED BY <1>1, <1>2, <1>3, <1>4, <1>5 DEF Next
-----------------------------------------------------------------------------
\* A step that sets no agent's order moving and brings none to naming one.
LEMMA ClearKept ==
  ASSUME AgentsClear,
         \A c \in Agent, m \in Cycle : order'[c][m] = "moving" => order[c][m] = "moving",
         \A c \in Agent : at'[c] = "name" => at[c] = "name" /\ of'[c] = of[c] /\ cur'[c] = cur[c]
  PROVE  AgentsClear'
BY DEF AgentsClear, OnlyMoves

\* startRollout: the agent's order is the first of its component's to move.
LEMMA NamedClear ==
  ASSUME TypeInv, AgentsClear, NEW a \in Agent, at[a] = "name", ServerCreateOrder(of[a], cur[a]),
         \A c \in Agent : at'[c] # "name"
  PROVE  AgentsClear'
<1>0. RolloutTypes /\ cur[a] \in Cycle /\ of[a] \in Owner /\ BaseOf[of[a]] = BaseOf[a]
  BY RolloutTyped, RollsOne DEF RolloutTypes
<1>1. \A c \in Agent, m \in Cycle :
        order'[c][m] = "moving" => order[c][m] = "moving" \/ (c = of[a] /\ m = cur[a])
  BY <1>0 DEF ServerCreateOrder, RolloutTypes
<1>2. \A c \in Agent, m \in Cycle : BaseOf[c] = BaseOf[a] /\ order'[c][m] = "moving" => c = of[a] /\ m = cur[a]
  BY <1>0, <1>1 DEF AgentsClear, OnlyMoves
<1>3. ASSUME NEW b \in Agent, NEW c \in Agent, NEW n \in Cycle, NEW m \in Cycle, BaseOf[c] = BaseOf[b],
             order'[c][m] = "moving", order'[b][n] = "moving"
      PROVE  c = b /\ m = n
  <2>1. CASE BaseOf[b] = BaseOf[a]
    BY <1>2, <1>3, <2>1
  <2>2. CASE BaseOf[b] # BaseOf[a]
    BY <1>0, <1>1, <1>3, <2>2 DEF AgentsClear
  <2> QED BY <2>1, <2>2
<1> QED BY <1>3 DEF AgentsClear

LEMMA MoveClear ==
  ASSUME TypeInv, AgentsClear, NEW a \in Agent, Move(a) \/ CallFails(a) \/ AnswerLost(a)
  PROVE  AgentsClear'
<1>0. RolloutTypes
  BY RolloutTyped
<1>1. ASSUME UNCHANGED order,
             \A c \in Agent : at'[c] = "name" => at[c] = "name" /\ of'[c] = of[c] /\ cur'[c] = cur[c]
      PROVE  AgentsClear'
  BY <1>1, ClearKept
<1>2. CASE at[a] = "name" /\ ServerCreateOrder(of[a], cur[a]) /\ (Then(a, "read") \/ Then(a, "rest"))
  <2>1. \A c \in Agent : at'[c] # "name"
    BY <1>0, <1>2, NamingAlone DEF Then, RolloutTypes
  <2> QED BY <1>2, <2>1, NamedClear
<1>3. CASE ListOrders(a)
  <2>1. UNCHANGED <<order, of, cur>>
    BY <1>3 DEF ListOrders, Goes, serverVars, orderVars
  <2>2. \A c \in Agent : at'[c] = "name" => at[c] = "name" \/ (c = a /\ ~OtherMoving(a))
    BY <1>0, <1>3 DEF ListOrders, Goes, Then, RolloutTypes
  <2>3. ~OtherMoving(a) => OnlyMoves(a)
    BY <1>0 DEF OtherMoving, OnlyMoves, RolloutTypes
  <2>4. \A c \in Agent : OnlyMoves(c) => OnlyMoves(c)'
    BY <2>1 DEF OnlyMoves
  <2> QED BY <2>1, <2>2, <2>3, <2>4 DEF AgentsClear
<1>4. CASE CheckHeld(a) \/ ReadRule(a) \/ CreateChangeSet(a) \/ EnterBase(a)
           \/ BaseTaken(a) \/ DiscardChangeSet(a) \/ RunStep(a)
  BY <1>0, <1>1, <1>4
  DEF CheckHeld, ReadRule, CreateChangeSet, EnterBase, BaseTaken, DiscardChangeSet, RunStep, Goes,
      Then, ServerCreate, ServerSetState, ServerWrite, serverVars, orderVars, RolloutTypes
<1>5. CASE CloseChangeSet(a) \/ CloseRefused(a) \/ AskReview(a)
  BY <1>0, <1>1, <1>5
  DEF CloseChangeSet, CloseRefused, AskReview, Goes, Then, ServerSetState, ServerAsk, serverVars,
      orderVars, RolloutTypes
<1>6. CASE RolloutComplete(a) \/ RolloutMoves(a) \/ ResolveStage(a) \/ PublishNext(a) \/ Promote(a)
  BY <1>0, <1>1, <1>6
  DEF RolloutComplete, RolloutMoves, ResolveStage, PublishNext, Promote, Goes, Then, ServerPublish,
      ServerPromote, serverVars, orderVars, RolloutTypes
<1>7. CASE NameOrder(a)
  BY <1>0, <1>1, <1>2, <1>7 DEF NameOrder, Serving, Then, serverVars, orderVars, RolloutTypes
<1>8. CASE CallFails(a) \/ AnswerLost(a)
  <2>1. \A c \in Agent : at'[c] = "name" => at[c] = "name" /\ of'[c] = of[c] /\ cur'[c] = cur[c]
    BY <1>0, <1>8 DEF CallFails, AnswerLost, Then, RolloutTypes
  <2> QED
    BY <1>1, <1>2, <1>8, <2>1
    DEF CallFails, AnswerLost, Serving, ServerCreate, ServerSetState, ServerWrite, ServerAsk,
        ServerPublish, ServerPromote, serverVars, orderVars
<1> QED BY <1>3, <1>4, <1>5, <1>6, <1>7, <1>8 DEF Move

LEMMA NextClear ==
  ASSUME TypeInv, AgentsClear, [Next]_vars
  PROVE  AgentsClear'
<1>1. CASE Start \/ Crash
  <2>1. \A c \in Agent : at'[c] # "name"
    BY <1>1 DEF Start, Crash, TypeInv, Serial
  <2> QED BY <1>1, <2>1, ClearKept DEF Start, Crash, serverVars, orderVars
<1>2. CASE People
  BY <1>2, PeopleMoves, ClearKept
<1>3. CASE UNCHANGED vars
  BY <1>3, ClearKept DEF vars, serverVars, orderVars, runnerVars, localVars
<1> QED BY <1>1, <1>2, <1>3, MoveClear DEF Next
-----------------------------------------------------------------------------
\* Every agent's component has a deployment in the last stage.
LastServed == \A a \in Agent : InStage(BaseOf[a], LastStage) # {}

\* A step that pins nothing of an agent's, makes nothing healthy that is pinned
\* to it and moves no order into its last stage completes none.
LEMMA NotYetKept ==
  ASSUME NEW a \in Agent, NEW n \in Cycle, ~Finished(a, n, health),
         order'[a][n] = "moving" => order[a][n] = "moving",
         stage'[a][n] = stage[a][n],
         \A d \in Deployment : <<a, n, d>> \in pinned' /\ health'[d] = "healthy" =>
           <<a, n, d>> \in pinned /\ health[d] = "healthy"
  PROVE  ~Finished(a, n, health)'
BY DEF Finished, InStage

\* What is published waits for a report.
LEMMA PublishedNotYet ==
  ASSUME TypeInv, NotYet, NEW d \in Deployment, UNCHANGED <<order, stage>>,
         health' = [health EXCEPT ![d] = "unreported"],
         \A o \in Owner, n \in Cycle, e \in Deployment :
           e # d /\ <<o, n, e>> \in pinned' => <<o, n, e>> \in pinned
  PROVE  NotYet'
<1> SUFFICES ASSUME NEW a \in Agent, NEW n \in Cycle PROVE ~Finished(a, n, health)'
  BY DEF NotYet
<1>1. health \in [Deployment -> Health] /\ a \in Owner
  BY DEF TypeInv, ServerTypeOK, Owner
<1>2. \A e \in Deployment : health'[e] = IF e = d THEN "unreported" ELSE health[e]
  BY <1>1
<1>3. ~Finished(a, n, health)
  BY DEF NotYet
<1> QED BY <1>1, <1>2, <1>3, NotYetKept

\* A stage that is entered has nothing released in it.
LEMMA PromotedNotYet ==
  ASSUME TypeInv, RolloutInv, LastServed, NotYet, NEW q \in Owner, NEW k \in Cycle, ServerPromote(q, k)
  PROVE  NotYet'
<1>0. RolloutTypes
  BY RolloutTyped
<1>1. /\ UNCHANGED <<order, pinned, health>> /\ stage[q][k] < LastStage
      /\ \A c \in Agent, m \in Cycle :
           stage'[c][m] = IF c = q /\ m = k THEN stage[c][m] + 1 ELSE stage[c][m]
  BY <1>0 DEF ServerPromote, CanPromote, releaseVars, RolloutTypes
<1> SUFFICES ASSUME NEW c \in Agent, NEW m \in Cycle PROVE ~Finished(c, m, health)'
  BY DEF NotYet
<1>2. CASE c = q /\ m = k
  <2>1. PICK d \in Deployment : DeployedFrom[d] = BaseOf[c] /\ StageOf[d] = LastStage
    BY DEF LastServed, InStage
  <2>2. ~(StageOf[d] <= stage[c][m])
    <3>1. stage[c][m] \in 0 .. LastStage
      BY <1>0 DEF RolloutTypes, Stage
    <3> QED BY <1>1, <1>2, <2>1, <3>1, BoundsAssumption
  <2>3. ~Released(c, m, d)
    BY <2>2 DEF RolloutInv, RolledRight
  <2>4. <<c, m, d>> \notin pinned
    BY <2>3 DEF RolloutInv, RolledRight
  <2> QED BY <1>1, <2>1, <2>4 DEF Finished, InStage
<1>3. CASE ~(c = q /\ m = k)
  BY <1>1, <1>3, NotYetKept DEF NotYet
<1> QED BY <1>2, <1>3

\* What a play completes is the presenter's own, and takes the latest Releases.
LEMMA PlayNotYet ==
  ASSUME TypeInv, LastServed, NotYet, NEW p \in Person, NEW n \in Cycle, PlayFinishes(p, n)
  PROVE  NotYet'
<1> SUFFICES ASSUME NEW c \in Agent, NEW m \in Cycle PROVE ~Finished(c, m, health)'
  BY DEF NotYet
<1>0. RolloutTypes /\ c # p
  BY RolloutTyped, OwnersAssumption
<1>1. /\ order'[c] = order[c] /\ stage'[c] = stage[c]
      /\ \A d \in Deployment : <<c, m, d>> \in pinned' =>
           <<c, m, d>> \in pinned /\ DeployedFrom[d] # BaseOf[p]
      /\ \A d \in Deployment : DeployedFrom[d] # BaseOf[p] => health'[d] = health[d]
  BY <1>0 DEF PlayFinishes, RolloutTypes
<1> QED BY <1>1, NotYetKept DEF NotYet

\* What a report finishes is completed by it.
LEMMA ReportNotYet ==
  ASSUME TypeInv, NEW d \in Deployment, NEW h \in Health, ServerReport(d, h)
  PROVE  NotYet'
<1>0. RolloutTypes
  BY RolloutTyped
<1>1. UNCHANGED <<stage, pinned>> /\ \A c \in Agent, m \in Cycle :
        order'[c][m] = IF Finished(c, m, health') THEN "completed" ELSE order[c][m]
  BY <1>0 DEF ServerReport, RolloutTypes
<1> QED BY <1>1 DEF NotYet, Finished

LEMMA NextNotYet ==
  ASSUME TypeInv, RolloutInv, LastServed, NotYet, [Next]_vars
  PROVE  NotYet'
<1>0. RolloutTypes
  BY RolloutTyped
<1>1. CASE /\ UNCHANGED <<stage, pinned, health>>
           /\ \A c \in Agent, m \in Cycle : order'[c][m] = "moving" => order[c][m] = "moving"
  BY <1>1, NotYetKept DEF NotYet
<1>2. ASSUME NEW o \in Owner, NEW n \in Cycle, ServerCreateOrder(o, n)
      PROVE  NotYet'
  <2> SUFFICES ASSUME NEW c \in Agent, NEW m \in Cycle PROVE ~Finished(c, m, health)'
    BY DEF NotYet
  <2>1. UNCHANGED <<pinned, health>>
    BY <1>2 DEF ServerCreateOrder, releaseVars
  <2>2. CASE c = o /\ m = n
    <3>1. stage'[c][m] = 0
      BY <1>0, <1>2, <2>2 DEF ServerCreateOrder, RolloutTypes
    <3> QED BY <3>1, BoundsAssumption DEF Finished
  <2>3. CASE ~(c = o /\ m = n)
    <3>1. order'[c][m] = order[c][m] /\ stage'[c][m] = stage[c][m]
      BY <1>0, <1>2, <2>3 DEF ServerCreateOrder, RolloutTypes
    <3> QED BY <2>1, <3>1, NotYetKept DEF NotYet
  <2> QED BY <2>2, <2>3
<1>3. ASSUME NEW a \in Agent, NEW d \in todo[a], at[a] = "publish", ServerPublish(of[a], cur[a], d)
      PROVE  NotYet'
  <2>1. d \in Deployment
    BY <1>0, <1>3 DEF RolloutTypes
  <2> QED BY <1>3, <2>1, PublishedNotYet DEF ServerPublish, NotOf, orderVars
<1>4. ASSUME NEW d \in Deployment, ServerPublishPlain(d)
      PROVE  NotYet'
  BY <1>4, PublishedNotYet DEF ServerPublishPlain, NotOf, orderVars
<1>5. ASSUME NEW a \in Agent, Move(a) \/ CallFails(a) \/ AnswerLost(a)
      PROVE  NotYet'
  <2>1. of[a] \in Owner /\ (at[a] \in {"name", "promote"} => cur[a] \in Cycle)
    BY <1>0, RollsOne DEF RolloutTypes
  <2>2. CASE UNCHANGED <<order, stage, pinned, health>>
    BY <1>1, <2>2
  <2>3. CASE at[a] = "name" /\ ServerCreateOrder(of[a], cur[a])
    BY <1>2, <2>1, <2>3
  <2>4. ASSUME NEW d \in todo[a], at[a] = "publish", ServerPublish(of[a], cur[a], d)
        PROVE  NotYet'
    BY <1>3, <2>4
  <2>5. CASE at[a] = "promote" /\ ServerPromote(of[a], cur[a])
    BY <2>1, <2>5, PromotedNotYet
  <2>6. CASE CheckHeld(a) \/ ReadRule(a) \/ CreateChangeSet(a) \/ EnterBase(a)
             \/ BaseTaken(a) \/ DiscardChangeSet(a) \/ RunStep(a)
    BY <2>2, <2>6
    DEF CheckHeld, ReadRule, CreateChangeSet, EnterBase, BaseTaken, DiscardChangeSet, RunStep, Goes,
        ServerCreate, ServerSetState, ServerWrite, serverVars, orderVars, releaseVars
  <2>7. CASE CloseChangeSet(a) \/ CloseRefused(a) \/ AskReview(a) \/ ListOrders(a) \/ RolloutComplete(a)
             \/ RolloutMoves(a) \/ ResolveStage(a)
    BY <2>2, <2>7
    DEF CloseChangeSet, CloseRefused, AskReview, ListOrders, RolloutComplete, RolloutMoves, ResolveStage,
        Goes, ServerSetState, ServerAsk, serverVars, orderVars, releaseVars
  <2>8. CASE NameOrder(a) \/ PublishNext(a) \/ Promote(a)
    BY <2>2, <2>3, <2>4, <2>5, <2>8
    DEF NameOrder, PublishNext, Promote, Serving, serverVars, orderVars, releaseVars
  <2>9. CASE CallFails(a) \/ AnswerLost(a)
    BY <2>2, <2>3, <2>4, <2>5, <2>9
    DEF CallFails, AnswerLost, Serving, ServerCreate, ServerSetState, ServerWrite, ServerAsk,
        serverVars, orderVars, releaseVars
  <2> QED BY <1>5, <2>6, <2>7, <2>8, <2>9 DEF Move
<1>6. CASE People
  <2>1. CASE UNCHANGED <<order, stage, pinned, health>>
    BY <1>1, <2>1
  <2>2. ASSUME NEW p \in Person, NEW n \in Cycle, PlayNamesOrder(p, n) \/ PlayFinishes(p, n)
        PROVE  NotYet'
    BY <1>2, <2>2, PlayNotYet DEF PlayNamesOrder, Owner
  <2>3. ASSUME NEW o \in Owner, NEW n \in Cycle, AbortOrder(o, n)
        PROVE  NotYet'
    BY <1>0, <1>1, <2>3 DEF AbortOrder, releaseVars, RolloutTypes
  <2>4. ASSUME NEW d \in Deployment, NEW h \in Health, ServerReport(d, h)
        PROVE  NotYet'
    BY <2>4, ReportNotYet
  <2> QED
    BY <1>4, <1>6, <2>1, <2>2, <2>3, <2>4
    DEF People, Approve, PersonOpens, PersonCloses, RuleArrives, PlainRelease, Observe, Incident,
        Heal, Health, ServerSetState, orderVars, releaseVars
<1>7. CASE Start \/ Crash \/ UNCHANGED vars
  BY <1>1, <1>7 DEF Start, Crash, vars, serverVars, orderVars, releaseVars
<1> QED BY <1>5, <1>6, <1>7 DEF Next

LEMMA NextPipeInv ==
  ASSUME TypeInv, ChangeInv, RolloutInv, LastServed, PipeInv, [Next]_vars
  PROVE  PipeInv'
BY NextMovingRight, NextClear, NextNotYet DEF PipeInv

\* A seeded org has none of the agents' changes.
LEMMA InitPiped == Init => PipeInv /\ Pipeline!Init
<1> SUFFICES ASSUME Init PROVE PipeInv /\ Pipeline!Init
  OBVIOUS
<1>1. \A a \in Agent : a \in Owner /\ a \notin Person
  BY OwnersAssumption DEF Owner
<1>2. PICK stories \in SUBSET Person :
        order = [o \in Owner |-> [n \in Cycle |->
                  IF o \in stories /\ n = 1 THEN "moving" ELSE "none"]]
  BY DEF Init
<1>3. \A a \in Agent, n \in Cycle : order[a][n] = "none" /\ changeSet[a][n] = "none" /\ at[a] = "rest"
  BY <1>1, <1>2 DEF Init
<1>4. PipeInv
  BY <1>3 DEF PipeInv, MovingRight, AgentsClear, OnlyMoves, NotYet, Finished
<1>5. Change = [a \in Agent |-> [n \in Cycle |-> "absent"]]
  BY <1>3 DEF Change, Standings
<1>6. Reached = [a \in Agent |-> [n \in Cycle |-> 0]]
  BY <1>1 DEF Reached, Init
<1>7. Shipped = [a \in Agent |-> [n \in Cycle |-> {}]]
  <2>1. \A a \in Agent, n \in Cycle : {d \in Deployment : releases[a][n][d] > 0} = {}
    BY <1>1 DEF Init
  <2> QED BY <2>1 DEF Shipped
<1>8. Pipeline!Init
  BY <1>5, <1>6, <1>7 DEF Pipeline!Init, Change, Reached, Shipped, Pipeline!Cycle, Cycle
<1> QED BY <1>4, <1>8

\* The runner keeps what the pipeline promises (DESIGN.md, Agents): whatever
\* dies, fails, is aborted, held, released or reported in between, an agent has
\* one change at a time, one agent a base at a time, and one change of a
\* component rolls out at a time, stage by stage.
THEOREM RunnerImplementsPipeline ==
  ASSUME LastServed
  PROVE  Spec => ImplementsPipeline
<1>1. Init => TypeInv /\ ChangeInv /\ RolloutInv /\ PipeInv /\ Pipeline!Init
  BY InitTypeInv, InitRight, InitRolled, InitPiped
<1>2. TypeInv /\ ChangeInv /\ [Next]_vars => ChangeInv'
  BY NextRight
<1>3. TypeInv /\ ChangeInv /\ RolloutInv /\ PipeInv /\ [Next]_vars => PipeInv'
  BY NextPipeInv
<1>4. TypeInv /\ ChangeInv /\ RolloutInv /\ PipeInv /\ [Next]_vars => [Pipeline!Next]_(Pipeline!vars)
  BY NextPiped
<1> QED BY <1>1, <1>2, <1>3, <1>4, RolloutInvAlways, PTL DEF Spec, ImplementsPipeline, Pipeline!Spec
-----------------------------------------------------------------------------
\* What the runner remembers of an agent, while every call gets through: the
\* number of its last change, and the one it is at and how far that has come.
\* (Of a change that is not its own it does not know the number of.)
MemoryRight(a) ==
  /\ up => cycle[a] = 0 \/ changeSet[a][cycle[a]] # "none"
  /\ up /\ at[a] \notin {"enter", "discard"} =>
       \A n \in Cycle : n > cycle[a] => changeSet[a][n] = "none"
  /\ up /\ phase[a] # "idle" /\ of[a] = a => cur[a] = cycle[a]
  /\ phase[a] = "idle" => cur[a] = 0
  /\ up /\ phase[a] # "closing" => \A n \in Cycle : changeSet[a][n] # "Open"
  /\ up /\ phase[a] = "closing" /\ reviewRequested[a] => requests[a][cur[a]] > 0
  /\ up /\ phase[a] = "rolling" /\ of[a] = a => order[a][cur[a]] \in {"moving", "completed"}

MemoryInv == \A a \in Agent : MemoryRight(a)

MemoryTypes(a) ==
  /\ changeSet \in [Owner -> [Cycle -> ChangeSetState]] /\ order \in [Owner -> [Cycle -> OrderState]]
  /\ requests \in [Owner -> [Cycle -> Nat]]
  /\ at \in [Agent -> Call] /\ phase \in [Agent -> Phase] /\ of \in [Agent -> Owner]
  /\ cur \in [Agent -> 0 .. MaxCycle] /\ cycle \in [Agent -> 0 .. MaxCycle]
  /\ reviewRequested \in [Agent -> BOOLEAN]
  /\ a \in Owner /\ a \notin Person /\ MaxCycle \in Nat
  /\ at[a] # "rest" => up /\ phase[a] = PhaseOf(at[a])
  /\ at[a] \in {"create", "enter", "discard"} => cycle[a] + 1 \in Cycle
  /\ phase[a] # "idle" => cur[a] \in Cycle

LEMMA MemoryTyped ==
  ASSUME TypeInv, NEW a \in Agent
  PROVE  MemoryTypes(a)
<1>1. /\ at[a] # "rest" => up /\ phase[a] = PhaseOf(at[a])
      /\ phase[a] # "idle" => cur[a] \in Cycle
  BY DEF TypeInv, Serial, Carries
<1>2. at[a] \in {"create", "enter", "discard"} => cycle[a] + 1 \in Cycle
  BY OpensOne DEF NextCycle
<1> QED BY <1>1, <1>2, BoundsAssumption, OwnersAssumption DEF TypeInv, ServerTypeOK, LocalTypeOK, MemoryTypes, Owner

\* A change with none after it is the last.
LEMMA LastNamed ==
  ASSUME NEW a \in Agent, NEW n \in Named(a), \A m \in Cycle : m > n => changeSet[a][m] = "none"
  PROVE  Highest(Named(a)) = n
<1>1. Highest(Named(a)) \in Named(a) /\ n <= Highest(Named(a))
  BY CycleSets, HighestOf, BoundsAssumption
<1>2. ~(Highest(Named(a)) > n)
  BY <1>1 DEF Named
<1>3. Named(a) \subseteq Nat
  BY CycleSets, BoundsAssumption
<1> QED BY <1>1, <1>2, <1>3

\* Change orders carry ChangeSets: the last cycle is the last ChangeSet's.
LEMMA LastCycleNamed ==
  ASSUME NEW a \in Agent, StandsRight(a)
  PROVE  LastCycle(a) = Highest(Named(a))
<1>1. Named(a) \union Ordered(a) = Named(a)
  BY DEF Named, Ordered, StandsRight
<1> QED BY <1>1 DEF LastCycle

\* What adopt finds is right.
LEMMA StartMemory ==
  ASSUME TypeInv, NEW a \in Agent, StandsRight(a), Start
  PROVE  MemoryRight(a)'
<1>0. MemoryTypes(a)
  BY MemoryTyped
<1>1. /\ UNCHANGED <<changeSet, order, requests>> /\ at'[a] = "rest" /\ up'
      /\ Holds(phase'[a], of'[a], cur'[a]) \in Standing(a)
      /\ cycle'[a] = Highest(Named(a)) /\ reviewRequested'[a] = AlreadyAsked(a)
  BY <1>0, LastCycleNamed, StartStands DEF Start, MemoryTypes, serverVars, changeSetVars, orderVars
<1>2. /\ Highest(Named(a)) = 0 \/ changeSet[a][Highest(Named(a))] # "none"
      /\ \A n \in Cycle : n > Highest(Named(a)) => changeSet[a][n] = "none"
  <2>1. CASE Named(a) = {}
    BY <2>1, CycleSets, HighestOf, BoundsAssumption DEF Named
  <2>2. CASE Named(a) # {}
    <3>1. Highest(Named(a)) \in Named(a) /\ \A n \in Named(a) : n <= Highest(Named(a))
      BY <2>2, CycleSets, HighestOf, BoundsAssumption
    <3>2. Named(a) \subseteq 1 .. MaxCycle
      BY CycleSets
    <3>3. \A n \in Cycle : n > Highest(Named(a)) => n \notin Named(a)
      BY <3>1, <3>2 DEF Cycle
    <3> QED BY <3>1, <3>3 DEF Named
  <2> QED BY <2>1, <2>2
<1>3. CASE OpenOf(a) # {}
  <2>1. PICK n \in Cycle : n = Highest(OpenOf(a)) /\ n \in OpenOf(a)
    BY <1>3, CycleSets, HighestOf, BoundsAssumption DEF Cycle
  <2>2. Standing(a) = {Holds("closing", a, n)}
    BY <1>3, <2>1 DEF Standing
  <2>3. changeSet[a][n] = "Open" /\ \A m \in Cycle : m > n => changeSet[a][m] = "none"
    BY <2>1 DEF OpenOf, StandsRight
  <2>4. Highest(Named(a)) = n
    BY <2>3, LastNamed DEF Named
  <2>5. ASSUME NEW m \in OpenOf(a) PROVE m = n
    <3>1. m \in Cycle /\ changeSet[a][m] = "Open"
      BY <2>5 DEF OpenOf
    <3>2. \A k \in Cycle : k > m => changeSet[a][k] = "none"
      BY <3>1 DEF StandsRight
    <3>3. ~(m > n) /\ ~(n > m)
      BY <2>3, <3>1, <3>2
    <3> QED BY <2>1, <3>1, <3>3, BoundsAssumption DEF Cycle
  <2>6. AlreadyAsked(a) => requests[a][n] > 0
    BY <2>5 DEF AlreadyAsked
  <2>7. phase'[a] = "closing" /\ cur'[a] = n
    BY <1>1, <2>2 DEF Holds
  <2> QED BY <1>1, <1>2, <2>4, <2>6, <2>7 DEF MemoryRight
<1>4. CASE OpenOf(a) = {}
  <2>1. \A n \in Cycle : changeSet[a][n] # "Open"
    BY <1>4 DEF OpenOf
  <2>2. CASE Moving(a) # {} /\ Highest(Moving(a)) = LastCycle(a)
    <3>1. Holds(phase'[a], of'[a], cur'[a]) = Holds("rolling", a, Highest(Named(a)))
      BY <1>1, <1>4, <2>2, LastCycleNamed DEF Standing
    <3>2. Highest(Named(a)) \in Moving(a)
      BY <2>2, CycleSets, HighestOf, LastCycleNamed, BoundsAssumption
    <3>3. phase'[a] = "rolling" /\ cur'[a] = Highest(Named(a)) /\ order[a][Highest(Named(a))] = "moving"
      BY <3>1, <3>2 DEF Holds, Moving
    <3> QED BY <1>1, <1>2, <2>1, <3>3 DEF MemoryRight
  <2>3. CASE /\ ~(Moving(a) # {} /\ Highest(Moving(a)) = LastCycle(a))
             /\ Unnamed(a) # {} /\ a \in Rollout
    <3>1. PICK c \in Unnamed(a) : Holds(phase'[a], of'[a], cur'[a]) = Holds("queued", c[1], c[2])
      BY <1>1, <1>4, <2>3 DEF Standing
    <3>2. c[1] = a => c[2] = Highest(Named(a))
      BY LatestOf DEF Unnamed
    <3>3. phase'[a] = "queued" /\ (of'[a] = a => cur'[a] = Highest(Named(a)))
      BY <3>1, <3>2 DEF Holds
    <3> QED BY <1>1, <1>2, <2>1, <3>3 DEF MemoryRight
  <2>4. CASE Holds(phase'[a], of'[a], cur'[a]) = Idle(a)
    <3>1. phase'[a] = "idle" /\ cur'[a] = 0
      BY <2>4 DEF Idle, Holds
    <3> QED BY <1>1, <1>2, <2>1, <3>1 DEF MemoryRight
  <2> QED BY <1>1, <1>4, <2>2, <2>3, <2>4 DEF Standing
<1> QED BY <1>3, <1>4

\* A step that changes nothing an agent remembers, nor what it remembers it of.
LEMMA MemoryUntouched ==
  ASSUME NEW a \in Agent, MemoryRight(a), changeSet'[a] = changeSet[a], requests'[a] = requests[a],
         \A n \in Cycle : order[a][n] \in {"moving", "completed"} => order'[a][n] \in {"moving", "completed"},
         phase[a] # "idle" => cur[a] \in Cycle,
         up' = up, phase'[a] = phase[a], of'[a] = of[a], cur'[a] = cur[a], cycle'[a] = cycle[a],
         reviewRequested'[a] = reviewRequested[a],
         at'[a] \in {"enter", "discard"} <=> at[a] \in {"enter", "discard"}
  PROVE  MemoryRight(a)'
<1>1. phase[a] \in {"queued", "rolling"} => cur[a] \in Cycle
  OBVIOUS
<1> QED BY <1>1 DEF MemoryRight

\* open.
LEMMA OpenMemory ==
  ASSUME TypeInv, NEW a \in Agent, StandsRight(a), HoldsRight(a), MemoryRight(a),
         CreateChangeSet(a) \/ EnterBase(a) \/ DiscardChangeSet(a)
  PROVE  MemoryRight(a)'
<1>0. MemoryTypes(a)
  BY MemoryTyped
<1>1. CASE CreateChangeSet(a)
  <2>1. at[a] = "create" /\ UNCHANGED <<order, requests, up, phase, of, cur, cycle, reviewRequested>>
    BY <1>1 DEF CreateChangeSet, ServerCreate, Serving, serverVars, changeSetVars, orderVars
  <2>2. CASE UNCHANGED changeSet /\ at'[a] = "rest"
    BY <1>0, <2>1, <2>2, MemoryUntouched DEF MemoryTypes
  <2>3. CASE /\ at'[a] = "enter"
             /\ \A n \in Cycle : changeSet'[a][n] = IF n = cycle[a] + 1 THEN "created" ELSE changeSet[a][n]
    <3>1. up /\ phase[a] = "idle" /\ cycle[a] \in 0 .. MaxCycle
      BY <1>0, <2>1 DEF MemoryTypes, PhaseOf
    <3>2. cycle[a] # 0 => cycle[a] \in Cycle /\ cycle[a] # cycle[a] + 1
      BY <3>1, BoundsAssumption DEF Cycle
    <3>3. cycle[a] = 0 \/ changeSet'[a][cycle[a]] # "none"
      BY <2>3, <3>1, <3>2 DEF MemoryRight
    <3>4. \A n \in Cycle : changeSet'[a][n] # "Open"
      BY <2>3, <3>1 DEF MemoryRight
    <3>5. cur[a] = 0
      BY <3>1 DEF MemoryRight
    <3> QED BY <2>1, <2>3, <3>1, <3>3, <3>4, <3>5 DEF MemoryRight
  <2>4. \/ UNCHANGED changeSet /\ at'[a] = "rest"
        \/ /\ at'[a] = "enter"
           /\ \A n \in Cycle : changeSet'[a][n] = IF n = cycle[a] + 1 THEN "created" ELSE changeSet[a][n]
    BY <1>0, <1>1, <2>1
    DEF CreateChangeSet, ServerCreate, NextCycle, Then, serverVars, changeSetVars, MemoryTypes
  <2> QED BY <2>2, <2>3, <2>4
<1>2. CASE EnterBase(a)
  <2>1. /\ at[a] = "enter" /\ at'[a] = "steps" /\ phase'[a] = "closing" /\ reviewRequested'[a] = FALSE
        /\ cycle'[a] = cycle[a] + 1 /\ cur'[a] = cycle[a] + 1 /\ UNCHANGED <<up, of>>
        /\ \A n \in Cycle : changeSet'[a][n] = IF n = cycle[a] + 1 THEN "Open" ELSE changeSet[a][n]
    BY <1>0, <1>2 DEF EnterBase, ServerSetState, NextCycle, Serving, Then, MemoryTypes
  <2>2. up /\ cycle[a] + 1 \in Cycle
    BY <1>0, <2>1 DEF MemoryTypes
  <2>3. \A n \in Cycle : n > cycle[a] + 1 => changeSet'[a][n] = "none"
    BY <2>1, <2>2, BoundsAssumption DEF StandsRight, Cycle
  <2> QED BY <2>1, <2>2, <2>3 DEF MemoryRight
<1>3. CASE DiscardChangeSet(a)
  <2>1. /\ at[a] = "discard" /\ at'[a] = "rest" /\ UNCHANGED <<order, requests, up, phase, of, cur, cycle, reviewRequested>>
        /\ \A n \in Cycle : changeSet'[a][n] = IF n = cycle[a] + 1 THEN "none" ELSE changeSet[a][n]
    BY <1>0, <1>3 DEF DiscardChangeSet, ServerSetState, NextCycle, Serving, Then, MemoryTypes, orderVars
  <2>2. up /\ phase[a] = "idle" /\ cycle[a] \in 0 .. MaxCycle
    BY <1>0, <2>1 DEF MemoryTypes, PhaseOf
  <2>3. cycle[a] # 0 => cycle[a] \in Cycle /\ cycle[a] # cycle[a] + 1
    BY <2>2, BoundsAssumption DEF Cycle
  <2>4. cycle[a] = 0 \/ changeSet'[a][cycle[a]] # "none"
    BY <2>1, <2>2, <2>3 DEF MemoryRight
  <2>5. ASSUME NEW n \in Cycle, n > cycle[a] PROVE changeSet'[a][n] = "none"
    <3>1. n = cycle[a] + 1 \/ n > cycle[a] + 1
      BY <2>2, <2>5, BoundsAssumption DEF Cycle
    <3>2. n > cycle[a] + 1 => changeSet[a][n] = "none"
      BY <2>2 DEF StandsRight
    <3> QED BY <2>1, <3>1, <3>2
  <2>6. \A n \in Cycle : changeSet'[a][n] # "Open"
    BY <2>1, <2>2 DEF MemoryRight
  <2>7. cur[a] = 0
    BY <2>2 DEF MemoryRight
  <2> QED BY <2>1, <2>2, <2>4, <2>5, <2>6, <2>7 DEF MemoryRight
<1> QED BY <1>1, <1>2, <1>3

\* close, startRollout and the end of a rollout.
LEMMA CloseMemory ==
  ASSUME TypeInv, NEW a \in Agent, StandsRight(a), HoldsRight(a), MemoryRight(a),
         CloseChangeSet(a) \/ AskReview(a) \/ NameOrder(a) \/ RolloutComplete(a)
  PROVE  MemoryRight(a)'
<1>0. MemoryTypes(a)
  BY MemoryTyped
<1>1. CASE CloseChangeSet(a)
  <2>1. up /\ phase[a] = "closing"
    BY <1>0, <1>1 DEF CloseChangeSet, Serving, Begins, PhaseOf, MemoryTypes
  <2>2. cur[a] \in Cycle /\ changeSet[a][cur[a]] = "Open" /\ cur[a] = cycle[a] /\ of[a] = a
    BY <2>1 DEF StandsRight, HoldsRight, MemoryRight
  <2>3. /\ \A n \in Cycle : changeSet'[a][n] = IF n = cur[a] THEN "Closed" ELSE changeSet[a][n]
        /\ UNCHANGED <<order, up, of, cycle>> /\ at'[a] \in {"orders", "rest"}
        /\ \/ phase'[a] = "queued" /\ cur'[a] = cur[a]
           \/ phase'[a] = "idle" /\ cur'[a] = 0
    BY <1>0, <1>1, <2>2 DEF CloseChangeSet, ServerSetState, Then, MemoryTypes, orderVars
  <2>4. \A n \in Cycle : n > cur[a] => changeSet[a][n] = "none"
    BY <2>2 DEF StandsRight
  <2>5. ASSUME NEW n \in Cycle, changeSet[a][n] = "Open" PROVE n = cur[a]
    <3>1. \A m \in Cycle : m > n => changeSet[a][m] = "none"
      BY <2>5 DEF StandsRight
    <3>2. ~(n > cur[a]) /\ ~(cur[a] > n)
      BY <2>2, <2>4, <2>5, <3>1
    <3> QED BY <2>2, <3>2, BoundsAssumption DEF Cycle
  <2>7. \A n \in Cycle : changeSet'[a][n] # "Open"
    BY <2>3, <2>5
  <2>8. changeSet'[a][cycle[a]] # "none" /\ \A n \in Cycle : n > cycle[a] => changeSet'[a][n] = "none"
    BY <2>2, <2>3, <2>4, BoundsAssumption DEF Cycle
  <2> QED BY <2>1, <2>2, <2>3, <2>7, <2>8 DEF MemoryRight
<1>2. CASE AskReview(a)
  <2>1. at[a] = "ask" /\ at'[a] = "rest" /\ UNCHANGED <<changeSet, order, up, phase, of, cur, cycle>>
    BY <1>0, <1>2 DEF AskReview, ServerAsk, Serving, Then, MemoryTypes, orderVars
  <2>2. phase[a] = "closing" /\ up /\ cur[a] \in Cycle
    BY <1>0, <2>1 DEF PhaseOf, MemoryTypes
  <2>3. requests'[a][cur[a]] = requests[a][cur[a]] + 1 /\ requests[a][cur[a]] \in Nat
    BY <1>0, <1>2, <2>2 DEF AskReview, ServerAsk, MemoryTypes
  <2>4. requests'[a][cur[a]] > 0
    BY <2>3
  <2> QED BY <2>1, <2>2, <2>4 DEF MemoryRight
<1>3. CASE NameOrder(a)
  <2>1. /\ at[a] = "name" /\ at'[a] \in {"read", "rest"}
        /\ UNCHANGED <<up, of, cur, cycle, reviewRequested>>
    BY <1>0, <1>3 DEF NameOrder, Serving, Then, MemoryTypes
  <2>2. phase[a] = "queued" /\ up /\ cur[a] \in Cycle
    BY <1>0, <2>1 DEF PhaseOf, MemoryTypes
  <2>3. CASE UNCHANGED <<serverVars, phase>>
    <3>1. UNCHANGED <<changeSet, order, requests>>
      BY <2>3 DEF serverVars, changeSetVars, orderVars
    <3> QED BY <2>1, <2>2, <2>3, <3>1, MemoryUntouched
  <2>4. CASE ServerCreateOrder(of[a], cur[a]) /\ phase' = [phase EXCEPT ![a] = "rolling"]
    <3>1. UNCHANGED <<changeSet, requests>> /\ phase'[a] = "rolling"
      BY <1>0, <2>4 DEF ServerCreateOrder, changeSetVars, MemoryTypes
    <3>2. of[a] = a => order'[a][cur[a]] = "moving"
      BY <1>0, <2>2, <2>4 DEF ServerCreateOrder, MemoryTypes
    <3> QED BY <2>1, <2>2, <3>1, <3>2 DEF MemoryRight
  <2> QED BY <1>3, <2>3, <2>4 DEF NameOrder
<1>4. CASE RolloutComplete(a)
  <2>1. /\ UNCHANGED <<changeSet, up, cycle>> /\ phase'[a] = "idle" /\ cur'[a] = 0 /\ at'[a] = "rest"
        /\ at[a] \in {"read", "rest"}
    BY <1>0, <1>4 DEF RolloutComplete, Serving, Begins, Resting, Then, MemoryTypes, serverVars, changeSetVars
  <2>2. phase[a] = "rolling" /\ up
    BY <1>0, <1>4 DEF RolloutComplete, Serving, Begins, PhaseOf, MemoryTypes
  <2> QED BY <2>1, <2>2 DEF MemoryRight
<1> QED BY <1>1, <1>2, <1>3, <1>4

\* A move of the agent's own.
LEMMA MoveMemory ==
  ASSUME TypeInv, NEW a \in Agent, StandsRight(a), HoldsRight(a), MemoryRight(a), Move(a)
  PROVE  MemoryRight(a)'
<1>0. MemoryTypes(a)
  BY MemoryTyped
<1>1. CASE CheckHeld(a) \/ ReadRule(a) \/ BaseTaken(a) \/ RunStep(a) \/ CloseRefused(a) \/ ListOrders(a)
  <2>1. UNCHANGED <<changeSet, order, requests, up, phase, of, cur, cycle, reviewRequested>>
    BY <1>1
    DEF CheckHeld, ReadRule, BaseTaken, RunStep, CloseRefused, ListOrders, Goes, ServerWrite,
        serverVars, changeSetVars, orderVars
  <2>2. at'[a] \in {"enter", "discard"} <=> at[a] \in {"enter", "discard"}
    BY <1>0, <1>1
    DEF CheckHeld, ReadRule, BaseTaken, RunStep, CloseRefused, ListOrders, Goes, Then, Serving, Begins,
        Resting, MemoryTypes
  <2> QED BY <1>0, <2>1, <2>2, MemoryUntouched DEF MemoryTypes
<1>2. CASE RolloutMoves(a) \/ ResolveStage(a) \/ PublishNext(a) \/ Promote(a)
  <2>1. UNCHANGED <<changeSet, order, requests, up, phase, of, cur, cycle, reviewRequested>>
    BY <1>2
    DEF RolloutMoves, ResolveStage, PublishNext, Promote, Goes, ServerPublish, ServerPromote,
        serverVars, changeSetVars, orderVars
  <2>2. at'[a] \notin {"enter", "discard"} /\ at[a] \notin {"enter", "discard"}
    BY <1>0, <1>2
    DEF RolloutMoves, ResolveStage, PublishNext, Promote, Goes, Then, Serving, Begins, Resting, MemoryTypes
  <2> QED BY <1>0, <2>1, <2>2, MemoryUntouched DEF MemoryTypes
<1> QED BY <1>1, <1>2, OpenMemory, CloseMemory DEF Move

\* Every step, where every call gets through and no order is aborted.
LEMMA NextMemory ==
  ASSUME Env \cap {"fault", "lost", "abort"} = {}, TypeInv, ChangeInv, MemoryInv, [Next]_vars
  PROVE  MemoryInv'
<1> SUFFICES ASSUME NEW a \in Agent PROVE MemoryRight(a)'
  BY DEF MemoryInv
<1>0. StandsRight(a) /\ HoldsRight(a) /\ MemoryRight(a) /\ MemoryTypes(a)
  BY MemoryTyped DEF ChangeInv, MemoryInv
<1>1. CASE Start
  BY <1>0, <1>1, StartMemory
<1>2. ASSUME NEW c \in Agent, Move(c)
      PROVE  MemoryRight(a)'
  <2>1. CASE c = a
    BY <1>0, <1>2, <2>1, MoveMemory
  <2>2. CASE c # a
    <3>1. /\ changeSet'[a] = changeSet[a] /\ up' = up /\ phase'[a] = phase[a] /\ of'[a] = of[a]
          /\ cur'[a] = cur[a] /\ cycle'[a] = cycle[a] /\ at'[a] = at[a]
          /\ \A n \in Cycle : order'[a][n] = order[a][n] \/ order'[a][n] = "moving"
      BY <1>2, <2>2, MoveOthers DEF ChangeInv
    <3>2. requests'[a] = requests[a] /\ reviewRequested'[a] = reviewRequested[a]
      BY <1>2, <2>2, AskedOthers
    <3> QED BY <1>0, <3>1, <3>2, MemoryUntouched DEF MemoryTypes
  <2> QED BY <2>1, <2>2
<1>3. CASE Crash
  <2>1. up' = FALSE /\ phase'[a] = "idle" /\ cur'[a] = 0
    BY <1>3 DEF Crash
  <2> QED BY <2>1 DEF MemoryRight
<1>4. CASE People
  <2>1. /\ changeSet'[a] = changeSet[a]
        /\ UNCHANGED <<requests, up, at, phase, of, cur, cycle, reviewRequested>>
    BY <1>4, PeopleAsk
  <2>2. \A n \in Cycle : order'[a][n] = order[a][n] \/ (order[a][n] = "moving" /\ order'[a][n] = "completed")
    <3>1. ASSUME NEW p \in Person, NEW n \in Cycle,
                 PersonOpens(p, n) \/ PersonCloses(p, n) \/ PlayNamesOrder(p, n) \/ PlayFinishes(p, n)
          PROVE  order'[a] = order[a]
      BY <1>0, <3>1
      DEF PersonOpens, PersonCloses, PlayNamesOrder, PlayFinishes, ServerSetState, ServerCreateOrder,
          orderVars, MemoryTypes
    <3>2. ASSUME NEW d \in Deployment, NEW h \in Health, ServerReport(d, h)
          PROVE  \A n \in Cycle :
                   order'[a][n] = order[a][n] \/ (order[a][n] = "moving" /\ order'[a][n] = "completed")
      BY <1>0, <3>2 DEF ServerReport, Finished, MemoryTypes
    <3> QED
      BY <1>4, <3>1, <3>2
      DEF People, Approve, AbortOrder, RuleArrives, PlainRelease, ServerPublishPlain, Observe, Incident,
          Heal, Health, Happens, orderVars
  <2> QED BY <1>0, <2>1, <2>2, MemoryUntouched DEF MemoryTypes
<1>5. CASE UNCHANGED vars
  <2>1. UNCHANGED <<changeSet, order, requests, up, at, phase, of, cur, cycle, reviewRequested>>
    BY <1>5 DEF vars, serverVars, changeSetVars, orderVars, runnerVars, localVars
  <2> QED BY <1>0, <2>1, MemoryUntouched DEF MemoryTypes
<1> QED BY <1>1, <1>2, <1>3, <1>4, <1>5 DEF Next, CallFails, AnswerLost, Happens

\* An agent's last change is the one whose number it remembers.
LEMMA CycleIsLast ==
  ASSUME TypeInv, NEW a \in Agent, MemoryRight(a), up, at[a] = "rest"
  PROVE  /\ Highest(Named(a)) = cycle[a] /\ cycle[a] \in 0 .. MaxCycle
         /\ Named(a) = {} <=> cycle[a] = 0
<1>0. cycle[a] \in 0 .. MaxCycle /\ MaxCycle \in Nat
  BY MemoryTyped DEF MemoryTypes
<1>1. \A n \in Cycle : n > cycle[a] => changeSet[a][n] = "none"
  BY DEF MemoryRight
<1>2. CASE cycle[a] = 0
  <2>1. Named(a) = {}
    BY <1>1, <1>2, BoundsAssumption DEF Named, Cycle
  <2> QED BY <1>0, <1>2, <2>1, CycleSets, HighestOf, BoundsAssumption
<1>3. CASE cycle[a] # 0
  <2>1. cycle[a] \in Named(a)
    BY <1>0, <1>3 DEF MemoryRight, Named, Cycle
  <2> QED BY <1>0, <1>1, <1>3, <2>1, LastNamed
<1> QED BY <1>2, <1>3

\* An agent with no ChangeSet of its own is idle, or at a closed change that
\* adopt gave it.
LEMMA NoneOfItsOwn ==
  ASSUME TypeInv, NEW a \in Agent, StandsRight(a), HoldsRight(a), MemoryRight(a), up, at[a] = "rest",
         Named(a) = {}, phase[a] # "closing"
  PROVE  /\ cycle[a] = 0
         /\ \/ Holds(phase[a], of[a], cur[a]) = Idle(a)
            \/ /\ phase[a] \in {"queued", "rolling"} /\ a \in Rollout /\ of[a] # a
               /\ BaseOf[of[a]] = BaseOf[a] /\ changeSet[of[a]][cur[a]] = "Closed"
<1>0. phase[a] \in Phase /\ BaseOf[of[a]] = BaseOf[a] /\ (phase[a] # "idle" => cur[a] \in Cycle)
  BY DEF TypeInv, LocalTypeOK, Carries
<1>1. \A n \in Cycle : changeSet[a][n] = "none" /\ order[a][n] = "none"
  BY DEF Named, StandsRight
<1>2. CASE of[a] = a
  <2>1. phase[a] # "queued" /\ phase[a] # "rolling"
    BY <1>0, <1>1, <1>2 DEF StandsRight, MemoryRight
  <2>2. phase[a] = "idle" /\ cur[a] = 0
    BY <1>0, <2>1 DEF Phase, MemoryRight
  <2> QED BY <1>2, <2>2, CycleIsLast DEF Idle
<1>3. CASE of[a] # a
  BY <1>0, <1>3, CycleIsLast DEF HoldsRight, Phase
<1> QED BY <1>2, <1>3

\* What the runner remembers of an agent with a ChangeSet of its own is what
\* adopt would find.
LEMMA MemoryStands ==
  ASSUME TypeInv, NEW a \in Agent, StandsRight(a), HoldsRight(a), MovingRight(a), AskedRight(a),
         MemoryRight(a), up, at[a] = "rest", ~(Named(a) = {} /\ phase[a] # "closing")
  PROVE  /\ cycle[a] = LastCycle(a)
         /\ \/ Standing(a) = {Holds(phase[a], of[a], cur[a])}
            \/ phase[a] = "rolling" /\ order[a][cur[a]] = "completed" /\ Standing(a) = {Idle(a)}
            \/ /\ order[a][cycle[a]] # "none"
               /\ phase[a] = IF a \in Rollout THEN "queued" ELSE "idle"
         /\ phase[a] = "closing" => (reviewRequested[a] <=> requests[a][cur[a]] > 0)
<1>0. MemoryTypes(a)
  BY MemoryTyped
<1>1. Highest(Named(a)) = cycle[a] /\ cycle[a] = LastCycle(a)
  BY CycleIsLast, LastCycleNamed
<1>2. Named(a) # {} /\ cycle[a] \in Cycle
  <2>1. phase[a] = "closing" => cur[a] \in Named(a)
    BY DEF StandsRight, Named
  <2>2. Named(a) # {}
    BY <2>1
  <2> QED BY <2>2, CycleIsLast, BoundsAssumption DEF Cycle
<1>3. of[a] = a /\ (phase[a] # "idle" => cur[a] = cycle[a])
  BY <1>2 DEF HoldsRight, Named, MemoryRight
<1>4. CASE phase[a] = "closing"
  <2>1. cur[a] \in Cycle /\ changeSet[a][cur[a]] = "Open"
    BY <1>4 DEF StandsRight
  <2>2. OpenOf(a) \subseteq Named(a) /\ cur[a] \in OpenOf(a)
    BY <2>1 DEF OpenOf, Named
  <2>3. Highest(OpenOf(a)) \in OpenOf(a) /\ \A n \in OpenOf(a) : n <= Highest(OpenOf(a))
    BY <2>2, CycleSets, HighestOf, BoundsAssumption
  <2>4. \A n \in Named(a) : n <= cur[a]
    BY <1>1, <1>3, <1>4, <2>2, CycleSets, HighestOf, BoundsAssumption
  <2>5. Highest(OpenOf(a)) = cur[a]
    <3>1. OpenOf(a) \subseteq 1 .. MaxCycle
      BY CycleSets
    <3>2. Highest(OpenOf(a)) <= cur[a] /\ cur[a] <= Highest(OpenOf(a))
      BY <2>2, <2>3, <2>4
    <3> QED BY <2>2, <2>3, <3>1, <3>2, BoundsAssumption
  <2>6. Standing(a) = {Holds("closing", a, cur[a])}
    BY <2>2, <2>5 DEF Standing
  <2>7. reviewRequested[a] <=> requests[a][cur[a]] > 0
    BY <1>0, <1>4, <2>1 DEF AskedRight, MemoryRight, MemoryTypes
  <2> QED BY <1>1, <1>3, <1>4, <2>6, <2>7
<1>5. CASE phase[a] = "queued"
  <2>1. changeSet[a][cur[a]] = "Closed" /\ a \in Rollout
    BY <1>3, <1>5 DEF StandsRight
  <2>2. order[a][cycle[a]] = "none" => Standing(a) = {Holds("queued", a, cur[a])}
    BY <1>2, <1>3, <1>5, <2>1, UndoneIsFound DEF Undone
  <2> QED BY <1>1, <1>3, <1>5, <2>1, <2>2
<1>6. phase[a] \notin {"closing", "queued"} => OpenOf(a) = {}
  BY DEF MemoryRight, OpenOf
\* A change that is named and does not move is nothing to go on with.
<1>7. ASSUME phase[a] \notin {"closing", "queued"}, order[a][cycle[a]] # "moving",
             order[a][cycle[a]] = "none" => a \notin Rollout
      PROVE  Standing(a) = {Idle(a)}
  <2>1. ~(Moving(a) # {} /\ Highest(Moving(a)) = LastCycle(a))
    <3>1. Moving(a) # {} => Highest(Moving(a)) \in Moving(a)
      BY CycleSets, HighestOf, BoundsAssumption
    <3> QED BY <1>1, <1>7, <3>1 DEF Moving
  <2>2. a \in Rollout => Unnamed(a) = {}
    <3>1. ASSUME a \in Rollout, NEW c \in LatestClosed(a) PROVE c[1] = a /\ c[2] \in Ordered(a)
      BY <1>1, <1>2, <1>7, <3>1, LatestOf DEF Ordered
    <3> QED BY <3>1 DEF Unnamed
  <2> QED BY <1>6, <1>7, <2>1, <2>2 DEF Standing
<1>8. CASE phase[a] = "rolling"
  <2>1. CASE order[a][cycle[a]] = "moving"
    <3>1. \A m \in Cycle : m > cycle[a] => changeSet[a][m] = "none"
      BY DEF MemoryRight
    <3>2. Standing(a) = {Holds("rolling", a, cycle[a])}
      BY <1>2, <2>1, <3>1, MovingFound
    <3> QED BY <1>1, <1>3, <1>8, <3>2
  <2>2. CASE order[a][cycle[a]] = "completed"
    BY <1>1, <1>3, <1>7, <1>8, <2>2
  <2> QED BY <1>3, <1>8, <2>1, <2>2 DEF MemoryRight
<1>9. CASE phase[a] = "idle"
  <2>1. Holds(phase[a], of[a], cur[a]) = Idle(a)
    BY <1>3, <1>9 DEF MemoryRight, Idle
  <2>2. CASE a \in Rollout
    <3>1. order[a][cycle[a]] # "moving"
      BY <1>2, <1>9, <2>2 DEF MovingRight
    <3>2. CASE order[a][cycle[a]] # "none"
      BY <1>1, <1>7, <1>9, <2>1, <3>1, <3>2
    <3>3. CASE order[a][cycle[a]] = "none"
      <4>1. changeSet[a][cycle[a]] # "Closed"
        BY <1>2, <1>9, <2>2, <3>3 DEF StandsRight, Undone
      <4>2. Unnamed(a) = {}
        <5>1. LatestClosed(a) = {}
          BY <1>1, <1>2, <4>1, LatestOf
        <5> QED BY <5>1 DEF Unnamed
      <4>3. Moving(a) = {}
        BY <1>9, <2>2 DEF Moving, MovingRight
      <4>4. Standing(a) = {Idle(a)}
        BY <1>6, <1>9, <4>2, <4>3 DEF Standing
      <4> QED BY <1>1, <1>9, <2>1, <4>4
    <3> QED BY <3>2, <3>3
  <2>3. CASE a \notin Rollout
    <3>1. order[a][cycle[a]] = "none" => Standing(a) = {Idle(a)}
      BY <1>7, <1>9, <2>3
    <3> QED BY <1>1, <1>9, <2>1, <2>3, <3>1
  <2> QED BY <2>2, <2>3
<1>10. phase[a] \in Phase
  BY <1>0 DEF MemoryTypes
<1> QED BY <1>4, <1>5, <1>8, <1>9, <1>10 DEF Phase

\* "What an agent does next is re-read from the org rather than remembered": as
\* long as every call gets through and nobody aborts an order, an agent with a
\* ChangeSet of its own stands between moves where adopt would put it, whatever
\* crashes and whatever people do. (One whose order has just completed learns it
\* by its next move, and one whose order another agent named for it by none: an
\* agent with no ChangeSet of its own adopts any closed one of its base.)
THEOREM MemoryIsOrgs ==
  ASSUME Env \cap {"fault", "lost", "abort"} = {}
  PROVE  Spec => []StandingIsOrgs
<1> DEFINE Moves == \A a \in Agent : MovingRight(a)
<1>1. Init => Moves /\ MemoryInv /\ AskedInv
  BY InitPiped, InitAsked DEF PipeInv, MemoryInv, MemoryRight, Init
<1>2. TypeInv /\ ChangeInv /\ AskedInv /\ Moves /\ MemoryInv /\ [Next]_vars
        => ChangeInv' /\ AskedInv' /\ Moves' /\ MemoryInv'
  BY NextRight, NextAsked, NextMovingRight, NextMemory
<1>3. TypeInv /\ ChangeInv /\ AskedInv /\ Moves /\ MemoryInv => StandingIsOrgs
  <2> SUFFICES ASSUME TypeInv, ChangeInv, AskedInv, Moves, MemoryInv, up, Resting, NEW a \in Agent
               PROVE  IF Named(a) = {} /\ phase[a] # "closing"
                        THEN /\ cycle[a] = 0
                             /\ \/ Holds(phase[a], of[a], cur[a]) = Idle(a)
                                \/ /\ phase[a] \in {"queued", "rolling"} /\ a \in Rollout /\ of[a] # a
                                   /\ BaseOf[of[a]] = BaseOf[a] /\ changeSet[of[a]][cur[a]] = "Closed"
                        ELSE /\ cycle[a] = LastCycle(a)
                             /\ \/ Standing(a) = {Holds(phase[a], of[a], cur[a])}
                                \/ /\ phase[a] = "rolling" /\ order[a][cur[a]] = "completed"
                                   /\ Standing(a) = {Idle(a)}
                                \/ /\ order[a][cycle[a]] # "none"
                                   /\ phase[a] = IF a \in Rollout THEN "queued" ELSE "idle"
                             /\ phase[a] = "closing" => (reviewRequested[a] <=> requests[a][cur[a]] > 0)
    BY DEF StandingIsOrgs
  <2>1. /\ StandsRight(a) /\ HoldsRight(a) /\ MovingRight(a) /\ AskedRight(a) /\ MemoryRight(a)
        /\ at[a] = "rest"
    BY DEF ChangeInv, AskedInv, MemoryInv, Resting
  <2>2. CASE Named(a) = {} /\ phase[a] # "closing"
    BY <2>1, <2>2, NoneOfItsOwn
  <2>3. CASE ~(Named(a) = {} /\ phase[a] # "closing")
    BY <2>1, <2>3, MemoryStands
  <2> QED BY <2>2, <2>3
<1> QED BY <1>1, <1>2, <1>3, InitRight, TypeInvAlways, PTL DEF Spec
=============================================================================

---------------------------- MODULE MCAgentsProofs ----------------------------
(* What agents_safe checks of its two instances, for any constants: a        *)
(* behaviour of it is a behaviour of AgentDemo, in the calm or as it is.     *)
EXTENDS MCAgents, PipelineProofs

\* The theorems, in the calm: what MCAgents runs as Calm.
P == INSTANCE PipelineProofs WITH Env <- {"crash", "hold", "rule", "incident"}, MaxEvents <- 1

-----------------------------------------------------------------------------
(* The calm instance *)

\* The calm meets the assumptions of the theorems.
LEMMA CalmIsAssumed ==
  /\ P!OwnersAssumption /\ P!BoundsAssumption /\ P!DeploymentsAssumption /\ P!RunnerAssumption
<1>1. P!RunnerAssumption
  BY RunnerAssumption DEF RunnerAssumption, P!RunnerAssumption, P!EnvKinds
<1>2. P!OwnersAssumption /\ P!BoundsAssumption /\ P!DeploymentsAssumption
  BY OwnersAssumption, BoundsAssumption, DeploymentsAssumption
  DEF OwnersAssumption, BoundsAssumption, DeploymentsAssumption,
     P!OwnersAssumption, P!BoundsAssumption, P!DeploymentsAssumption, P!Owner, Owner
<1> QED BY <1>1, <1>2

\* The instance that is run and the one the theorems are about are one.
LEMMA CalmIsInstance ==
  (Calm!Init <=> P!Init) /\ (Calm!Next <=> P!Next) /\ (UNCHANGED vars <=> UNCHANGED P!vars)
<1>1. Calm!Init <=> P!Init
  BY DEF P!Init, Calm!Init, P!Cycle, Calm!Cycle, P!Owner, Calm!Owner
<1>2. UNCHANGED vars <=> UNCHANGED P!vars
  BY DEF vars, serverVars, changeSetVars, orderVars, releaseVars, runnerVars, localVars,
     P!vars, P!serverVars, P!changeSetVars, P!orderVars, P!releaseVars, P!runnerVars, P!localVars
<1>3. Calm!Next <=> P!Next
  BY Zenon DEF P!Owner, Calm!Owner, P!Cycle, Calm!Cycle, P!changeSetVars, Calm!changeSetVars, P!orderVars,
     Calm!orderVars, P!releaseVars, Calm!releaseVars, P!serverVars, Calm!serverVars, P!Holding,
     Calm!Holding, P!InStage, Calm!InStage, P!CanCreate, Calm!CanCreate, P!ServerCreate,
     Calm!ServerCreate, P!CanOpen, Calm!CanOpen, P!ServerSetState, Calm!ServerSetState,
     P!ServerWrite, Calm!ServerWrite, P!ServerAsk, Calm!ServerAsk, P!GatesHold, Calm!GatesHold,
     P!ServerCreateOrder, Calm!ServerCreateOrder, P!CanPromote, Calm!CanPromote,
     P!ServerPromote, Calm!ServerPromote, P!NotOf, Calm!NotOf, P!ServerPublish,
     Calm!ServerPublish, P!ServerPublishPlain, Calm!ServerPublishPlain, P!Finished,
     Calm!Finished, P!ServerReport, Calm!ServerReport, P!localVars, Calm!localVars,
     P!runnerVars, Calm!runnerVars, P!vars, Calm!vars, P!Resting, Calm!Resting, P!Serving,
     Calm!Serving, P!Begins, Calm!Begins, P!Then, Calm!Then, P!Goes, Calm!Goes, P!Highest,
     Calm!Highest, P!Named, Calm!Named, P!OpenOf, Calm!OpenOf, P!Ordered, Calm!Ordered,
     P!Moving, Calm!Moving, P!LastCycle, Calm!LastCycle, P!LatestClosed, Calm!LatestClosed,
     P!CycleOf, Calm!CycleOf, P!Unnamed, Calm!Unnamed, P!Holds, Calm!Holds,
     P!Idle, Calm!Idle, P!Standing, Calm!Standing, P!AlreadyAsked, Calm!AlreadyAsked, P!Start,
     Calm!Start, P!CheckHeld, Calm!CheckHeld, P!ReadRule, Calm!ReadRule, P!NextCycle,
     Calm!NextCycle, P!CreateChangeSet, Calm!CreateChangeSet, P!EnterBase, Calm!EnterBase,
     P!BaseTaken, Calm!BaseTaken, P!DiscardChangeSet, Calm!DiscardChangeSet, P!RunStep,
     Calm!RunStep, P!CloseChangeSet, Calm!CloseChangeSet, P!CloseRefused, Calm!CloseRefused,
     P!AskReview, Calm!AskReview, P!OtherMoving, Calm!OtherMoving, P!ListOrders,
     Calm!ListOrders, P!NameOrder, Calm!NameOrder, P!RolloutComplete, Calm!RolloutComplete,
     P!RolloutMoves, Calm!RolloutMoves, P!Unreleased, Calm!Unreleased, P!ResolveStage,
     Calm!ResolveStage, P!PublishNext, Calm!PublishNext, P!Promote, Calm!Promote, P!Move,
     Calm!Move, P!Happens, Calm!Happens, P!CallFails, Calm!CallFails, P!AnswerLost,
     Calm!AnswerLost, P!Crash, Calm!Crash, P!Approve, Calm!Approve, P!PersonOpens,
     Calm!PersonOpens, P!PersonCloses, Calm!PersonCloses, P!RuleArrives, Calm!RuleArrives,
     P!PlayNamesOrder, Calm!PlayNamesOrder, P!PlayFinishes, Calm!PlayFinishes, P!AbortOrder,
     Calm!AbortOrder, P!PlainRelease, Calm!PlainRelease, P!Observe, Calm!Observe, P!Incident,
     Calm!Incident, P!Heal, Calm!Heal, P!People, Calm!People, P!Next, Calm!Next
<1> QED BY <1>1, <1>2, <1>3

\* Which of the two a behaviour is of is settled at its start.
LEMMA CalmOrDisturbed ==
  Safe => (P!Spec /\ [](which = "calm")) \/ (Spec /\ [](which # "calm"))
<1>1. Safe => SafeInit /\ [][SafeNext]_<<vars, which>>
  BY PTL DEF Safe
<1>2. SafeInit => Init /\ P!Init
  <2>1. Init => Calm!Init
    BY DEF Init, Calm!Init, Cycle, Calm!Cycle, Owner, Calm!Owner
  <2> QED BY <2>1, CalmIsInstance DEF SafeInit
<1>3. which = "calm" /\ [SafeNext]_<<vars, which>> => [P!Next]_(P!vars) /\ (which = "calm")'
  BY CalmIsInstance DEF SafeNext
<1>4. which # "calm" /\ [SafeNext]_<<vars, which>> => [Next]_vars /\ (which # "calm")'
  BY DEF SafeNext
<1>5. Safe /\ which = "calm" => P!Spec /\ [](which = "calm")
  BY <1>1, <1>2, <1>3, PTL DEF P!Spec
<1>6. Safe /\ which # "calm" => Spec /\ [](which # "calm")
  BY <1>1, <1>2, <1>4, PTL DEF Spec
<1> QED BY <1>5, <1>6

-----------------------------------------------------------------------------
(* What it shows *)

\* "What an agent does next is re-read from the org rather than remembered"
\* (DESIGN.md): in the calm, where no call fails and no order is aborted, the
\* runner's memory between moves of an agent with a ChangeSet of its own is what
\* adopt would find. (An agent with none may hold a closed change of the base.)
THEOREM CalmRemembers == Safe => []CalmStandingIsOrgs
<1>1. P!Spec => []P!StandingIsOrgs
  <2>1. {"crash", "hold", "rule", "incident"} \cap {"fault", "lost", "abort"} = {}
    <3>1. ASSUME NEW e \in {"crash", "hold", "rule", "incident"} PROVE e \notin {"fault", "lost", "abort"}
      OBVIOUS
    <3> QED BY <3>1
  <2> QED BY <2>1, CalmIsAssumed, P!MemoryIsOrgs
     DEF P!OwnersAssumption, P!BoundsAssumption, P!DeploymentsAssumption, P!RunnerAssumption
<1>2. P!StandingIsOrgs => StandingIsOrgs
  BY DEF P!StandingIsOrgs, StandingIsOrgs, P!Resting, Resting, P!LastCycle, LastCycle, P!Standing, Standing,
     P!Idle, Idle, P!OpenOf, OpenOf, P!Named, Named, P!Ordered, Ordered, P!Moving, Moving,
     P!LatestClosed, LatestClosed, P!Unnamed, Unnamed, P!CycleOf, CycleOf, P!Holds, Holds,
     P!Highest, Highest, P!Cycle, Cycle, P!Owner, Owner
<1>3. (which # "calm" => CalmStandingIsOrgs) /\ (StandingIsOrgs => CalmStandingIsOrgs)
  BY DEF CalmStandingIsOrgs
<1> QED BY <1>1, <1>2, <1>3, CalmOrDisturbed, PTL

\* "a rollout picked up midway releases nothing twice" (present/status.go): in
\* the calm nobody else releases its spaces.
THEOREM CalmReleasesOnce == Safe => []CalmNothingTwice
<1>1. P!Spec => []P!NothingTwice
  <2>1. {"crash", "hold", "rule", "incident"} \cap {"play", "plain"} = {}
    OBVIOUS
  <2> QED BY <2>1, CalmIsAssumed, P!ReleasedOnce
     DEF P!OwnersAssumption, P!BoundsAssumption, P!DeploymentsAssumption, P!RunnerAssumption
<1>2. P!NothingTwice => NothingTwice
  BY DEF P!NothingTwice, NothingTwice, P!Cycle, Cycle
<1>3. (which # "calm" => CalmNothingTwice) /\ (NothingTwice => CalmNothingTwice)
  BY DEF CalmNothingTwice
<1> QED BY <1>1, <1>2, <1>3, CalmOrDisturbed, PTL

\* "The agent asks the reviewer once" (DESIGN.md): in the calm every answer
\* comes back, whatever crashes.
THEOREM CalmAsksOnce == Safe => []CalmAskedOnce
<1>1. P!Spec => []P!AskedOnce
  <2>1. "lost" \notin {"crash", "hold", "rule", "incident"}
    OBVIOUS
  <2> QED BY <2>1, CalmIsAssumed, P!ReviewAskedOnce
     DEF P!OwnersAssumption, P!BoundsAssumption, P!DeploymentsAssumption, P!RunnerAssumption
<1>2. P!AskedOnce => AskedOnce
  BY DEF P!AskedOnce, AskedOnce, P!Cycle, Cycle
<1>3. (which # "calm" => CalmAskedOnce) /\ (AskedOnce => CalmAskedOnce)
  BY DEF CalmAskedOnce
<1> QED BY <1>1, <1>2, <1>3, CalmOrDisturbed, PTL

\* Of both instances: no change is dropped, and each is released stage by stage
\* (agents/runner.go), whatever the interferences.
THEOREM SafeKeepsChanges == Safe => [](NoChangeDropped /\ StageByStage)
<1> DEFINE Keeps == NoChangeDropped /\ StageByStage
<1>1. P!Spec => [](P!NoChangeDropped /\ P!StageByStage)
  BY CalmIsAssumed, P!ChangesKept, P!ReleasedStageByStage, PTL
     DEF P!OwnersAssumption, P!BoundsAssumption, P!DeploymentsAssumption, P!RunnerAssumption
<1>2. P!NoChangeDropped /\ P!StageByStage => Keeps
  BY DEF P!NoChangeDropped, NoChangeDropped, P!StageByStage, StageByStage, P!Standing, Standing, P!Idle, Idle,
     P!OpenOf, OpenOf, P!Named, Named, P!Ordered, Ordered, P!Moving, Moving, P!LastCycle, LastCycle,
     P!LatestClosed, LatestClosed, P!Unnamed, Unnamed, P!CycleOf, CycleOf, P!Holds, Holds,
     P!Highest, Highest, P!Cycle, Cycle, P!Owner, Owner
<1>3. Spec => []Keeps
  BY ChangesKept, ReleasedStageByStage, PTL
<1> QED BY <1>1, <1>2, <1>3, CalmOrDisturbed, PTL

\* Of both: where no play names orders, one change of a component is in flight.
THEOREM SafeHasOneInFlight ==
  ASSUME "play" \notin Env PROVE Safe => []OneInFlight
<1>1. P!Spec => []P!OneInFlight
  <2>1. "play" \notin {"crash", "hold", "rule", "incident"}
    OBVIOUS
  <2> QED BY <2>1, CalmIsAssumed, P!OneChangeInFlight
     DEF P!OwnersAssumption, P!BoundsAssumption, P!DeploymentsAssumption, P!RunnerAssumption
<1>2. P!OneInFlight => OneInFlight
  BY DEF P!OneInFlight, OneInFlight, P!Cycle, Cycle, P!Owner, Owner
<1>3. Spec => []OneInFlight
  BY OneChangeInFlight
<1> QED BY <1>1, <1>2, <1>3, CalmOrDisturbed, PTL

\* Both implement the pipeline of the agents' changes (ChangePipeline).
THEOREM SafeImplementsPipeline ==
  ASSUME LastServed PROVE Safe => ImplementsPipeline
<1>1. P!LastServed
  BY DEF P!LastServed, LastServed, P!InStage, InStage
<1>2. P!Spec => P!ImplementsPipeline
  BY <1>1, CalmIsAssumed, P!RunnerImplementsPipeline
     DEF P!OwnersAssumption, P!BoundsAssumption, P!DeploymentsAssumption, P!RunnerAssumption
<1>3. P!ImplementsPipeline => ImplementsPipeline
  <2>1. P!Pipeline!Init <=> Pipeline!Init
    BY DEF P!Pipeline!Init, Pipeline!Init, P!Pipeline!Cycle, Pipeline!Cycle, P!Standings, Standings, P!Cycle, Cycle
  <2>2. [P!Pipeline!Next]_(P!Pipeline!vars) <=> [Pipeline!Next]_(Pipeline!vars)
    BY Zenon DEF
       P!Pipeline!Init, Pipeline!Init, P!Pipeline!Next, Pipeline!Next, P!Pipeline!Open,
       Pipeline!Open, P!Pipeline!Close, Pipeline!Close, P!Pipeline!StartRollout,
       Pipeline!StartRollout, P!Pipeline!Release, Pipeline!Release, P!Pipeline!StageShipped,
       Pipeline!StageShipped, P!Pipeline!EnterStage, Pipeline!EnterStage, P!Pipeline!Finish,
       Pipeline!Finish, P!Pipeline!Abandon, Pipeline!Abandon, P!Pipeline!InStage,
       Pipeline!InStage, P!Pipeline!Pending, Pipeline!Pending, P!Pipeline!Cycle,
       Pipeline!Cycle, P!Pipeline!vars, Pipeline!vars,
       P!Standings, Standings, P!Cycle, Cycle
  <2> QED BY <2>1, <2>2, PTL DEF P!ImplementsPipeline, ImplementsPipeline, P!Pipeline!Spec, Pipeline!Spec
<1>4. Spec => ImplementsPipeline
  BY RunnerImplementsPipeline
<1> QED BY <1>2, <1>3, <1>4, CalmOrDisturbed, PTL
=============================================================================

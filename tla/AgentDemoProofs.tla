-------------------------- MODULE AgentDemoProofs --------------------------
(***************************************************************************)
(* Theorems about AgentDemo, for any agents, people, bases, deployments    *)
(* and bounds. TypeInv is the inductive form of the type invariant: the    *)
(* runner serves one agent at a time, in a move of the phase it is in.     *)
(* FlightInv adds why naming a change order is safe, ChangeInv what an     *)
(* agent's memory and the order of its changes owe to the server's state,  *)
(* and AskedInv what its requests for a review do. Then a change is        *)
(* released stage by stage, once, and is out everywhere when its order is  *)
(* completed: RolloutInv says what a move of the runner owes to the        *)
(* Releases made for an order so far, and how those stand to the stage the *)
(* order is in; OnceInv that the latest Release of a space tells whether   *)
(* there was one.                                                          *)
(***************************************************************************)
EXTENDS AgentDemo, WellFoundedInduction, TLAPS

\* The highest number of a set of cycles, 0 when there is none (adopt's cycle count).
LEMMA HighestOf ==
  ASSUME NEW M \in Nat, NEW S \in SUBSET (1 .. M)
  PROVE  /\ Highest(S) \in 0 .. M
         /\ S # {} => Highest(S) \in S /\ \A n \in S : n <= Highest(S)
         /\ S = {} => Highest(S) = 0
<1>1. CASE S = {}
  BY <1>1 DEF Highest
<1>2. CASE S # {}
  <2> DEFINE T == {M - n : n \in S}
  <2>1. T \subseteq Nat /\ T # {}
    <3>1. ASSUME NEW n \in S PROVE M - n \in Nat
      OBVIOUS
    <3>2. PICK n \in S : TRUE
      BY <1>2
    <3>3. M - n \in T
      OBVIOUS
    <3>4. QED
      BY <3>1, <3>3
  <2>2. \E t \in T : \A u \in T : ~(<<u, t>> \in OpToRel(<, Nat))
    BY <2>1, NatLessThanWellFounded, WFMin, Zenon
  <2>3. PICK t \in T : \A u \in T : ~(<<u, t>> \in OpToRel(<, Nat))
    BY <2>2
  <2>4. \A u \in T : ~(u < t)
    BY <2>1, <2>3 DEF OpToRel
  <2>5. PICK m \in S : t = M - m
    OBVIOUS
  <2>6. \A n \in S : n <= m
    <3> TAKE n \in S
    <3>1. M - n \in T
      OBVIOUS
    <3>2. ~(M - n < M - m)
      BY <2>4, <2>5, <3>1
    <3>3. QED
      BY <3>2
  <2>7. Highest(S) = CHOOSE h \in S : \A n \in S : n <= h
    BY <1>2 DEF Highest
  <2>8. Highest(S) \in S /\ \A n \in S : n <= Highest(S)
    BY <2>6, <2>7
  <2>9. Highest(S) \in 0 .. M
    <3> DEFINE h == Highest(S)
    <3>1. h \in S
      BY <2>8
    <3> HIDE DEF h
    <3>2. h \in 0 .. M
      BY <3>1
    <3>3. QED
      BY <3>2 DEF h
  <2>10. QED
    BY <1>2, <2>8, <2>9
<1>3. QED
  BY <1>1, <1>2

\* What each call does to the server keeps the server's types.
LEMMA ServerCreateType ==
  ASSUME ServerTypeOK, NEW o \in Owner, NEW n \in Nat, NEW u \in BOOLEAN, ServerCreate(o, n, u)
  PROVE  ServerTypeOK'
BY DEF ServerTypeOK, ServerCreate, ChangeSetState, orderVars, releaseVars

LEMMA ServerSetStateType ==
  ASSUME ServerTypeOK, NEW o \in Owner, NEW n \in Nat, NEW s \in ChangeSetState,
         ServerSetState(o, n, s)
  PROVE  ServerTypeOK'
BY DEF ServerTypeOK, ServerSetState, orderVars, releaseVars

LEMMA ServerWriteType ==
  ASSUME ServerTypeOK, NEW o \in Owner, NEW n \in Cycle, ServerWrite(o, n)
  PROVE  ServerTypeOK'
BY DEF ServerTypeOK, ServerWrite, orderVars, releaseVars

LEMMA ServerAskType ==
  ASSUME ServerTypeOK, NEW o \in Owner, NEW n \in Cycle, ServerAsk(o, n)
  PROVE  ServerTypeOK'
BY DEF ServerTypeOK, ServerAsk, orderVars, releaseVars

LEMMA ServerCreateOrderType ==
  ASSUME ServerTypeOK, NEW o \in Owner, NEW n \in Cycle, ServerCreateOrder(o, n)
  PROVE  ServerTypeOK'
BY BoundsAssumption DEF ServerTypeOK, ServerCreateOrder, changeSetVars, releaseVars, OrderState, Stage

LEMMA ServerPromoteType ==
  ASSUME ServerTypeOK, NEW o \in Owner, NEW n \in Cycle, ServerPromote(o, n)
  PROVE  ServerTypeOK'
BY BoundsAssumption DEF ServerTypeOK, ServerPromote, CanPromote, changeSetVars, releaseVars, Stage

LEMMA ServerPublishType ==
  ASSUME ServerTypeOK, NEW o \in Owner, NEW n \in Cycle, NEW d \in Deployment, ServerPublish(o, n, d)
  PROVE  ServerTypeOK'
BY DEF ServerTypeOK, ServerPublish, NotOf, changeSetVars, orderVars, Health

LEMMA ServerPublishPlainType ==
  ASSUME ServerTypeOK, NEW d \in Deployment, ServerPublishPlain(d)
  PROVE  ServerTypeOK'
BY DEF ServerTypeOK, ServerPublishPlain, NotOf, changeSetVars, orderVars, Health

LEMMA ServerReportType ==
  ASSUME ServerTypeOK, NEW d \in Deployment, NEW h \in Health, ServerReport(d, h)
  PROVE  ServerTypeOK'
BY DEF ServerTypeOK, ServerReport, changeSetVars, OrderState

\* A step that leaves the server alone.
LEMMA SameServer ==
  ASSUME ServerTypeOK, UNCHANGED serverVars
  PROVE  ServerTypeOK'
BY DEF ServerTypeOK, serverVars, changeSetVars, orderVars, releaseVars

-----------------------------------------------------------------------------
PhaseOf(call) ==
  CASE call \in {"rule", "create", "enter", "discard"} -> "idle"
    [] call \in {"steps", "close", "ask"} -> "closing"
    [] call \in {"orders", "name"} -> "queued"
    [] OTHER -> "rolling"

\* One agent is served at a time, in a move of the phase it is in.
Serial ==
  /\ \A a, c \in Agent : at[a] # "rest" /\ at[c] # "rest" => a = c
  /\ \A a \in Agent : at[a] # "rest" => up /\ phase[a] = PhaseOf(at[a])

LocalTypeOK ==
  /\ up \in BOOLEAN
  /\ at \in [Agent -> Call]
  /\ phase \in [Agent -> Phase]
  /\ of \in [Agent -> Owner]
  /\ cur \in [Agent -> 0 .. MaxCycle]
  /\ reviewRequested \in [Agent -> BOOLEAN]
  /\ cycle \in [Agent -> 0 .. MaxCycle]
  /\ sawRequired \in [Agent -> BOOLEAN]
  /\ todo \in [Agent -> SUBSET Deployment]

\* A change is opened only below the bound.
Room == \A a \in Agent : at[a] \in {"rule", "create", "enter", "discard"} => cycle[a] < MaxCycle

\* An agent that is not idle has a change, and one of its own base.
Carries ==
  \A a \in Agent : BaseOf[of[a]] = BaseOf[a] /\ (phase[a] # "idle" => cur[a] \in Cycle)

TypeInv == ServerTypeOK /\ LocalTypeOK /\ events \in 0 .. MaxEvents /\ Serial /\ Room /\ Carries

USE BoundsAssumption, OwnersAssumption, RunnerAssumption

\* A seeded org with the runner not started.
LEMMA InitTypeInv == Init => TypeInv
<1> SUFFICES ASSUME Init PROVE TypeInv
  OBVIOUS
<1>1. ServerTypeOK
  BY DEF Init, ServerTypeOK, ChangeSetState, OrderState, Stage, Health
<1>2. LocalTypeOK
  <2>1. /\ todo \in [Agent -> SUBSET Deployment] /\ cur \in [Agent -> 0 .. MaxCycle]
        /\ of \in [Agent -> Owner]
    BY DEF Init, Owner
  <2>2. cycle \in [Agent -> 0 .. MaxCycle] /\ at \in [Agent -> Call] /\ phase \in [Agent -> Phase]
    BY DEF Init, Call, Phase
  <2>3. reviewRequested \in [Agent -> BOOLEAN] /\ sawRequired \in [Agent -> BOOLEAN] /\ up \in BOOLEAN
    BY DEF Init
  <2>4. QED
    BY <2>1, <2>2, <2>3 DEF LocalTypeOK
<1>3. events \in 0 .. MaxEvents
  BY DEF Init
<1>4. Serial /\ Room /\ Carries
  BY DEF Init, Serial, Room, Carries
<1>5. QED
  BY <1>1, <1>2, <1>3, <1>4 DEF TypeInv

MoveLocal == LocalTypeOK /\ events \in 0 .. MaxEvents /\ Serial /\ Room /\ Carries

\* Each move keeps TypeInv: the server's part by the lemma of its call, the
\* runner's part by the call it goes on to.
LEMMA CheckHeldType ==
  ASSUME TypeInv, NEW a \in Agent, CheckHeld(a)
  PROVE  TypeInv'
<1>1. ServerTypeOK'
  BY SameServer DEF TypeInv, CheckHeld, Goes
<1>2. MoveLocal'
  BY DEF TypeInv, MoveLocal, LocalTypeOK, Serial, Room, Carries, PhaseOf, Call, Phase, CheckHeld, Goes, Then, Begins, Resting
<1>3. QED
  BY <1>1, <1>2 DEF TypeInv, MoveLocal

LEMMA ReadRuleType ==
  ASSUME TypeInv, NEW a \in Agent, ReadRule(a)
  PROVE  TypeInv'
<1>1. ServerTypeOK'
  BY SameServer DEF TypeInv, ReadRule
<1>2. MoveLocal'
  <2>1. required[BaseOf[a]] \in BOOLEAN
    BY DEF TypeInv, ServerTypeOK, Owner
  <2>2. sawRequired' \in [Agent -> BOOLEAN]
    BY <2>1 DEF TypeInv, LocalTypeOK, ReadRule
  <2>3. QED
    BY <2>2 DEF TypeInv, MoveLocal, LocalTypeOK, Serial, Room, Carries, PhaseOf, Call, Phase, ReadRule, Then, Serving
<1>3. QED
  BY <1>1, <1>2 DEF TypeInv, MoveLocal

LEMMA CreateChangeSetType ==
  ASSUME TypeInv, NEW a \in Agent, CreateChangeSet(a)
  PROVE  TypeInv'
<1>1. ServerTypeOK'
  BY SameServer, ServerCreateType DEF TypeInv, CreateChangeSet, NextCycle, LocalTypeOK, Owner
<1>2. MoveLocal'
  BY DEF TypeInv, MoveLocal, LocalTypeOK, Serial, Room, Carries, PhaseOf, Call, Phase, CreateChangeSet, Then, Serving
<1>3. QED
  BY <1>1, <1>2 DEF TypeInv, MoveLocal

LEMMA EnterBaseType ==
  ASSUME TypeInv, NEW a \in Agent, EnterBase(a)
  PROVE  TypeInv'
<1>1. ServerTypeOK'
  BY ServerSetStateType DEF TypeInv, EnterBase, NextCycle, LocalTypeOK, Owner, ChangeSetState
<1>2. MoveLocal'
  BY DEF TypeInv, MoveLocal, LocalTypeOK, Serial, Room, Carries, PhaseOf, Call, Phase, EnterBase, Then, Serving, NextCycle, Cycle
<1>3. QED
  BY <1>1, <1>2 DEF TypeInv, MoveLocal

LEMMA BaseTakenType ==
  ASSUME TypeInv, NEW a \in Agent, BaseTaken(a)
  PROVE  TypeInv'
<1>1. ServerTypeOK'
  BY SameServer DEF TypeInv, BaseTaken, Goes
<1>2. MoveLocal'
  BY DEF TypeInv, MoveLocal, LocalTypeOK, Serial, Room, Carries, PhaseOf, Call, Phase, BaseTaken, Goes, Then, Serving
<1>3. QED
  BY <1>1, <1>2 DEF TypeInv, MoveLocal

LEMMA DiscardChangeSetType ==
  ASSUME TypeInv, NEW a \in Agent, DiscardChangeSet(a)
  PROVE  TypeInv'
<1>1. ServerTypeOK'
  BY ServerSetStateType DEF TypeInv, DiscardChangeSet, NextCycle, LocalTypeOK, Owner, ChangeSetState
<1>2. MoveLocal'
  BY DEF TypeInv, MoveLocal, LocalTypeOK, Serial, Room, Carries, PhaseOf, Call, Phase, DiscardChangeSet, Then, Serving
<1>3. QED
  BY <1>1, <1>2 DEF TypeInv, MoveLocal

LEMMA RunStepType ==
  ASSUME TypeInv, NEW a \in Agent, RunStep(a)
  PROVE  TypeInv'
<1>1. ServerTypeOK'
  BY ServerWriteType DEF TypeInv, RunStep, Serving, Serial, PhaseOf, Carries, Owner
<1>2. MoveLocal'
  BY DEF TypeInv, MoveLocal, LocalTypeOK, Serial, Room, Carries, PhaseOf, Call, Phase, RunStep, Then, Serving
<1>3. QED
  BY <1>1, <1>2 DEF TypeInv, MoveLocal

LEMMA CloseChangeSetType ==
  ASSUME TypeInv, NEW a \in Agent, CloseChangeSet(a)
  PROVE  TypeInv'
<1>1. ServerTypeOK'
  BY ServerSetStateType DEF TypeInv, CloseChangeSet, LocalTypeOK, Owner, ChangeSetState
<1>2. MoveLocal'
  BY DEF TypeInv, MoveLocal, LocalTypeOK, Serial, Room, Carries, PhaseOf, Call, Phase, CloseChangeSet, Then, Serving, Begins, Resting
<1>3. QED
  BY <1>1, <1>2 DEF TypeInv, MoveLocal

LEMMA CloseRefusedType ==
  ASSUME TypeInv, NEW a \in Agent, CloseRefused(a)
  PROVE  TypeInv'
<1>1. ServerTypeOK'
  BY SameServer DEF TypeInv, CloseRefused, Goes
<1>2. MoveLocal'
  BY DEF TypeInv, MoveLocal, LocalTypeOK, Serial, Room, Carries, PhaseOf, Call, Phase, CloseRefused, Goes, Then, Serving, Begins, Resting
<1>3. QED
  BY <1>1, <1>2 DEF TypeInv, MoveLocal

LEMMA AskReviewType ==
  ASSUME TypeInv, NEW a \in Agent, AskReview(a)
  PROVE  TypeInv'
<1>1. ServerTypeOK'
  BY ServerAskType DEF TypeInv, AskReview, Serving, Serial, PhaseOf, Carries, Owner
<1>2. MoveLocal'
  BY DEF TypeInv, MoveLocal, LocalTypeOK, Serial, Room, Carries, PhaseOf, Call, Phase, AskReview, Then, Serving
<1>3. QED
  BY <1>1, <1>2 DEF TypeInv, MoveLocal

LEMMA ListOrdersType ==
  ASSUME TypeInv, NEW a \in Agent, ListOrders(a)
  PROVE  TypeInv'
<1>1. ServerTypeOK'
  BY SameServer DEF TypeInv, ListOrders, Goes
<1>2. MoveLocal'
  BY DEF TypeInv, MoveLocal, LocalTypeOK, Serial, Room, Carries, PhaseOf, Call, Phase, ListOrders, Goes, Then, Serving, Begins, Resting
<1>3. QED
  BY <1>1, <1>2 DEF TypeInv, MoveLocal

LEMMA NameOrderType ==
  ASSUME TypeInv, NEW a \in Agent, NameOrder(a)
  PROVE  TypeInv'
<1>1. ServerTypeOK'
  BY SameServer, ServerCreateOrderType
  DEF TypeInv, LocalTypeOK, NameOrder, Serving, Serial, PhaseOf, Carries
<1>2. MoveLocal'
  BY DEF TypeInv, MoveLocal, LocalTypeOK, Serial, Room, Carries, PhaseOf, Call, Phase, NameOrder, Then, Serving
<1>3. QED
  BY <1>1, <1>2 DEF TypeInv, MoveLocal

LEMMA RolloutCompleteType ==
  ASSUME TypeInv, NEW a \in Agent, RolloutComplete(a)
  PROVE  TypeInv'
<1>1. ServerTypeOK'
  BY SameServer DEF TypeInv, RolloutComplete
<1>2. MoveLocal'
  BY DEF TypeInv, MoveLocal, LocalTypeOK, Serial, Room, Carries, PhaseOf, Call, Phase, RolloutComplete, Then, Serving, Begins, Resting, Owner
<1>3. QED
  BY <1>1, <1>2 DEF TypeInv, MoveLocal

LEMMA RolloutMovesType ==
  ASSUME TypeInv, NEW a \in Agent, RolloutMoves(a)
  PROVE  TypeInv'
<1>1. ServerTypeOK'
  BY SameServer DEF TypeInv, RolloutMoves, Goes
<1>2. MoveLocal'
  BY DEF TypeInv, MoveLocal, LocalTypeOK, Serial, Room, Carries, PhaseOf, Call, Phase, RolloutMoves, Goes, Then, Serving, Begins, Resting
<1>3. QED
  BY <1>1, <1>2 DEF TypeInv, MoveLocal

LEMMA ResolveStageType ==
  ASSUME TypeInv, NEW a \in Agent, ResolveStage(a)
  PROVE  TypeInv'
<1>1. ServerTypeOK'
  BY SameServer DEF TypeInv, ResolveStage
<1>2. MoveLocal'
  BY DEF TypeInv, MoveLocal, LocalTypeOK, Serial, Room, Carries, PhaseOf, Call, Phase, ResolveStage, Then, Serving, Unreleased, InStage
<1>3. QED
  BY <1>1, <1>2 DEF TypeInv, MoveLocal

LEMMA PublishNextType ==
  ASSUME TypeInv, NEW a \in Agent, PublishNext(a)
  PROVE  TypeInv'
<1>1. ServerTypeOK'
  <2>1. phase[a] = "rolling" /\ cur[a] \in Cycle /\ of[a] \in Owner
    BY DEF TypeInv, LocalTypeOK, PublishNext, Serving, Serial, PhaseOf, Carries
  <2>2. PICK d \in Deployment : ServerPublish(of[a], cur[a], d) \/ UNCHANGED serverVars
    BY DEF PublishNext, TypeInv, LocalTypeOK
  <2>3. QED
    BY <2>1, <2>2, SameServer, ServerPublishType DEF TypeInv
<1>2. MoveLocal'
  BY DEF TypeInv, MoveLocal, LocalTypeOK, Serial, Room, Carries, PhaseOf, Call, Phase, PublishNext, Then, Serving
<1>3. QED
  BY <1>1, <1>2 DEF TypeInv, MoveLocal

LEMMA PromoteType ==
  ASSUME TypeInv, NEW a \in Agent, Promote(a)
  PROVE  TypeInv'
<1>1. ServerTypeOK'
  BY SameServer, ServerPromoteType DEF TypeInv, LocalTypeOK, Promote, Serving, Serial, PhaseOf, Carries
<1>2. MoveLocal'
  BY DEF TypeInv, MoveLocal, LocalTypeOK, Serial, Room, Carries, PhaseOf, Call, Phase, Promote, Then, Serving
<1>3. QED
  BY <1>1, <1>2 DEF TypeInv, MoveLocal

LEMMA CallFailsType ==
  ASSUME TypeInv, NEW a \in Agent, CallFails(a)
  PROVE  TypeInv'
<1>1. ServerTypeOK'
  BY SameServer DEF TypeInv, CallFails
<1>2. MoveLocal'
  BY DEF TypeInv, MoveLocal, LocalTypeOK, Serial, Room, Carries, PhaseOf, Call, Phase, CallFails, Happens, Then
<1>3. QED
  BY <1>1, <1>2 DEF TypeInv, MoveLocal

LEMMA AnswerLostType ==
  ASSUME TypeInv, NEW a \in Agent, AnswerLost(a)
  PROVE  TypeInv'
<1>1. ServerTypeOK'
  <2>1. /\ cur[a] \in Nat /\ NextCycle(a) \in Nat /\ sawRequired[a] \in BOOLEAN
        /\ a \in Owner /\ of[a] \in Owner
    BY DEF TypeInv, LocalTypeOK, NextCycle, Owner
  <2>2. at[a] \in {"steps", "ask", "name", "promote", "publish"} => cur[a] \in Cycle
    BY DEF TypeInv, Serial, PhaseOf, Carries
  <2>3. todo[a] \subseteq Deployment
    BY DEF TypeInv, LocalTypeOK
  <2>4. QED
    BY <2>1, <2>2, <2>3, ServerCreateType, ServerSetStateType, ServerWriteType, ServerAskType, ServerCreateOrderType,
       ServerPromoteType, ServerPublishType
    DEF TypeInv, AnswerLost, Serving, ChangeSetState
<1>2. MoveLocal'
  BY DEF TypeInv, MoveLocal, LocalTypeOK, Serial, Room, Carries, PhaseOf, Call, Phase, AnswerLost, Happens, Then, Serving
<1>3. QED
  BY <1>1, <1>2 DEF TypeInv, MoveLocal

LEMMA CrashType ==
  ASSUME TypeInv, Crash
  PROVE  TypeInv'
<1>1. ServerTypeOK'
  BY SameServer DEF TypeInv, Crash
<1>2. MoveLocal'
  <2>1. LocalTypeOK'
    <3>1. /\ todo' \in [Agent -> SUBSET Deployment] /\ cur' \in [Agent -> 0 .. MaxCycle]
          /\ of' \in [Agent -> Owner]
      BY DEF Crash, Owner
    <3>2. cycle' \in [Agent -> 0 .. MaxCycle] /\ at' \in [Agent -> Call] /\ phase' \in [Agent -> Phase]
      BY DEF Crash, Call, Phase
    <3>3. reviewRequested' \in [Agent -> BOOLEAN] /\ sawRequired' \in [Agent -> BOOLEAN] /\ up' \in BOOLEAN
      BY DEF Crash
    <3>4. QED
      BY <3>1, <3>2, <3>3 DEF LocalTypeOK
  <2>2. events' \in 0 .. MaxEvents
    BY DEF TypeInv, Crash, Happens
  <2>3. Serial' /\ Room' /\ Carries'
    BY DEF Crash, Serial, Room, Carries
  <2>4. QED
    BY <2>1, <2>2, <2>3 DEF MoveLocal
<1>3. QED
  BY <1>1, <1>2 DEF TypeInv, MoveLocal

\* adopt reads numbers of cycles.
LEMMA CycleSets ==
  ASSUME NEW a \in Agent
  PROVE  /\ Named(a) \in SUBSET (1 .. MaxCycle) /\ OpenOf(a) \in SUBSET (1 .. MaxCycle)
         /\ Ordered(a) \in SUBSET (1 .. MaxCycle) /\ Moving(a) \in SUBSET (1 .. MaxCycle)
         /\ Named(a) \union Ordered(a) \in SUBSET (1 .. MaxCycle)
BY DEF Named, OpenOf, Ordered, Moving, Cycle

\* What adopt takes for the latest Closed ChangeSet is one of the base: the
\* agent's own latest, or anybody's where the agent has none of its own.
LEMMA LatestOf ==
  ASSUME NEW a \in Agent, NEW c \in LatestClosed(a)
  PROVE  /\ c = <<c[1], c[2]>> /\ c[1] \in Owner /\ c[2] \in Cycle
         /\ BaseOf[c[1]] = BaseOf[a] /\ changeSet[c[1]][c[2]] = "Closed"
         /\ c[1] = a => Named(a) # {} /\ c[2] = Highest(Named(a))
         /\ c[1] # a => Named(a) = {}
<1>1. /\ c \in Owner \X Cycle /\ BaseOf[c[1]] = BaseOf[a] /\ changeSet[c[1]][c[2]] = "Closed"
      /\ CycleOf(a, c) = Highest(Named(a))
  BY DEF LatestClosed
<1>2. CASE c[1] = a
  <2>1. c[2] \in Named(a)
    BY <1>1, <1>2 DEF Named
  <2>2. QED
    BY <1>1, <1>2, <2>1 DEF CycleOf
<1>3. CASE c[1] # a
  <2>1. Highest(Named(a)) = 0
    BY <1>1, <1>3 DEF CycleOf
  <2>2. Named(a) = {}
    BY <2>1, CycleSets, HighestOf
  <2>3. QED
    BY <1>1, <1>3, <2>2
<1>4. QED
  BY <1>2, <1>3

\* Where adopt puts an agent is a standing the moves can go on from.
StandsWell(a, st) ==
  /\ st.phase \in Phase /\ st.of \in Owner /\ st.cur \in 0 .. MaxCycle
  /\ BaseOf[st.of] = BaseOf[a]
  /\ st.phase # "idle" => st.cur \in Cycle
  /\ st.phase = "closing" => st.cur \in OpenOf(a)
  /\ st.phase = "rolling" => st.cur \in Moving(a)
  /\ st.phase = "queued" =>
       a \in Rollout /\ changeSet[st.of][st.cur] = "Closed" /\ OpenOf(a) = {}
  /\ st.of # a => st.phase = "queued" /\ Named(a) = {}

LEMMA StandingOf ==
  ASSUME NEW a \in Agent
  PROVE  /\ LastCycle(a) \in 0 .. MaxCycle
         /\ \A st \in Standing(a) : StandsWell(a, st)
<1>1. LastCycle(a) \in 0 .. MaxCycle
  BY CycleSets, HighestOf DEF LastCycle
<1> SUFFICES ASSUME NEW st \in Standing(a)
             PROVE  StandsWell(a, st)
  BY <1>1
<1>2. CASE OpenOf(a) # {}
  <2>1. st = [phase |-> "closing", of |-> a, cur |-> Highest(OpenOf(a))]
    BY <1>2 DEF Standing, Holds
  <2>2. Highest(OpenOf(a)) \in OpenOf(a)
    BY <1>2, CycleSets, HighestOf
  <2>3. QED
    BY <2>1, <2>2, CycleSets DEF StandsWell, Phase, Cycle, Owner
<1>3. CASE OpenOf(a) = {} /\ Moving(a) # {} /\ Highest(Moving(a)) = LastCycle(a)
  <2>1. st = [phase |-> "rolling", of |-> a, cur |-> Highest(Moving(a))]
    BY <1>3 DEF Standing, Holds
  <2>2. Highest(Moving(a)) \in Moving(a)
    BY <1>3, CycleSets, HighestOf
  <2>3. QED
    BY <2>1, <2>2, CycleSets DEF StandsWell, Phase, Cycle, Owner
<1>4. CASE /\ OpenOf(a) = {} /\ ~(Moving(a) # {} /\ Highest(Moving(a)) = LastCycle(a))
           /\ Unnamed(a) # {} /\ a \in Rollout
  <2>1. PICK c \in Unnamed(a) : st = [phase |-> "queued", of |-> c[1], cur |-> c[2]]
    BY <1>4 DEF Standing, Holds
  <2>2. c \in LatestClosed(a)
    BY DEF Unnamed
  <2>3. QED
    BY <1>4, <2>1, <2>2, LatestOf DEF StandsWell, Phase, Cycle
<1>5. CASE st = Idle(a)
  BY <1>5 DEF StandsWell, Idle, Holds, Phase, Owner
<1>6. QED
  BY <1>2, <1>3, <1>4, <1>5 DEF Standing

\* What Start makes of an agent's standing.
LEMMA StartStands ==
  ASSUME Start, NEW a \in Agent
  PROVE  /\ Holds(phase'[a], of'[a], cur'[a]) \in Standing(a)
         /\ StandsWell(a, Holds(phase'[a], of'[a], cur'[a]))
<1>1. PICK standing \in [Agent -> UNION {Standing(c) : c \in Agent}] :
        /\ \A c \in Agent : standing[c] \in Standing(c)
        /\ phase' = [c \in Agent |-> standing[c].phase]
        /\ of' = [c \in Agent |-> standing[c].of]
        /\ cur' = [c \in Agent |-> standing[c].cur]
  BY DEF Start
<1>2. standing[a] \in Standing(a)
  BY <1>1
<1>3. standing[a] = Holds(standing[a].phase, standing[a].of, standing[a].cur)
  BY <1>2 DEF Standing, Holds, Idle
<1>4. standing[a] = Holds(phase'[a], of'[a], cur'[a])
  BY <1>1, <1>3
<1>5. QED
  BY <1>2, <1>4, StandingOf

\* init and adopt.
LEMMA StartType ==
  ASSUME TypeInv, Start
  PROVE  TypeInv'
<1>1. ServerTypeOK'
  BY SameServer DEF TypeInv, Start
<1>2. LocalTypeOK' /\ Carries'
  <2>0. /\ phase' = [a \in Agent |-> phase'[a]] /\ of' = [a \in Agent |-> of'[a]]
        /\ cur' = [a \in Agent |-> cur'[a]]
    BY DEF Start
  <2>1. /\ phase' \in [Agent -> Phase] /\ of' \in [Agent -> Owner]
        /\ cur' \in [Agent -> 0 .. MaxCycle]
    BY <2>0, StartStands DEF StandsWell, Holds
  <2>2. cycle' \in [Agent -> 0 .. MaxCycle] /\ up' \in BOOLEAN
    BY StandingOf DEF Start
  <2>3. reviewRequested' \in [Agent -> BOOLEAN]
    BY DEF Start, AlreadyAsked
  <2>4. at' \in [Agent -> Call] /\ sawRequired' \in [Agent -> BOOLEAN] /\ todo' \in [Agent -> SUBSET Deployment]
    BY DEF Start, TypeInv, LocalTypeOK
  <2>5. Carries'
    BY StartStands DEF StandsWell, Holds, Carries
  <2>6. QED
    BY <2>1, <2>2, <2>3, <2>4, <2>5 DEF LocalTypeOK
<1>3. Serial' /\ Room' /\ events' \in 0 .. MaxEvents
  BY DEF TypeInv, Serial, Room, Start
<1>4. QED
  BY <1>1, <1>2, <1>3 DEF TypeInv

\* A step of somebody else.
LEMMA SameRunner ==
  ASSUME TypeInv, UNCHANGED runnerVars, UNCHANGED events \/ \E kind \in EnvKinds : Happens(kind)
  PROVE  MoveLocal'
BY DEF TypeInv, MoveLocal, LocalTypeOK, Serial, Room, Carries, PhaseOf, Call, Phase, Happens, runnerVars, localVars

\* What people and the delivery system do.
LEMMA PeopleType ==
  ASSUME TypeInv, People
  PROVE  TypeInv'
<1>1. ASSUME NEW a \in Agent, NEW n \in Cycle, Approve(a, n)
      PROVE  ServerTypeOK' /\ MoveLocal'
  BY <1>1, SameRunner DEF Approve, TypeInv, ServerTypeOK, orderVars, releaseVars
<1>2. ASSUME NEW p \in Person, NEW n \in Cycle, PersonOpens(p, n) \/ PersonCloses(p, n)
      PROVE  ServerTypeOK' /\ MoveLocal'
  BY <1>2, SameRunner, ServerSetStateType
  DEF PersonOpens, PersonCloses, TypeInv, ChangeSetState, Owner, Cycle, EnvKinds
<1>3. ASSUME NEW p \in Person, NEW n \in Cycle, PlayNamesOrder(p, n)
      PROVE  ServerTypeOK' /\ MoveLocal'
  BY <1>3, SameRunner, ServerCreateOrderType DEF PlayNamesOrder, TypeInv, Owner, EnvKinds
<1>4. ASSUME NEW p \in Person, NEW n \in Cycle, PlayFinishes(p, n)
      PROVE  ServerTypeOK' /\ MoveLocal'
  BY <1>4, SameRunner
  DEF PlayFinishes, TypeInv, ServerTypeOK, changeSetVars, Owner, OrderState, Stage, Health
<1>5. ASSUME NEW o \in Owner, NEW n \in Cycle, AbortOrder(o, n)
      PROVE  ServerTypeOK' /\ MoveLocal'
  BY <1>5, SameRunner
  DEF AbortOrder, TypeInv, ServerTypeOK, changeSetVars, releaseVars, OrderState, EnvKinds
<1>6. ASSUME NEW b \in Base, RuleArrives(b)
      PROVE  ServerTypeOK' /\ MoveLocal'
  BY <1>6, SameRunner
  DEF RuleArrives, TypeInv, ServerTypeOK, changeSetVars, orderVars, releaseVars, EnvKinds
<1>7. ASSUME NEW d \in Deployment, PlainRelease(d) \/ Observe(d) \/ Incident(d) \/ Heal(d)
      PROVE  ServerTypeOK' /\ MoveLocal'
  BY <1>7, SameRunner, ServerPublishPlainType, ServerReportType
  DEF PlainRelease, Observe, Incident, Heal, TypeInv, Health, EnvKinds
<1>8. ServerTypeOK' /\ MoveLocal'
  BY <1>1, <1>2, <1>3, <1>4, <1>5, <1>6, <1>7 DEF People
<1>9. QED
  BY <1>8 DEF TypeInv, MoveLocal

\* Nothing happens.
LEMMA StutterType ==
  ASSUME TypeInv, UNCHANGED vars
  PROVE  TypeInv'
<1>1. ServerTypeOK' /\ MoveLocal'
  BY SameServer, SameRunner DEF vars, TypeInv
<1>2. QED
  BY <1>1 DEF TypeInv, MoveLocal

\* Every step.
LEMMA NextType ==
  ASSUME TypeInv, [Next]_vars
  PROVE  TypeInv'
<1>1. CASE Start
  BY <1>1, StartType
<1>2. ASSUME NEW a \in Agent, Move(a)
      PROVE  TypeInv'
  BY <1>2, CheckHeldType, ReadRuleType, CreateChangeSetType, EnterBaseType, BaseTakenType,
     DiscardChangeSetType, RunStepType, CloseChangeSetType, CloseRefusedType, AskReviewType,
     ListOrdersType, NameOrderType, RolloutCompleteType, RolloutMovesType, ResolveStageType,
     PublishNextType, PromoteType
  DEF Move
<1>3. ASSUME NEW a \in Agent, CallFails(a) \/ AnswerLost(a)
      PROVE  TypeInv'
  BY <1>3, CallFailsType, AnswerLostType
<1>4. CASE Crash
  BY <1>4, CrashType
<1>5. CASE People
  BY <1>5, PeopleType
<1>6. CASE UNCHANGED vars
  BY <1>6, StutterType
<1>7. QED
  BY <1>1, <1>2, <1>3, <1>4, <1>5, <1>6 DEF Next

\* The runner serves one agent at a time, in a move of the phase it is in.
LEMMA TypeInvAlways == Spec => []TypeInv
<1>1. TypeInv /\ [Next]_vars => TypeInv'
  BY NextType
<1>2. QED
  BY InitTypeInv, <1>1, PTL DEF Spec

\* The model is type correct: phases, cycles, calls and everything on the server
\* keep their types in every run of agents (runner.go) among people.
THEOREM TypeCorrect == Spec => []TypeOK
<1>1. TypeInv => TypeOK
  BY DEF TypeInv, LocalTypeOK, TypeOK
<1>2. QED
  BY TypeInvAlways, <1>1, PTL
-----------------------------------------------------------------------------
\* Naming an order follows on a list that showed none moving.
NameClear == \A a \in Agent : at[a] = "name" => ~OtherMoving(a)

FlightInv == OneInFlight /\ NameClear

\* A step that sets no order moving and brings no agent to naming one.
NamesNone ==
  /\ \A o \in Owner, n \in Cycle : order'[o][n] = "moving" => order[o][n] = "moving"
  /\ \A c \in Agent : at'[c] = "name" => at[c] = "name" /\ of'[c] = of[c] /\ cur'[c] = cur[c]

\* Where no order is named, none comes to overlap.
LEMMA NamesNoneKeeps ==
  ASSUME FlightInv, NamesNone
  PROVE  FlightInv'
<1>1. OneInFlight'
  BY DEF FlightInv, OneInFlight, NamesNone
<1>2. ASSUME NEW a \in Agent, at'[a] = "name"
      PROVE  ~OtherMoving(a)'
  BY <1>2 DEF FlightInv, NameClear, NamesNone, OtherMoving
<1>3. QED
  BY <1>1, <1>2 DEF FlightInv, NameClear

\* The step that names an order does so where none of the component's moves.
LEMMA NamingKeeps ==
  ASSUME TypeInv, FlightInv, NEW a \in Agent, at[a] = "name", ServerCreateOrder(of[a], cur[a]),
         \A c \in Agent : at'[c] # "name"
  PROVE  FlightInv'
<1>1. cur[a] \in Cycle /\ of[a] \in Owner /\ BaseOf[of[a]] = BaseOf[a]
  BY DEF TypeInv, LocalTypeOK, Serial, PhaseOf, Carries
<1>2. ~OtherMoving(a)
  BY DEF FlightInv, NameClear
<1>3. \A o \in Owner, n \in Cycle :
        order'[o][n] = "moving" => order[o][n] = "moving" \/ (o = of[a] /\ n = cur[a])
  BY <1>1 DEF ServerCreateOrder, TypeInv, ServerTypeOK
<1>4. ASSUME NEW o \in Owner, NEW n \in Cycle, BaseOf[o] = BaseOf[a], order'[o][n] = "moving"
      PROVE  o = of[a] /\ n = cur[a]
  BY <1>1, <1>2, <1>3, <1>4 DEF OtherMoving
<1>5. OneInFlight'
  BY <1>1, <1>3, <1>4 DEF FlightInv, OneInFlight
<1>6. QED
  BY <1>5 DEF FlightInv, NameClear

\* The runner names one order at a time.
LEMMA NamingAlone ==
  ASSUME TypeInv, NEW a \in Agent, at[a] = "name"
  PROVE  \A c \in Agent : at[c] = "name" => c = a
BY DEF TypeInv, Serial

\* Each move: only startRollout names an order, and only queue leads to it.
LEMMA MoveFlight ==
  ASSUME TypeInv, FlightInv, NEW a \in Agent, Move(a)
  PROVE  FlightInv'
<1>1. /\ at \in [Agent -> Call] /\ of \in [Agent -> Owner] /\ cur \in [Agent -> 0 .. MaxCycle]
      /\ BaseOf[of[a]] = BaseOf[a]
  BY DEF TypeInv, LocalTypeOK, Carries
<1>2. CASE CheckHeld(a) \/ ReadRule(a) \/ CreateChangeSet(a) \/ EnterBase(a)
           \/ BaseTaken(a) \/ DiscardChangeSet(a) \/ RunStep(a)
  <2>1. NamesNone
    BY <1>1, <1>2
    DEF NamesNone, CheckHeld, ReadRule, CreateChangeSet, EnterBase, BaseTaken, DiscardChangeSet,
        RunStep, Goes, Then, ServerCreate, ServerSetState, ServerWrite, serverVars, orderVars
  <2>2. QED
    BY <2>1, NamesNoneKeeps
<1>3. CASE CloseChangeSet(a) \/ CloseRefused(a) \/ AskReview(a)
  <2>1. NamesNone
    BY <1>1, <1>3
    DEF NamesNone, CloseChangeSet, CloseRefused, AskReview, Goes, Then, ServerSetState, ServerAsk,
        serverVars, orderVars
  <2>2. QED
    BY <2>1, NamesNoneKeeps
<1>4. CASE ListOrders(a)
  <2>1. UNCHANGED <<order, of, cur>>
    BY <1>4 DEF ListOrders, Goes, serverVars, orderVars
  <2>2. OneInFlight'
    BY <2>1 DEF FlightInv, OneInFlight
  <2>3. ASSUME NEW c \in Agent, at'[c] = "name"
        PROVE  ~OtherMoving(c)
    <3>1. CASE c = a
      BY <1>1, <1>4, <2>3, <3>1 DEF ListOrders, Goes, Then
    <3>2. CASE c # a
      <4>1. at[c] = "name"
        BY <1>1, <1>4, <2>3, <3>2 DEF ListOrders, Goes, Then
      <4>2. QED
        BY <4>1 DEF FlightInv, NameClear
    <3>3. QED
      BY <3>1, <3>2
  <2>4. NameClear'
    BY <2>1, <2>3 DEF NameClear, OtherMoving
  <2>5. QED
    BY <2>2, <2>4 DEF FlightInv
<1>5. CASE NameOrder(a)
  <2>1. CASE ServerCreateOrder(of[a], cur[a]) /\ Then(a, "read")
    <3>1. \A c \in Agent : at'[c] # "name"
      BY <1>1, <1>5, <2>1, NamingAlone DEF NameOrder, Serving, Then
    <3>2. QED
      BY <1>5, <2>1, <3>1, NamingKeeps DEF NameOrder, Serving
  <2>2. CASE Then(a, "rest") /\ UNCHANGED <<serverVars, phase>>
    <3>1. NamesNone
      BY <1>1, <1>5, <2>2 DEF NamesNone, NameOrder, Then, serverVars, orderVars
    <3>2. QED
      BY <3>1, NamesNoneKeeps
  <2>3. QED
    BY <1>5, <2>1, <2>2 DEF NameOrder
<1>6. CASE RolloutComplete(a) \/ RolloutMoves(a) \/ ResolveStage(a)
  <2>1. NamesNone
    BY <1>1, <1>6
    DEF NamesNone, RolloutComplete, RolloutMoves, ResolveStage, Goes, Then, serverVars, orderVars
  <2>2. QED
    BY <2>1, NamesNoneKeeps
<1>7. CASE PublishNext(a) \/ Promote(a)
  <2>1. NamesNone
    BY <1>1, <1>7
    DEF NamesNone, PublishNext, Promote, Then, ServerPublish, ServerPromote, serverVars, orderVars
  <2>2. QED
    BY <2>1, NamesNoneKeeps
<1>8. QED
  BY <1>2, <1>3, <1>4, <1>5, <1>6, <1>7 DEF Move

\* A failed call, or one whose answer is lost.
LEMMA FailureFlight ==
  ASSUME TypeInv, FlightInv, NEW a \in Agent, CallFails(a) \/ AnswerLost(a)
  PROVE  FlightInv'
<1>1. at \in [Agent -> Call] /\ UNCHANGED <<of, cur>> /\ Then(a, "rest")
  BY DEF TypeInv, LocalTypeOK, CallFails, AnswerLost
<1>2. CASE at[a] = "name" /\ ServerCreateOrder(of[a], cur[a])
  BY <1>1, <1>2, NamingAlone, NamingKeeps DEF Then
<1>3. CASE UNCHANGED order
  BY <1>1, <1>3, NamesNoneKeeps DEF NamesNone, Then
<1>4. QED
  BY <1>2, <1>3
  DEF CallFails, AnswerLost, Serving, ServerCreate, ServerSetState, ServerWrite, ServerAsk,
      ServerPromote, ServerPublish, serverVars, orderVars

\* Nobody but a play sets an order moving.
LEMMA PeopleFlight ==
  ASSUME "play" \notin Env, TypeInv, FlightInv, People
  PROVE  FlightInv'
<1>1. UNCHANGED <<at, of, cur>>
  BY DEF People, Approve, PersonOpens, PersonCloses, PlayNamesOrder, PlayFinishes, AbortOrder,
         RuleArrives, PlainRelease, Observe, Incident, Heal, runnerVars, localVars
<1>2. ASSUME NEW p \in Person, NEW n \in Cycle, PlayFinishes(p, n)
      PROVE  \A o \in Owner, m \in Cycle : order'[o][m] = "moving" => order[o][m] = "moving"
  BY <1>2 DEF PlayFinishes, TypeInv, ServerTypeOK
<1>3. ASSUME NEW o \in Owner, NEW n \in Cycle, AbortOrder(o, n)
      PROVE  \A q \in Owner, m \in Cycle : order'[q][m] = "moving" => order[q][m] = "moving"
  BY <1>3 DEF AbortOrder, TypeInv, ServerTypeOK
<1>4. ASSUME NEW d \in Deployment, NEW h \in Health, ServerReport(d, h)
      PROVE  \A o \in Owner, m \in Cycle : order'[o][m] = "moving" => order[o][m] = "moving"
  BY <1>4 DEF ServerReport, TypeInv, ServerTypeOK
<1>5. \A o \in Owner, m \in Cycle : order'[o][m] = "moving" => order[o][m] = "moving"
  <2>1. CASE UNCHANGED order
    BY <2>1
  <2>2. QED
    BY <1>2, <1>3, <1>4, <2>1
    DEF People, Approve, PersonOpens, PersonCloses, PlayNamesOrder, Happens, ServerSetState,
        RuleArrives, PlainRelease, ServerPublishPlain, Observe, Incident, Heal, Health, orderVars
<1>6. QED
  BY <1>1, <1>5, NamesNoneKeeps DEF NamesNone

\* The seeder leaves at most one story's order moving per component.
LEMMA InitFlight == Init => FlightInv
<1> SUFFICES ASSUME Init PROVE FlightInv
  OBVIOUS
<1>1. PICK stories \in SUBSET Person :
        /\ \A p, q \in stories : BaseOf[p] = BaseOf[q] => p = q
        /\ order = [o \in Owner |-> [n \in Cycle |->
                      IF o \in stories /\ n = 1 THEN "moving" ELSE "none"]]
  BY DEF Init
<1>2. OneInFlight
  BY <1>1 DEF OneInFlight
<1>3. NameClear
  BY DEF Init, NameClear
<1>4. QED
  BY <1>2, <1>3 DEF FlightInv

\* Without a play, every step.
LEMMA NextFlight ==
  ASSUME "play" \notin Env, TypeInv, FlightInv, [Next]_vars
  PROVE  FlightInv'
<1>1. CASE Start
  <2>1. at \in [Agent -> Call] /\ \A a \in Agent : at'[a] # "name"
    BY <1>1 DEF Start, TypeInv, LocalTypeOK, Serial
  <2>2. QED
    BY <1>1, <2>1, NamesNoneKeeps DEF NamesNone, Start, serverVars, orderVars
<1>2. CASE \E a \in Agent : Move(a)
  BY <1>2, MoveFlight
<1>3. CASE \E a \in Agent : CallFails(a) \/ AnswerLost(a)
  BY <1>3, FailureFlight
<1>4. CASE Crash
  BY <1>4, NamesNoneKeeps DEF NamesNone, Crash, serverVars, orderVars
<1>5. CASE People
  BY <1>5, PeopleFlight
<1>6. CASE UNCHANGED vars
  BY <1>6, NamesNoneKeeps DEF NamesNone, vars, serverVars, orderVars, runnerVars, localVars
<1>7. QED
  BY <1>1, <1>2, <1>3, <1>4, <1>5, <1>6 DEF Next

\* queue lists the change orders before startRollout names one, and the loop
\* serves one agent at a time: unless a play names orders of its own, no two
\* change orders of one component ever move at once, whatever dies or fails.
THEOREM OneChangeInFlight ==
  ASSUME "play" \notin Env
  PROVE  Spec => []OneInFlight
<1>1. TypeInv /\ FlightInv /\ [Next]_vars => FlightInv'
  BY NextFlight
<1>2. FlightInv => OneInFlight
  BY DEF FlightInv
<1>3. QED
  BY InitFlight, TypeInvAlways, <1>1, <1>2, PTL DEF Spec
-----------------------------------------------------------------------------
Undone(a, n) == a \in Rollout /\ changeSet[a][n] = "Closed" /\ order[a][n] = "none"

\* An agent of the component rolls its changes out.
RolledOut(a) == \E c \in Rollout : BaseOf[c] = BaseOf[a]

\* What agent a remembers of its change is so on the server; no earlier change
\* is open while it opens the next; an open or undone change is its last; and
\* change orders carry closed changes.
StandsRight(a) ==
  /\ up /\ phase[a] = "closing" => cur[a] \in Cycle /\ changeSet[a][cur[a]] = "Open"
  /\ up /\ phase[a] = "queued" =>
       cur[a] \in Cycle /\ changeSet[of[a]][cur[a]] = "Closed" /\ a \in Rollout
  /\ up => \A n \in Cycle : n > cycle[a] + 1 => changeSet[a][n] = "none"
  /\ up => \A n \in Cycle : Undone(a, n) => phase[a] = "queued" /\ of[a] = a /\ cur[a] = n
  /\ at[a] \in {"rule", "create", "enter", "discard"} =>
       cycle[a] < MaxCycle /\ \A n \in Cycle : changeSet[a][n] # "Open"
  /\ at[a] \in {"enter", "discard"} => changeSet[a][cycle[a] + 1] = "created"
  /\ \A n \in Cycle : changeSet[a][n] = "Open" \/ Undone(a, n) =>
       \A m \in Cycle : m > n => changeSet[a][m] = "none"
  /\ \A n \in Cycle : order[a][n] # "none" => changeSet[a][n] = "Closed" /\ RolledOut(a)

\* A change that is not its own an agent has from adopt, which gives it one only
\* if it has made none.
HoldsRight(a) ==
  /\ phase[a] \in {"idle", "closing"} => of[a] = a
  /\ of[a] # a =>
       /\ a \in Rollout /\ cycle[a] = 0 /\ \A n \in Cycle : changeSet[a][n] = "none"
       /\ changeSet[of[a]][cur[a]] = "Closed"

ChangeInv == \A a \in Agent : StandsRight(a) /\ HoldsRight(a)

\* A step that leaves an agent's change, and the agent, alone, but for another
\* agent that may name the order of a closed change.
LEMMA Untouched ==
  ASSUME NEW a \in Agent, StandsRight(a), changeSet'[a] = changeSet[a],
         \A n \in Cycle : order'[a][n] = "none" => order[a][n] = "none",
         \A n \in Cycle : order'[a][n] # "none" =>
           order[a][n] # "none" \/ (changeSet[a][n] = "Closed" /\ RolledOut(a)),
         phase[a] # "idle" /\ changeSet[of[a]][cur[a]] = "Closed" =>
           changeSet'[of[a]][cur[a]] = "Closed",
         up' = up, phase'[a] = phase[a], of'[a] = of[a], cur'[a] = cur[a], cycle'[a] = cycle[a],
         at'[a] = at[a] \/ at'[a] \notin {"rule", "create", "enter", "discard"}
  PROVE  StandsRight(a)'
BY DEF StandsRight, Undone, RolledOut

\* Which order an agent's naming makes: that of a closed change.
LEMMA NamesClosed ==
  ASSUME TypeInv, NEW c \in Agent, StandsRight(c), at[c] = "name", ServerCreateOrder(of[c], cur[c]),
         NEW a \in Agent
  PROVE  \A n \in Cycle :
           \/ order'[a][n] = order[a][n]
           \/ /\ order[a][n] = "none" /\ order'[a][n] = "moving" /\ of[c] = a /\ cur[c] = n
              /\ changeSet[a][n] = "Closed" /\ RolledOut(a)
<1>1. order \in [Owner -> [Cycle -> OrderState]] /\ a \in Owner /\ BaseOf[of[c]] = BaseOf[c]
  BY DEF TypeInv, ServerTypeOK, Carries, Owner
<1>2. changeSet[of[c]][cur[c]] = "Closed" /\ c \in Rollout
  BY DEF TypeInv, Serial, PhaseOf, StandsRight
<1>3. of[c] = a => RolledOut(a)
  BY <1>1, <1>2 DEF RolledOut
<1>4. QED
  BY <1>1, <1>2, <1>3 DEF ServerCreateOrder

\* A move is the agent's own affair, but for an order it names.
LEMMA MoveOthers ==
  ASSUME TypeInv, NEW c \in Agent, StandsRight(c), Move(c) \/ CallFails(c) \/ AnswerLost(c),
         NEW a \in Agent, a # c
  PROVE  /\ changeSet'[a] = changeSet[a] /\ up' = up
         /\ phase'[a] = phase[a] /\ of'[a] = of[a] /\ cur'[a] = cur[a] /\ cycle'[a] = cycle[a]
         /\ at'[a] = at[a]
         /\ \A n \in Cycle :
              \/ order'[a][n] = order[a][n]
              \/ /\ order[a][n] = "none" /\ order'[a][n] = "moving" /\ of[c] = a /\ cur[c] = n
                 /\ changeSet[a][n] = "Closed" /\ RolledOut(a)
<1>0. /\ changeSet \in [Owner -> [Cycle -> ChangeSetState]]
      /\ at \in [Agent -> Call] /\ phase \in [Agent -> Phase] /\ cur \in [Agent -> 0 .. MaxCycle]
      /\ of \in [Agent -> Owner] /\ cycle \in [Agent -> 0 .. MaxCycle] /\ a \in Owner
  BY DEF TypeInv, ServerTypeOK, LocalTypeOK, Owner
<1>1. CASE CheckHeld(c) \/ ReadRule(c) \/ CreateChangeSet(c) \/ EnterBase(c)
           \/ BaseTaken(c) \/ DiscardChangeSet(c) \/ RunStep(c)
  BY <1>0, <1>1
  DEF CheckHeld, ReadRule, CreateChangeSet, EnterBase, BaseTaken, DiscardChangeSet, RunStep, Goes,
      Then, ServerCreate, ServerSetState, ServerWrite, serverVars, changeSetVars, orderVars
<1>2. CASE CloseChangeSet(c) \/ CloseRefused(c) \/ AskReview(c) \/ ListOrders(c)
  BY <1>0, <1>2
  DEF CloseChangeSet, CloseRefused, AskReview, ListOrders, Goes, Then, ServerSetState,
      ServerAsk, serverVars, changeSetVars, orderVars
<1>3. CASE NameOrder(c)
  <2>1. CASE ServerCreateOrder(of[c], cur[c]) /\ phase' = [phase EXCEPT ![c] = "rolling"] /\ Then(c, "read")
    <3>1. /\ changeSet'[a] = changeSet[a] /\ up' = up /\ phase'[a] = phase[a] /\ of'[a] = of[a]
          /\ cur'[a] = cur[a] /\ cycle'[a] = cycle[a] /\ at'[a] = at[a] /\ at[c] = "name"
      BY <1>0, <1>3, <2>1 DEF NameOrder, Serving, Then, ServerCreateOrder, changeSetVars
    <3>2. QED
      BY <2>1, <3>1, NamesClosed
  <2>2. CASE Then(c, "rest") /\ UNCHANGED <<serverVars, phase>>
    BY <1>0, <1>3, <2>2 DEF NameOrder, Then, serverVars, changeSetVars, orderVars
  <2>3. QED
    BY <1>3, <2>1, <2>2 DEF NameOrder
<1>4. CASE RolloutComplete(c) \/ RolloutMoves(c) \/ ResolveStage(c) \/ PublishNext(c) \/ Promote(c)
  BY <1>0, <1>4
  DEF RolloutComplete, RolloutMoves, ResolveStage, PublishNext, Promote, Goes, Then, ServerPublish,
      ServerPromote, serverVars, changeSetVars, orderVars
<1>5. CASE CallFails(c) \/ AnswerLost(c)
  <2>1. /\ up' = up /\ phase'[a] = phase[a] /\ of'[a] = of[a] /\ cur'[a] = cur[a]
        /\ cycle'[a] = cycle[a] /\ at'[a] = at[a]
    BY <1>0, <1>5 DEF CallFails, AnswerLost, Then
  <2>2. CASE at[c] = "name" /\ ServerCreateOrder(of[c], cur[c])
    BY <2>1, <2>2, NamesClosed DEF ServerCreateOrder, changeSetVars
  <2>3. CASE UNCHANGED order /\ changeSet'[a] = changeSet[a]
    BY <2>1, <2>3
  <2>4. QED
    BY <1>0, <1>5, <2>2, <2>3
    DEF CallFails, AnswerLost, Serving, ServerCreate, ServerSetState, ServerWrite, ServerAsk,
        ServerPublish, ServerPromote, serverVars, changeSetVars, orderVars
<1>6. QED
  BY <1>1, <1>2, <1>3, <1>4, <1>5 DEF Move

\* A ChangeSet that is closed stays so: the runner discards only one it created
\* and could not open.
LEMMA ClosedStays ==
  ASSUME TypeInv, ChangeInv, [Next]_vars, NEW o \in Owner, NEW n \in Cycle, changeSet[o][n] = "Closed"
  PROVE  changeSet'[o][n] = "Closed"
<1>0. changeSet \in [Owner -> [Cycle -> ChangeSetState]]
  BY DEF TypeInv, ServerTypeOK
<1>1. CASE UNCHANGED changeSet
  BY <1>1
<1>2. ASSUME NEW a \in Agent, Move(a) \/ AnswerLost(a)
      PROVE  changeSet'[o][n] = "Closed"
  <2>1. ASSUME ServerCreate(a, NextCycle(a), sawRequired[a])
        PROVE  changeSet'[o][n] = "Closed"
    BY <1>0, <2>1 DEF ServerCreate, CanCreate
  <2>2. ASSUME CanOpen(a, NextCycle(a)), ServerSetState(a, NextCycle(a), "Open")
        PROVE  changeSet'[o][n] = "Closed"
    BY <1>0, <2>2 DEF CanOpen, ServerSetState
  <2>3. ASSUME DiscardChangeSet(a)
        PROVE  changeSet'[o][n] = "Closed"
    <3>1. changeSet[a][NextCycle(a)] = "created"
      BY <2>3 DEF ChangeInv, StandsRight, DiscardChangeSet, Serving, NextCycle
    <3>2. QED
      BY <1>0, <2>3, <3>1 DEF DiscardChangeSet, ServerSetState
  <2>4. ASSUME CloseChangeSet(a)
        PROVE  changeSet'[o][n] = "Closed"
    BY <1>0, <2>4 DEF CloseChangeSet, ServerSetState
  <2>5. QED
    BY <1>2, <2>1, <2>2, <2>3, <2>4
    DEF Move, AnswerLost, CheckHeld, ReadRule, CreateChangeSet, EnterBase, BaseTaken, RunStep, CloseRefused,
        AskReview, ListOrders, NameOrder, RolloutComplete, RolloutMoves, ResolveStage, PublishNext,
        Promote, Goes, ServerWrite, ServerAsk, ServerCreateOrder, ServerPublish, ServerPromote,
        serverVars, changeSetVars
<1>3. ASSUME NEW a \in Agent, CallFails(a)
      PROVE  changeSet'[o][n] = "Closed"
  BY <1>3 DEF CallFails, serverVars, changeSetVars
<1>4. CASE People
  <2>1. ASSUME NEW p \in Person, NEW m \in Cycle, PersonOpens(p, m) \/ PersonCloses(p, m)
        PROVE  changeSet'[o][n] = "Closed"
    BY <1>0, <2>1 DEF PersonOpens, PersonCloses, ServerSetState
  <2>2. QED
    BY <1>4, <2>1
    DEF People, Approve, PlayNamesOrder, PlayFinishes, AbortOrder, RuleArrives, PlainRelease, Observe,
        Incident, Heal, ServerCreateOrder, ServerPublishPlain, ServerReport, changeSetVars
<1>5. QED
  BY <1>1, <1>2, <1>3, <1>4 DEF Next, Start, Crash, vars, serverVars, changeSetVars

\* The moves that touch neither a ChangeSet's State nor an order's existence.
LEMMA QuietMove ==
  ASSUME TypeInv, NEW a \in Agent, StandsRight(a), UNCHANGED <<changeSet, order, up, phase, of, cur, cycle>>,
         at'[a] \notin {"rule", "create", "enter", "discard"}
  PROVE  StandsRight(a)'
BY Untouched

\* open.
LEMMA OpenRight ==
  ASSUME TypeInv, NEW a \in Agent, StandsRight(a),
         \/ CheckHeld(a) \/ ReadRule(a) \/ CreateChangeSet(a) \/ EnterBase(a)
         \/ BaseTaken(a) \/ DiscardChangeSet(a) \/ RunStep(a)
  PROVE  StandsRight(a)'
<1>0. /\ changeSet \in [Owner -> [Cycle -> ChangeSetState]] /\ order \in [Owner -> [Cycle -> OrderState]]
      /\ at \in [Agent -> Call] /\ phase \in [Agent -> Phase] /\ cur \in [Agent -> 0 .. MaxCycle]
      /\ cycle \in [Agent -> 0 .. MaxCycle] /\ a \in Owner /\ MaxCycle \in Nat
  BY DEF TypeInv, ServerTypeOK, LocalTypeOK, Owner
<1>s. /\ at[a] \in {"rule", "create", "enter", "discard"} => up /\ phase[a] = "idle" /\ cycle[a] + 1 \in Cycle
      /\ at[a] = "steps" => up /\ phase[a] = "closing"
  <2>1. at[a] # "rest" => up /\ phase[a] = PhaseOf(at[a])
    BY DEF TypeInv, Serial
  <2>2. at[a] \in {"rule", "create", "enter", "discard"} => cycle[a] < MaxCycle
    BY DEF TypeInv, Room
  <2>3. QED
    BY <1>0, <2>1, <2>2 DEF PhaseOf, Cycle
<1>1. CASE CheckHeld(a)
  <2>1. \A n \in Cycle : changeSet[a][n] # "Open"
    BY <1>0, <1>1 DEF CheckHeld, Holding
  <2>2. UNCHANGED <<changeSet, order, up, phase, of, cur, cycle>> /\ at'[a] = "rule" /\ cycle[a] < MaxCycle
    BY <1>0, <1>1 DEF CheckHeld, Goes, Then, serverVars, changeSetVars, orderVars
  <2>3. QED
    BY <2>1, <2>2 DEF StandsRight, Undone
<1>2. CASE ReadRule(a)
  <2>1. UNCHANGED <<changeSet, order, up, phase, of, cur, cycle>> /\ at'[a] \in {"rest", "create"} /\ at[a] = "rule"
    BY <1>0, <1>2 DEF ReadRule, Then, Serving, serverVars, changeSetVars, orderVars
  <2>2. QED
    BY <2>1 DEF StandsRight, Undone
<1>3. CASE CreateChangeSet(a)
  <2>1. CASE ServerCreate(a, cycle[a] + 1, sawRequired[a]) /\ Then(a, "enter")
    <3>1. /\ at[a] = "create" /\ at'[a] = "enter" /\ changeSet[a][cycle[a] + 1] = "none"
          /\ changeSet' = [changeSet EXCEPT ![a][cycle[a] + 1] = "created"]
          /\ UNCHANGED <<order, up, phase, cur, cycle>>
      BY <1>0, <1>3, <2>1 DEF CreateChangeSet, ServerCreate, CanCreate, Then, Serving, orderVars
    <3>2. changeSet'[a] = [changeSet[a] EXCEPT ![cycle[a] + 1] = "created"]
      BY <1>0, <3>1
    <3>3. \A n \in Cycle : ~Undone(a, n) /\ changeSet[a][n] # "Open"
      BY <1>s, <3>1 DEF StandsRight
    <3>4. \A n \in Cycle :
            changeSet'[a][n] = IF n = cycle[a] + 1 THEN "created" ELSE changeSet[a][n]
      BY <1>0, <3>2
    <3>5. \A n \in Cycle : ~Undone(a, n)' /\ changeSet'[a][n] # "Open"
      BY <3>1, <3>3, <3>4 DEF Undone
    <3>6. \A n \in Cycle : n > cycle[a] + 1 => changeSet'[a][n] = "none"
      BY <1>0, <1>s, <3>1, <3>4 DEF StandsRight, Cycle
    <3>7. \A n \in Cycle : order'[a][n] # "none" => changeSet'[a][n] = "Closed" /\ RolledOut(a)
      BY <3>1, <3>4 DEF StandsRight
    <3>8. /\ up' /\ phase'[a] = "idle" /\ cycle'[a] = cycle[a] /\ cycle'[a] < MaxCycle
          /\ at'[a] = "enter" /\ changeSet'[a][cycle[a] + 1] = "created"
      BY <1>0, <1>s, <3>1, <3>4 DEF Cycle
    <3>9. QED
      BY <3>5, <3>6, <3>7, <3>8 DEF StandsRight
  <2>2. CASE Then(a, "rest") /\ UNCHANGED serverVars
    <3>1. UNCHANGED <<changeSet, order, up, phase, of, cur, cycle>> /\ at'[a] = "rest"
      BY <1>0, <1>3, <2>2 DEF CreateChangeSet, Then, serverVars, changeSetVars, orderVars
    <3>2. QED
      BY <3>1, QuietMove
  <2>3. QED
    BY <1>3, <2>1, <2>2 DEF CreateChangeSet, NextCycle
<1>4. CASE EnterBase(a)
  <2>1. /\ at[a] = "enter" /\ at'[a] = "steps" /\ phase'[a] = "closing" /\ cur'[a] = cycle[a] + 1
        /\ cycle'[a] = cycle[a] + 1 /\ changeSet' = [changeSet EXCEPT ![a][cycle[a] + 1] = "Open"]
        /\ UNCHANGED <<order, up>>
    BY <1>0, <1>4 DEF EnterBase, ServerSetState, NextCycle, Then, Serving, orderVars
  <2>2. changeSet'[a] = [changeSet[a] EXCEPT ![cycle[a] + 1] = "Open"]
    BY <1>0, <2>1
  <2>3. \A n \in Cycle : ~Undone(a, n) /\ changeSet[a][n] # "Open"
    BY <1>s, <2>1 DEF StandsRight
  <2>4. \A n \in Cycle :
          changeSet'[a][n] = IF n = cycle[a] + 1 THEN "Open" ELSE changeSet[a][n]
    BY <1>0, <2>2
  <2>5. \A n \in Cycle : ~Undone(a, n)' /\ (changeSet'[a][n] = "Open" => n = cycle[a] + 1)
    BY <2>1, <2>3, <2>4 DEF Undone
  <2>6. \A n \in Cycle : n > cycle[a] + 1 => changeSet'[a][n] = "none"
    BY <1>0, <1>s, <2>1, <2>4 DEF StandsRight, Cycle
  <2>7. changeSet[a][cycle[a] + 1] = "created"
    BY <2>1 DEF StandsRight
  <2>8. \A n \in Cycle : order'[a][n] # "none" => changeSet'[a][n] = "Closed" /\ RolledOut(a)
    BY <2>1, <2>4, <2>7 DEF StandsRight
  <2>9. up' /\ cycle[a] + 1 \in Cycle /\ changeSet'[a][cycle[a] + 1] = "Open"
    BY <1>s, <2>1, <2>4
  <2>10. \A n \in Cycle : n > cycle'[a] + 1 => changeSet'[a][n] = "none"
    BY <1>0, <2>1, <2>6 DEF Cycle
  <2>11. QED
    BY <2>1, <2>5, <2>6, <2>8, <2>9, <2>10 DEF StandsRight
<1>5. CASE BaseTaken(a)
  <2>1. UNCHANGED <<changeSet, order, up, phase, of, cur, cycle>> /\ at[a] = "enter" /\ at'[a] = "discard"
    BY <1>0, <1>5 DEF BaseTaken, Goes, Then, Serving, serverVars, changeSetVars, orderVars
  <2>2. QED
    BY <2>1 DEF StandsRight, Undone
<1>6. CASE DiscardChangeSet(a)
  <2>1. /\ at[a] = "discard" /\ at'[a] = "rest" /\ UNCHANGED <<order, up, phase, cur, cycle>>
        /\ changeSet' = [changeSet EXCEPT ![a][cycle[a] + 1] = "none"]
    BY <1>0, <1>6 DEF DiscardChangeSet, ServerSetState, NextCycle, Then, Serving, orderVars
  <2>2. changeSet'[a] = [changeSet[a] EXCEPT ![cycle[a] + 1] = "none"]
    BY <1>0, <2>1
  <2>3. \A n \in Cycle :
          changeSet'[a][n] = IF n = cycle[a] + 1 THEN "none" ELSE changeSet[a][n]
    BY <1>0, <2>2
  <2>4. \A n \in Cycle : ~(changeSet[a][n] = "Open" \/ Undone(a, n))
    BY <1>s, <2>1 DEF StandsRight
  <2>5. \A n \in Cycle : ~(changeSet'[a][n] = "Open" \/ Undone(a, n)')
    BY <2>1, <2>3, <2>4 DEF Undone
  <2>6. changeSet[a][cycle[a] + 1] = "created"
    BY <2>1 DEF StandsRight
  <2>7. \A n \in Cycle : order'[a][n] # "none" => changeSet'[a][n] = "Closed" /\ RolledOut(a)
    BY <2>1, <2>3, <2>6 DEF StandsRight
  <2>8. \A n \in Cycle : n > cycle[a] + 1 => changeSet'[a][n] = "none"
    BY <1>s, <2>1, <2>3 DEF StandsRight
  <2>9. up' /\ phase'[a] = "idle"
    BY <1>s, <2>1
  <2>10. QED
    BY <2>1, <2>5, <2>7, <2>8, <2>9 DEF StandsRight
<1>7. CASE RunStep(a)
  <2>1. UNCHANGED <<changeSet, order, up, phase, of, cur, cycle>> /\ at'[a] \in {"steps", "close"}
    BY <1>0, <1>7 DEF RunStep, ServerWrite, Then, orderVars
  <2>2. QED
    BY <2>1, QuietMove
<1>8. QED
  BY <1>1, <1>2, <1>3, <1>4, <1>5, <1>6, <1>7
\* close, queue and startRollout.
LEMMA CloseRight ==
  ASSUME TypeInv, NEW a \in Agent, StandsRight(a), HoldsRight(a),
         \/ CloseChangeSet(a) \/ CloseRefused(a) \/ AskReview(a)
         \/ ListOrders(a) \/ NameOrder(a)
  PROVE  StandsRight(a)'
<1>0. /\ changeSet \in [Owner -> [Cycle -> ChangeSetState]] /\ order \in [Owner -> [Cycle -> OrderState]]
      /\ at \in [Agent -> Call] /\ phase \in [Agent -> Phase] /\ cur \in [Agent -> 0 .. MaxCycle]
      /\ cycle \in [Agent -> 0 .. MaxCycle] /\ a \in Owner /\ MaxCycle \in Nat
  BY DEF TypeInv, ServerTypeOK, LocalTypeOK, Owner
<1>s. at[a] # "rest" => up /\ phase[a] = PhaseOf(at[a])
  BY DEF TypeInv, Serial
<1>1. CASE CloseChangeSet(a)
  <2>1. up /\ phase[a] = "closing"
    BY <1>s, <1>1 DEF CloseChangeSet, Serving, Begins, PhaseOf
  <2>2. cur[a] \in Cycle /\ changeSet[a][cur[a]] = "Open"
    BY <2>1 DEF StandsRight
  <2>3. /\ changeSet' = [changeSet EXCEPT ![a][cur[a]] = "Closed"] /\ UNCHANGED <<order, up, cycle>>
        /\ of'[a] = a
        /\ IF a \in Rollout THEN phase'[a] = "queued" /\ cur'[a] = cur[a] /\ at'[a] = "orders"
                            ELSE phase'[a] = "idle" /\ at'[a] = "rest"
    BY <1>0, <1>1, <2>1 DEF CloseChangeSet, ServerSetState, Then, orderVars, HoldsRight
  <2>4. changeSet'[a] = [changeSet[a] EXCEPT ![cur[a]] = "Closed"]
    BY <1>0, <2>3
  <2>5. \A n \in Cycle : ~Undone(a, n)
    BY <2>1 DEF StandsRight
  <2>6. \A m \in Cycle : m > cur[a] => changeSet[a][m] = "none"
    BY <2>2 DEF StandsRight
  <2>7. order[a][cur[a]] = "none"
    BY <2>2 DEF StandsRight
  <2>8. \A n \in Cycle : changeSet'[a][n] = IF n = cur[a] THEN "Closed" ELSE changeSet[a][n]
    BY <1>0, <2>4
  <2>9. \A n \in Cycle : Undone(a, n)' => n = cur[a] /\ a \in Rollout
    BY <2>3, <2>5, <2>8 DEF Undone
  <2>10. ASSUME NEW n \in Cycle, changeSet[a][n] = "Open"
         PROVE  n = cur[a]
    <3>1. \A m \in Cycle : m > n => changeSet[a][m] = "none"
      BY <2>10 DEF StandsRight
    <3>2. QED
      BY <1>0, <2>2, <2>6, <2>10, <3>1 DEF Cycle
  <2>11. /\ phase'[a] # "closing" /\ at'[a] \notin {"rule", "create", "enter", "discard"}
         /\ phase'[a] = "queued" =>
              cur'[a] \in Cycle /\ changeSet'[of'[a]][cur'[a]] = "Closed" /\ a \in Rollout
    BY <2>2, <2>3, <2>8
  <2>12. \A n \in Cycle : n > cycle[a] + 1 => changeSet'[a][n] = "none"
    <3>1. \A n \in Cycle : n > cycle[a] + 1 => changeSet[a][n] = "none"
      BY <2>1 DEF StandsRight
    <3>2. \A n \in Cycle : n > cycle[a] + 1 => n # cur[a]
      BY <2>2, <3>1
    <3> QED BY <2>8, <3>1, <3>2
  <2>13. \A n \in Cycle : Undone(a, n)' => phase'[a] = "queued" /\ of'[a] = a /\ cur'[a] = n
    BY <2>3, <2>9
  <2>14. \A n \in Cycle : changeSet'[a][n] = "Open" \/ Undone(a, n)' =>
           \A m \in Cycle : m > n => changeSet'[a][m] = "none"
    <3> SUFFICES ASSUME NEW n \in Cycle, changeSet'[a][n] = "Open" \/ Undone(a, n)', NEW m \in Cycle, m > n
                 PROVE  changeSet'[a][m] = "none"
      OBVIOUS
    <3>1. n = cur[a]
      BY <2>8, <2>9, <2>10
    <3>2. m # cur[a]
      BY <3>1 DEF Cycle
    <3> QED BY <2>6, <2>8, <3>1, <3>2
  <2>15. \A n \in Cycle : order'[a][n] # "none" => changeSet'[a][n] = "Closed" /\ RolledOut(a)
    BY <2>3, <2>8 DEF StandsRight
  <2> QED BY <2>3, <2>11, <2>12, <2>13, <2>14, <2>15 DEF StandsRight
<1>2. CASE CloseRefused(a) \/ AskReview(a)
  <2>1. UNCHANGED <<changeSet, order, up, phase, of, cur, cycle>> /\ at'[a] \in {"ask", "rest"}
    BY <1>0, <1>2
    DEF CloseRefused, AskReview, ServerAsk, Goes, Then, serverVars, changeSetVars, orderVars
  <2>2. QED
    BY <2>1, QuietMove
<1>3. CASE ListOrders(a)
  <2>1. UNCHANGED <<changeSet, order, up, phase, of, cur, cycle>> /\ at'[a] \in {"name", "rest"}
    BY <1>0, <1>3 DEF ListOrders, Goes, Then, serverVars, changeSetVars, orderVars
  <2>2. QED
    BY <2>1, QuietMove
<1>4. CASE NameOrder(a)
  <2>1. CASE ServerCreateOrder(of[a], cur[a]) /\ phase' = [phase EXCEPT ![a] = "rolling"] /\ Then(a, "read")
    <3>1. up /\ phase[a] = "queued" /\ at[a] = "name"
      BY <1>s, <1>4 DEF NameOrder, Serving, PhaseOf
    <3>2. phase'[a] = "rolling" /\ at'[a] = "read" /\ UNCHANGED <<changeSet, up, of, cur, cycle>>
      BY <1>0, <1>4, <2>1 DEF NameOrder, ServerCreateOrder, Then, changeSetVars
    <3>3. \A n \in Cycle :
            /\ order[a][n] # "none" => order'[a][n] # "none"
            /\ order'[a][n] # "none" => changeSet[a][n] = "Closed" /\ RolledOut(a)
      BY <2>1, <3>1, NamesClosed DEF StandsRight
    <3>4. of[a] = a => order'[a][cur[a]] # "none"
      BY <1>0, <2>1, <3>1 DEF ServerCreateOrder, StandsRight
    <3>5. \A n \in Cycle : ~Undone(a, n)'
      BY <3>1, <3>2, <3>3, <3>4 DEF StandsRight, Undone
    <3>6. QED
      BY <1>0, <3>1, <3>2, <3>3, <3>5 DEF StandsRight
  <2>2. CASE Then(a, "rest") /\ UNCHANGED <<serverVars, phase>>
    <3>1. UNCHANGED <<changeSet, order, up, phase, of, cur, cycle>> /\ at'[a] = "rest"
      BY <1>0, <1>4, <2>2 DEF NameOrder, Then, serverVars, changeSetVars, orderVars
    <3>2. QED
      BY <3>1, QuietMove
  <2>3. QED
    BY <1>4, <2>1, <2>2 DEF NameOrder
<1>5. QED
  BY <1>1, <1>2, <1>3, <1>4

\* roll.
LEMMA RollRight ==
  ASSUME TypeInv, NEW a \in Agent, StandsRight(a),
         \/ RolloutComplete(a) \/ RolloutMoves(a) \/ ResolveStage(a) \/ PublishNext(a) \/ Promote(a)
  PROVE  StandsRight(a)'
<1>0. at \in [Agent -> Call] /\ phase \in [Agent -> Phase]
  BY DEF TypeInv, LocalTypeOK
<1>1. CASE RolloutComplete(a)
  <2>1. up /\ phase[a] = "rolling"
    BY <1>1 DEF RolloutComplete, Serving, Begins, TypeInv, Serial, PhaseOf
  <2>2. UNCHANGED <<changeSet, order, up, cycle>> /\ phase'[a] = "idle" /\ at'[a] = "rest"
    BY <1>0, <1>1 DEF RolloutComplete, Then, serverVars, changeSetVars, orderVars
  <2>3. QED
    BY <2>1, <2>2 DEF StandsRight, Undone
<1>2. CASE RolloutMoves(a) \/ ResolveStage(a) \/ PublishNext(a) \/ Promote(a)
  <2>1. /\ UNCHANGED <<changeSet, order, up, phase, of, cur, cycle>>
        /\ at'[a] \in {"promote", "spaces", "publish", "rest"}
    BY <1>0, <1>2
    DEF RolloutMoves, ResolveStage, PublishNext, Promote, Goes, Then, ServerPublish, ServerPromote,
        serverVars, changeSetVars, orderVars
  <2>2. QED
    BY <2>1, QuietMove
<1>3. QED
  BY <1>1, <1>2

\* A failed call, or one whose answer is lost.
LEMMA FailureRight ==
  ASSUME TypeInv, NEW a \in Agent, StandsRight(a), CallFails(a) \/ AnswerLost(a)
  PROVE  StandsRight(a)'
<1>0. /\ changeSet \in [Owner -> [Cycle -> ChangeSetState]] /\ order \in [Owner -> [Cycle -> OrderState]]
      /\ at \in [Agent -> Call] /\ cycle \in [Agent -> 0 .. MaxCycle] /\ a \in Owner /\ MaxCycle \in Nat
  BY DEF TypeInv, ServerTypeOK, LocalTypeOK, Owner
<1>1. UNCHANGED <<up, phase, of, cur, cycle>> /\ at'[a] = "rest"
  BY <1>0 DEF CallFails, AnswerLost, Then
<1>s. /\ at[a] # "rest" => up /\ phase[a] = PhaseOf(at[a])
      /\ at[a] \in {"create", "enter"} => cycle[a] + 1 \in Cycle
  BY <1>0 DEF TypeInv, Serial, Room, Cycle
<1>2. CASE UNCHANGED <<changeSet, order>>
  BY <1>1, <1>2, QuietMove
<1>3. CASE at[a] = "create" /\ ServerCreate(a, NextCycle(a), sawRequired[a])
  <2>1. /\ changeSet[a][cycle[a] + 1] = "none" /\ UNCHANGED order
        /\ changeSet'[a] = [changeSet[a] EXCEPT ![cycle[a] + 1] = "created"]
    BY <1>0, <1>3 DEF ServerCreate, CanCreate, NextCycle, orderVars
  <2>2. \A n \in Cycle : ~Undone(a, n) /\ changeSet[a][n] # "Open"
    BY <1>s, <1>3 DEF StandsRight, PhaseOf
  <2>3. QED
    BY <1>0, <1>1, <1>s, <1>3, <2>1, <2>2 DEF StandsRight, Undone, PhaseOf, Cycle
<1>4. CASE at[a] = "enter" /\ ServerSetState(a, NextCycle(a), "Open")
  <2>1. UNCHANGED order /\ changeSet'[a] = [changeSet[a] EXCEPT ![cycle[a] + 1] = "Open"]
    BY <1>0, <1>4 DEF ServerSetState, NextCycle, orderVars
  <2>2. \A n \in Cycle : ~Undone(a, n) /\ changeSet[a][n] # "Open"
    BY <1>s, <1>4 DEF StandsRight, PhaseOf
  <2>3. QED
    BY <1>0, <1>1, <1>s, <1>4, <2>1, <2>2 DEF StandsRight, Undone, PhaseOf, Cycle
<1>5. CASE at[a] = "name" /\ ServerCreateOrder(of[a], cur[a])
  <2>1. UNCHANGED changeSet
    BY <1>5 DEF ServerCreateOrder, changeSetVars
  <2>2. \A n \in Cycle :
          /\ order[a][n] # "none" => order'[a][n] # "none"
          /\ order'[a][n] # "none" => order[a][n] # "none" \/ (changeSet[a][n] = "Closed" /\ RolledOut(a))
    BY <1>5, NamesClosed
  <2>3. QED
    BY <1>1, <2>1, <2>2, Untouched
<1>6. QED
  BY <1>2, <1>3, <1>4, <1>5
  DEF CallFails, AnswerLost, Serving, ServerWrite, ServerAsk, ServerPromote, ServerPublish,
      serverVars, changeSetVars, orderVars
\* adopt finds an undone change: it is the last of its agent.
LEMMA UndoneIsFound ==
  ASSUME TypeInv, NEW a \in Agent, StandsRight(a), NEW n \in Cycle, Undone(a, n)
  PROVE  Standing(a) = {Holds("queued", a, n)}
<1>1. /\ changeSet[a] \in [Cycle -> ChangeSetState] /\ MaxCycle \in Nat /\ n \in 1 .. MaxCycle
      /\ a \in Rollout /\ changeSet[a][n] = "Closed" /\ order[a][n] = "none"
  BY DEF TypeInv, ServerTypeOK, Owner, Undone, Cycle
<1>2. \A m \in Cycle : m > n => changeSet[a][m] = "none"
  BY DEF StandsRight
<1>3. OpenOf(a) = {}
  <2>1. ASSUME NEW m \in Cycle, changeSet[a][m] = "Open"
        PROVE  FALSE
    <3>1. \A k \in Cycle : k > m => changeSet[a][k] = "none"
      BY <2>1 DEF StandsRight
    <3>2. m = n
      BY <1>1, <1>2, <2>1, <3>1 DEF Cycle
    <3>3. QED
      BY <1>1, <2>1, <3>2
  <2>2. QED
    BY <2>1 DEF OpenOf
<1>4. Ordered(a) \subseteq Named(a)
  BY DEF Ordered, Named, StandsRight
<1>5. n \in Named(a) /\ \A m \in Named(a) : m <= n
  BY <1>1, <1>2 DEF Named, Cycle
<1>6. Highest(Named(a)) = n
  <2>1. Highest(Named(a)) \in Named(a) /\ n <= Highest(Named(a))
    BY <1>5, CycleSets, HighestOf
  <2>2. QED
    BY <1>1, <1>5, <2>1, CycleSets
<1>7. LastCycle(a) = n
  <2>1. Named(a) \union Ordered(a) = Named(a)
    BY <1>4
  <2>2. QED
    BY <1>3, <1>6, <2>1 DEF LastCycle
<1>8. ~(Moving(a) # {} /\ Highest(Moving(a)) = LastCycle(a))
  <2>1. n \notin Moving(a)
    BY <1>1 DEF Moving
  <2>2. Moving(a) # {} => Highest(Moving(a)) \in Moving(a)
    BY CycleSets, HighestOf
  <2>3. QED
    BY <1>7, <2>1, <2>2
<1>9. Unnamed(a) = {<<a, n>>}
  <2>1. <<a, n>> \in LatestClosed(a)
    BY <1>1, <1>6 DEF LatestClosed, CycleOf, Owner, Cycle
  <2>2. ASSUME NEW c \in LatestClosed(a)
        PROVE  c = <<a, n>>
    BY <1>5, <1>6, <2>2, LatestOf
  <2>3. n \notin Ordered(a)
    BY <1>1 DEF Ordered
  <2>4. QED
    BY <2>1, <2>2, <2>3 DEF Unnamed
<1>10. {Holds("queued", c[1], c[2]) : c \in Unnamed(a)} = {Holds("queued", a, n)}
  BY <1>9
<1>11. QED
  BY <1>1, <1>3, <1>8, <1>9, <1>10 DEF Standing

\* init and adopt put every agent right from the org alone.
LEMMA StartRight ==
  ASSUME TypeInv, NEW a \in Agent, StandsRight(a), Start
  PROVE  StandsRight(a)'
<1>1. UNCHANGED <<changeSet, order, at>> /\ cycle'[a] = LastCycle(a) /\ at[a] = "rest"
  BY DEF Start, serverVars, changeSetVars, orderVars, TypeInv, Serial, LocalTypeOK
<1>2. /\ phase'[a] = "closing" => cur'[a] \in Cycle /\ changeSet[a][cur'[a]] = "Open"
      /\ phase'[a] = "queued" =>
           cur'[a] \in Cycle /\ changeSet[of'[a]][cur'[a]] = "Closed" /\ a \in Rollout
  BY StartStands DEF StandsWell, Holds, OpenOf
<1>3. ASSUME NEW n \in Cycle, n > LastCycle(a) + 1
      PROVE  changeSet[a][n] = "none"
  <2>1. Named(a) # {} => \A m \in Named(a) : m <= Highest(Named(a))
    BY CycleSets, HighestOf
  <2>2. Named(a) \union Ordered(a) # {} =>
          \A m \in Named(a) \union Ordered(a) : m <= Highest(Named(a) \union Ordered(a))
    BY CycleSets, HighestOf
  <2>3. \A m \in Named(a) : m <= LastCycle(a)
    BY <2>1, <2>2 DEF LastCycle
  <2>4. n \notin Named(a)
    BY <1>3, <2>3, StandingOf DEF Cycle
  <2>5. QED
    BY <2>4 DEF Named
<1>4. \A n \in Cycle : Undone(a, n) => phase'[a] = "queued" /\ of'[a] = a /\ cur'[a] = n
  <2> SUFFICES ASSUME NEW n \in Cycle, Undone(a, n)
               PROVE  phase'[a] = "queued" /\ of'[a] = a /\ cur'[a] = n
    OBVIOUS
  <2>1. Holds(phase'[a], of'[a], cur'[a]) = Holds("queued", a, n)
    BY StartStands, UndoneIsFound
  <2>2. QED
    BY <2>1 DEF Holds
<1>5. \A n \in Cycle : Undone(a, n)' <=> Undone(a, n)
  BY <1>1 DEF Undone
<1>6. QED
  BY <1>1, <1>2, <1>3, <1>4, <1>5 DEF StandsRight

\* What people and the delivery system do is no affair of an agent's change.
LEMMA PeopleRight ==
  ASSUME TypeInv, NEW a \in Agent, StandsRight(a), People,
         phase[a] # "idle" /\ changeSet[of[a]][cur[a]] = "Closed" =>
           changeSet'[of[a]][cur[a]] = "Closed"
  PROVE  StandsRight(a)' /\ changeSet'[a] = changeSet[a]
<1>0. /\ changeSet \in [Owner -> [Cycle -> ChangeSetState]] /\ order \in [Owner -> [Cycle -> OrderState]]
      /\ a \in Owner /\ a \notin Person
  BY DEF TypeInv, ServerTypeOK, Owner
<1>1. UNCHANGED <<at, up, phase, of, cur, cycle>>
  BY DEF People, Approve, PersonOpens, PersonCloses, PlayNamesOrder, PlayFinishes, AbortOrder,
         RuleArrives, PlainRelease, Observe, Incident, Heal, runnerVars, localVars
<1>2. ASSUME NEW p \in Person, NEW n \in Cycle,
             PersonOpens(p, n) \/ PersonCloses(p, n) \/ PlayNamesOrder(p, n) \/ PlayFinishes(p, n)
      PROVE  changeSet'[a] = changeSet[a] /\ order'[a] = order[a]
  BY <1>0, <1>2
  DEF PersonOpens, PersonCloses, PlayNamesOrder, PlayFinishes, ServerSetState, ServerCreateOrder,
      changeSetVars, orderVars
<1>3. ASSUME NEW o \in Owner, NEW n \in Cycle, AbortOrder(o, n)
      PROVE  /\ changeSet'[a] = changeSet[a]
             /\ \A m \in Cycle : order'[a][m] = "none" <=> order[a][m] = "none"
  BY <1>0, <1>3 DEF AbortOrder, changeSetVars
<1>4. ASSUME NEW d \in Deployment, NEW h \in Health, ServerReport(d, h)
      PROVE  /\ changeSet'[a] = changeSet[a]
             /\ \A m \in Cycle : order'[a][m] = "none" <=> order[a][m] = "none"
  BY <1>0, <1>4 DEF ServerReport, Finished, changeSetVars
<1>5. /\ changeSet'[a] = changeSet[a]
      /\ \A m \in Cycle : order'[a][m] = "none" <=> order[a][m] = "none"
  <2>1. CASE UNCHANGED <<changeSet, order>>
    BY <2>1
  <2>2. QED
    BY <1>2, <1>3, <1>4, <2>1
    DEF People, Approve, RuleArrives, PlainRelease, ServerPublishPlain, Observe, Incident, Heal,
        Health, changeSetVars, orderVars
<1>6. QED
  BY <1>1, <1>5, Untouched

\* What agents hold that is not theirs they keep as it is until it is out.
LEMMA ForeignMove ==
  ASSUME TypeInv, NEW a \in Agent, HoldsRight(a), of[a] # a, of'[a] # a,
         Move(a) \/ CallFails(a) \/ AnswerLost(a)
  PROVE  /\ UNCHANGED <<changeSet, of, cur, cycle>> /\ phase'[a] \notin {"idle", "closing"}
<1>0. phase \in [Agent -> Phase] /\ of \in [Agent -> Owner]
  BY DEF TypeInv, LocalTypeOK
<1>1. phase[a] \in {"queued", "rolling"}
  BY <1>0 DEF HoldsRight, Phase
<1>2. at[a] \in {"rest", "orders", "name", "read", "spaces", "publish", "promote"}
  BY <1>1 DEF TypeInv, LocalTypeOK, Serial, PhaseOf, Call
<1>3. CASE ListOrders(a) \/ NameOrder(a) \/ RolloutMoves(a) \/ ResolveStage(a) \/ PublishNext(a) \/ Promote(a)
  BY <1>0, <1>1, <1>3
  DEF ListOrders, NameOrder, RolloutMoves, ResolveStage, PublishNext, Promote, Goes, ServerCreateOrder,
      ServerPublish, ServerPromote, serverVars, changeSetVars
<1>4. CASE CallFails(a) \/ AnswerLost(a)
  BY <1>1, <1>2, <1>4
  DEF CallFails, AnswerLost, Serving, ServerCreateOrder, ServerPublish, ServerPromote, serverVars,
      changeSetVars
<1>5. ~RolloutComplete(a)
  BY <1>0 DEF RolloutComplete
<1>6. QED
  BY <1>1, <1>2, <1>3, <1>4, <1>5
  DEF Move, CheckHeld, ReadRule, CreateChangeSet, EnterBase, BaseTaken, DiscardChangeSet, RunStep,
      CloseChangeSet, CloseRefused, AskReview, Begins, Serving

LEMMA HoldsKept ==
  ASSUME TypeInv, ChangeInv, [Next]_vars, NEW a \in Agent
  PROVE  HoldsRight(a)'
<1>0. of \in [Agent -> Owner] /\ StandsRight(a) /\ HoldsRight(a)
  BY DEF ChangeInv, TypeInv, LocalTypeOK
<1>1. CASE of'[a] = a
  BY <1>1 DEF HoldsRight
<1>2. CASE of'[a] # a /\ Start
  <2>1. /\ phase'[a] = "queued" /\ Named(a) = {} /\ a \in Rollout
        /\ changeSet[of'[a]][cur'[a]] = "Closed"
    BY <1>2, StartStands DEF StandsWell, Holds
  <2>2. UNCHANGED changeSet /\ cycle'[a] = LastCycle(a)
    BY <1>2 DEF Start, serverVars, changeSetVars
  <2>3. \A n \in Cycle : changeSet[a][n] = "none"
    BY <2>1 DEF Named
  <2>4. Ordered(a) = {} /\ OpenOf(a) = {}
    BY <1>0, <2>3 DEF StandsRight, Ordered, OpenOf
  <2>5. LastCycle(a) = 0
    BY <2>1, <2>4 DEF LastCycle, Highest
  <2>6. QED
    BY <2>1, <2>2, <2>3, <2>5 DEF HoldsRight
<1>3. ASSUME of'[a] # a, of'[a] = of[a], cur'[a] = cur[a], cycle'[a] = cycle[a],
             changeSet'[a] = changeSet[a], phase'[a] \notin {"idle", "closing"}
      PROVE  HoldsRight(a)'
  <2>1. of[a] \in Owner /\ cur[a] \in Cycle
    BY <1>0, <1>3 DEF TypeInv, Carries, HoldsRight
  <2>2. changeSet'[of[a]][cur[a]] = "Closed"
    BY <1>0, <1>3, <2>1, ClosedStays DEF HoldsRight
  <2>3. QED
    BY <1>0, <1>3, <2>2 DEF HoldsRight
<1>4. ASSUME of'[a] # a, NEW c \in Agent, Move(c) \/ CallFails(c) \/ AnswerLost(c)
      PROVE  HoldsRight(a)'
  <2>1. CASE c # a
    <3>1. StandsRight(c)
      BY DEF ChangeInv
    <3>2. /\ changeSet'[a] = changeSet[a] /\ phase'[a] = phase[a] /\ of'[a] = of[a]
          /\ cur'[a] = cur[a] /\ cycle'[a] = cycle[a]
      BY <1>4, <2>1, <3>1, MoveOthers
    <3>3. phase[a] \notin {"idle", "closing"}
      BY <1>0, <1>4, <3>2 DEF HoldsRight
    <3>4. QED
      BY <1>3, <1>4, <3>2, <3>3
  <2>2. CASE c = a /\ of[a] # a
    BY <1>0, <1>3, <1>4, <2>2, ForeignMove
  <2>3. CASE c = a /\ of[a] = a
    <3>1. of'[a] = a
      BY <1>0, <1>4, <2>3
      DEF Move, CallFails, AnswerLost, CheckHeld, ReadRule, CreateChangeSet, EnterBase, BaseTaken,
          DiscardChangeSet, RunStep, CloseChangeSet, CloseRefused, AskReview, ListOrders, NameOrder,
          RolloutComplete, RolloutMoves, ResolveStage, PublishNext, Promote, Goes
    <3>2. QED
      BY <1>4, <3>1
  <2>4. QED
    BY <2>1, <2>2, <2>3
<1>5. CASE of'[a] # a /\ Crash
  BY <1>5 DEF Crash
<1>6. CASE of'[a] # a /\ (People \/ UNCHANGED vars)
  <2>1. /\ phase'[a] = phase[a] /\ of'[a] = of[a] /\ cur'[a] = cur[a] /\ cycle'[a] = cycle[a]
    BY <1>6
    DEF People, Approve, PersonOpens, PersonCloses, PlayNamesOrder, PlayFinishes, AbortOrder,
        RuleArrives, PlainRelease, Observe, Incident, Heal, vars, runnerVars, localVars
  <2>2. phase[a] # "idle" /\ changeSet[of[a]][cur[a]] = "Closed" =>
          changeSet'[of[a]][cur[a]] = "Closed"
    BY <1>0, ClosedStays DEF TypeInv, Carries
  <2>3. changeSet'[a] = changeSet[a]
    BY <1>0, <1>6, <2>2, PeopleRight DEF vars, serverVars, changeSetVars
  <2>4. phase[a] \notin {"idle", "closing"}
    BY <1>0, <1>6, <2>1 DEF HoldsRight
  <2>5. QED
    BY <1>3, <1>6, <2>1, <2>3, <2>4
<1>7. QED
  BY <1>1, <1>2, <1>4, <1>5, <1>6 DEF Next

\* Every step.
LEMMA NextRight ==
  ASSUME TypeInv, ChangeInv, [Next]_vars
  PROVE  ChangeInv'
<1> SUFFICES ASSUME NEW a \in Agent
             PROVE  StandsRight(a)'
  BY HoldsKept DEF ChangeInv
<1>0. StandsRight(a) /\ HoldsRight(a)
  BY DEF ChangeInv
<1>c. phase[a] # "idle" /\ changeSet[of[a]][cur[a]] = "Closed" => changeSet'[of[a]][cur[a]] = "Closed"
  BY ClosedStays DEF TypeInv, LocalTypeOK, Carries
<1>1. CASE Start
  BY <1>0, <1>1, StartRight
<1>2. ASSUME NEW c \in Agent, Move(c) \/ CallFails(c) \/ AnswerLost(c)
      PROVE  StandsRight(a)'
  <2>1. CASE c = a
    BY <1>0, <1>2, <2>1, OpenRight, CloseRight, RollRight, FailureRight DEF Move
  <2>2. CASE c # a
    <3>1. StandsRight(c)
      BY DEF ChangeInv
    <3>2. QED
      BY <1>0, <1>2, <1>c, <2>2, <3>1, MoveOthers, Untouched
  <2>3. QED
    BY <2>1, <2>2
<1>3. CASE Crash
  <2>1. UNCHANGED <<changeSet, order>> /\ up' = FALSE /\ at'[a] = "rest"
    BY <1>3 DEF Crash, serverVars, changeSetVars, orderVars
  <2>2. QED
    BY <1>0, <2>1 DEF StandsRight, Undone, RolledOut
<1>4. CASE People
  BY <1>0, <1>4, <1>c, PeopleRight
<1>5. CASE UNCHANGED vars
  BY <1>0, <1>5, Untouched DEF vars, serverVars, changeSetVars, orderVars, runnerVars, localVars
<1>6. QED
  BY <1>1, <1>2, <1>3, <1>4, <1>5 DEF Next

\* A seeded org has no agent's changes.
LEMMA InitRight == Init => ChangeInv
<1> SUFFICES ASSUME Init, NEW a \in Agent PROVE StandsRight(a) /\ HoldsRight(a)
  BY DEF ChangeInv
<1>1. PICK stories \in SUBSET Person :
        order = [o \in Owner |-> [n \in Cycle |->
                  IF o \in stories /\ n = 1 THEN "moving" ELSE "none"]]
  BY DEF Init
<1>2. a \in Owner /\ a \notin Person
  BY DEF Owner
<1>3. \A n \in Cycle : changeSet[a][n] = "none" /\ order[a][n] = "none"
  BY <1>1, <1>2 DEF Init
<1>4. up = FALSE /\ at[a] = "rest" /\ of[a] = a
  BY DEF Init
<1>5. QED
  BY <1>3, <1>4 DEF StandsRight, HoldsRight, Undone

\* adopt finds every closed change of a rollout agent that no order names yet, so
\* none is dropped, wherever the runner was ended and whatever failed.
THEOREM ChangesKept == Spec => []NoChangeDropped
<1>1. TypeInv /\ ChangeInv => NoChangeDropped
  <2> SUFFICES ASSUME TypeInv, ChangeInv, NEW a \in Rollout, NEW n \in Cycle,
                      changeSet[a][n] = "Closed", order[a][n] = "none"
               PROVE  Standing(a) = {Holds("queued", a, n)}
    BY DEF NoChangeDropped
  <2>1. a \in Agent /\ StandsRight(a) /\ Undone(a, n)
    BY DEF ChangeInv, Undone
  <2>2. QED
    BY <2>1, UndoneIsFound
<1>2. TypeInv /\ ChangeInv /\ [Next]_vars => ChangeInv'
  BY NextRight
<1>3. QED
  BY InitRight, TypeInvAlways, <1>1, <1>2, PTL DEF Spec
-----------------------------------------------------------------------------
\* A review is asked of an open change only, once, and the agent whose change is
\* open knows of it.
AskedRight(a) ==
  /\ \A n \in Cycle : requests[a][n] <= 1
  /\ \A n \in Cycle : requests[a][n] > 0 => changeSet[a][n] \in {"Open", "Closed"}
  /\ \A n \in Cycle : up /\ changeSet[a][n] = "Open" /\ requests[a][n] > 0 => reviewRequested[a]
  /\ at[a] = "ask" => ~reviewRequested[a]

AskedInv == \A a \in Agent : AskedRight(a)

\* A step that asks for nothing and changes no open change.
LEMMA AskedUntouched ==
  ASSUME NEW a \in Agent, AskedRight(a), requests'[a] = requests[a],
         \A n \in Cycle : changeSet'[a][n] = "Open" => changeSet[a][n] = "Open",
         \A n \in Cycle : changeSet[a][n] \in {"Open", "Closed"} => changeSet'[a][n] \in {"Open", "Closed"},
         up' => up /\ reviewRequested'[a] = reviewRequested[a],
         at'[a] = "ask" => up' /\ ~reviewRequested'[a]
  PROVE  AskedRight(a)'
BY DEF AskedRight

\* A move of another agent.
LEMMA AskedOthers ==
  ASSUME TypeInv, NEW c \in Agent, Move(c) \/ CallFails(c), NEW a \in Agent, a # c
  PROVE  requests'[a] = requests[a] /\ reviewRequested'[a] = reviewRequested[a]
<1>0. /\ requests \in [Owner -> [Cycle -> Nat]] /\ reviewRequested \in [Agent -> BOOLEAN] /\ a \in Owner
  BY DEF TypeInv, ServerTypeOK, LocalTypeOK, Owner
<1>1. CASE CheckHeld(c) \/ ReadRule(c) \/ CreateChangeSet(c) \/ EnterBase(c)
           \/ BaseTaken(c) \/ DiscardChangeSet(c) \/ RunStep(c)
  BY <1>0, <1>1
  DEF CheckHeld, ReadRule, CreateChangeSet, EnterBase, BaseTaken, DiscardChangeSet, RunStep, Goes,
      ServerCreate, ServerSetState, ServerWrite, serverVars, changeSetVars
<1>2. CASE CloseChangeSet(c) \/ CloseRefused(c) \/ AskReview(c) \/ ListOrders(c) \/ NameOrder(c)
  BY <1>0, <1>2
  DEF CloseChangeSet, CloseRefused, AskReview, ListOrders, NameOrder, Goes, ServerSetState,
      ServerAsk, ServerCreateOrder, serverVars, changeSetVars
<1>3. CASE RolloutComplete(c) \/ RolloutMoves(c) \/ ResolveStage(c) \/ PublishNext(c) \/ Promote(c)
           \/ CallFails(c)
  BY <1>0, <1>3
  DEF RolloutComplete, RolloutMoves, ResolveStage, PublishNext, Promote, CallFails, Goes, ServerPublish,
      ServerPromote, serverVars, changeSetVars
<1> QED BY <1>1, <1>2, <1>3 DEF Move

\* A move of the agent's own.
LEMMA AskedMove ==
  ASSUME TypeInv, NEW a \in Agent, StandsRight(a), AskedRight(a), Move(a) \/ CallFails(a)
  PROVE  AskedRight(a)'
<1>0. /\ changeSet \in [Owner -> [Cycle -> ChangeSetState]] /\ requests \in [Owner -> [Cycle -> Nat]]
      /\ at \in [Agent -> Call] /\ cur \in [Agent -> 0 .. MaxCycle] /\ cycle \in [Agent -> 0 .. MaxCycle]
      /\ reviewRequested \in [Agent -> BOOLEAN] /\ a \in Owner
  BY DEF TypeInv, ServerTypeOK, LocalTypeOK, Owner
<1>s. /\ at[a] # "rest" => up /\ phase[a] = PhaseOf(at[a])
      /\ at[a] \in {"create", "enter", "discard"} => cycle[a] + 1 \in Cycle
  <2>1. at[a] \in {"create", "enter", "discard"} => cycle[a] < MaxCycle
    BY DEF TypeInv, Room
  <2> QED BY <1>0, <2>1, BoundsAssumption DEF TypeInv, Serial, Cycle
<1>1. CASE /\ \/ CheckHeld(a) \/ ReadRule(a) \/ BaseTaken(a) \/ RunStep(a) \/ ListOrders(a) \/ NameOrder(a)
              \/ RolloutComplete(a) \/ RolloutMoves(a) \/ ResolveStage(a) \/ PublishNext(a) \/ Promote(a)
              \/ CallFails(a)
  <2>1. UNCHANGED <<changeSet, requests, up, reviewRequested>>
    BY <1>1
    DEF CheckHeld, ReadRule, BaseTaken, RunStep, ListOrders, NameOrder, RolloutComplete, RolloutMoves,
        ResolveStage, PublishNext, Promote, CallFails, Goes, ServerWrite, ServerCreateOrder, ServerPublish,
        ServerPromote, serverVars, changeSetVars
  <2>2. at'[a] # "ask"
    BY <1>0, <1>1
    DEF CheckHeld, ReadRule, BaseTaken, RunStep, ListOrders, NameOrder, RolloutComplete, RolloutMoves,
        ResolveStage, PublishNext, Promote, CallFails, Goes, Then
  <2> QED BY <2>1, <2>2, AskedUntouched
<1>2. CASE CreateChangeSet(a)
  <2>1. at[a] = "create" /\ at'[a] # "ask" /\ UNCHANGED <<requests, up, reviewRequested>>
    BY <1>0, <1>2 DEF CreateChangeSet, ServerCreate, Serving, Then, serverVars, changeSetVars
  <2>2. \/ UNCHANGED changeSet
        \/ /\ changeSet[a][cycle[a] + 1] = "none"
           /\ \A n \in Cycle : changeSet'[a][n] = IF n = cycle[a] + 1 THEN "created" ELSE changeSet[a][n]
    BY <1>0, <1>s, <1>2, <2>1
    DEF CreateChangeSet, ServerCreate, CanCreate, NextCycle, serverVars, changeSetVars
  <2> QED BY <1>s, <2>1, <2>2, AskedUntouched
<1>3. CASE EnterBase(a)
  <2>1. /\ at[a] = "enter" /\ at'[a] = "steps" /\ UNCHANGED <<requests, up>>
        /\ \A n \in Cycle : changeSet'[a][n] = IF n = cycle[a] + 1 THEN "Open" ELSE changeSet[a][n]
    BY <1>0, <1>3 DEF EnterBase, ServerSetState, NextCycle, Serving, Then
  <2>2. changeSet[a][cycle[a] + 1] = "created" /\ \A n \in Cycle : changeSet[a][n] # "Open"
    BY <2>1 DEF StandsRight
  <2>3. ~(requests[a][cycle[a] + 1] > 0)
    BY <1>s, <2>1, <2>2 DEF AskedRight
  <2> QED BY <2>1, <2>2, <2>3 DEF AskedRight
<1>4. CASE DiscardChangeSet(a)
  <2>1. /\ at[a] = "discard" /\ at'[a] = "rest" /\ UNCHANGED <<requests, up, reviewRequested>>
        /\ \A n \in Cycle : changeSet'[a][n] = IF n = cycle[a] + 1 THEN "none" ELSE changeSet[a][n]
    BY <1>0, <1>4 DEF DiscardChangeSet, ServerSetState, NextCycle, Serving, Then
  <2>2. changeSet[a][cycle[a] + 1] = "created"
    BY <2>1 DEF StandsRight
  <2> QED BY <2>1, <2>2, AskedUntouched
<1>5. CASE CloseChangeSet(a)
  <2>1. /\ at'[a] # "ask" /\ UNCHANGED <<requests, up, reviewRequested>>
        /\ changeSet' = [changeSet EXCEPT ![a][cur[a]] = "Closed"]
    BY <1>0, <1>5 DEF CloseChangeSet, ServerSetState, Then
  <2>2. \A n \in Cycle : changeSet'[a][n] = IF n = cur[a] THEN "Closed" ELSE changeSet[a][n]
    BY <1>0, <2>1
  <2> QED BY <2>1, <2>2, AskedUntouched
<1>6. CASE CloseRefused(a)
  <2>1. UNCHANGED <<changeSet, requests, up, reviewRequested>> /\ up
    BY <1>6, <1>s DEF CloseRefused, Goes, serverVars, changeSetVars, Serving, Begins
  <2>2. at'[a] = "ask" => ~reviewRequested[a]
    BY <1>0, <1>6 DEF CloseRefused, Goes, Then
  <2> QED BY <2>1, <2>2, AskedUntouched
<1>7. CASE AskReview(a)
  <2>1. at[a] = "ask" /\ at'[a] = "rest" /\ UNCHANGED <<changeSet, up>> /\ reviewRequested'[a] = TRUE
    BY <1>0, <1>7 DEF AskReview, ServerAsk, Serving, Then
  <2>2. cur[a] \in Cycle /\ changeSet[a][cur[a]] = "Open" /\ up /\ ~reviewRequested[a]
    BY <1>s, <2>1 DEF StandsRight, AskedRight, PhaseOf
  <2>3. \A n \in Cycle : requests'[a][n] = IF n = cur[a] THEN requests[a][n] + 1 ELSE requests[a][n]
    BY <1>0, <1>7 DEF AskReview, ServerAsk
  <2>4. requests[a][cur[a]] = 0
    BY <1>0, <2>2 DEF AskedRight
  <2>5. \A n \in Cycle : requests'[a][n] <= 1
    BY <2>3, <2>4 DEF AskedRight
  <2>6. \A n \in Cycle : requests'[a][n] > 0 => changeSet[a][n] \in {"Open", "Closed"}
    BY <2>2, <2>3 DEF AskedRight
  <2> QED BY <2>1, <2>5, <2>6 DEF AskedRight
<1> QED BY <1>1, <1>2, <1>3, <1>4, <1>5, <1>6, <1>7 DEF Move

\* People ask for no review and have no part in an agent's ChangeSets' States.
LEMMA PeopleAsk ==
  ASSUME TypeInv, NEW a \in Agent, People
  PROVE  /\ changeSet'[a] = changeSet[a]
         /\ UNCHANGED <<requests, up, at, phase, of, cur, cycle, reviewRequested>>
<1>0. changeSet \in [Owner -> [Cycle -> ChangeSetState]] /\ a \in Owner /\ a \notin Person
  BY DEF TypeInv, ServerTypeOK, Owner
<1>1. UNCHANGED <<requests, up, at, phase, of, cur, cycle, reviewRequested>>
  BY DEF People, Approve, PersonOpens, PersonCloses, PlayNamesOrder, PlayFinishes, AbortOrder, RuleArrives,
         PlainRelease, Observe, Incident, Heal, ServerSetState, ServerCreateOrder, ServerPublishPlain,
         ServerReport, changeSetVars, runnerVars, localVars
<1>2. changeSet'[a] = changeSet[a]
  BY <1>0
  DEF People, Approve, PersonOpens, PersonCloses, PlayNamesOrder, PlayFinishes, AbortOrder, RuleArrives,
      PlainRelease, Observe, Incident, Heal, ServerSetState, ServerCreateOrder, ServerPublishPlain,
      ServerReport, changeSetVars
<1> QED BY <1>1, <1>2

\* Every step, as long as every answer arrives.
LEMMA NextAsked ==
  ASSUME "lost" \notin Env, TypeInv, ChangeInv, AskedInv, [Next]_vars
  PROVE  AskedInv'
<1> SUFFICES ASSUME NEW a \in Agent PROVE AskedRight(a)'
  BY DEF AskedInv
<1>0. StandsRight(a) /\ AskedRight(a) /\ (at[a] # "rest" => up)
  BY DEF ChangeInv, AskedInv, TypeInv, Serial
<1>1. CASE Start
  <2>1. UNCHANGED <<changeSet, requests>> /\ reviewRequested'[a] = AlreadyAsked(a) /\ at'[a] = "rest"
    BY <1>0, <1>1 DEF Start, serverVars, changeSetVars, TypeInv, Serial
  <2>2. \A n \in Cycle : changeSet[a][n] = "Open" /\ requests[a][n] > 0 => AlreadyAsked(a)
    BY DEF AlreadyAsked, OpenOf
  <2> QED BY <1>0, <2>1, <2>2 DEF AskedRight
<1>2. ASSUME NEW c \in Agent, Move(c) \/ CallFails(c)
      PROVE  AskedRight(a)'
  <2>1. CASE c = a
    BY <1>0, <1>2, <2>1, AskedMove
  <2>2. CASE c # a
    <3>1. changeSet'[a] = changeSet[a] /\ up' = up /\ at'[a] = at[a]
      BY <1>2, <2>2, MoveOthers DEF ChangeInv
    <3>2. requests'[a] = requests[a] /\ reviewRequested'[a] = reviewRequested[a]
      BY <1>2, <2>2, AskedOthers
    <3> QED BY <1>0, <3>1, <3>2, AskedUntouched DEF AskedRight
  <2> QED BY <2>1, <2>2
<1>3. CASE Crash
  <2>1. UNCHANGED <<changeSet, requests>> /\ up' = FALSE /\ at'[a] = "rest"
    BY <1>3 DEF Crash, serverVars, changeSetVars
  <2> QED BY <1>0, <2>1, AskedUntouched
<1>4. CASE People
  <2>1. changeSet'[a] = changeSet[a] /\ UNCHANGED <<requests, up, at, reviewRequested>>
    BY <1>4, PeopleAsk
  <2> QED BY <1>0, <2>1, AskedUntouched DEF AskedRight
<1>5. CASE UNCHANGED vars
  BY <1>0, <1>5, AskedUntouched DEF vars, serverVars, changeSetVars, runnerVars, localVars, AskedRight
<1> QED BY <1>1, <1>2, <1>3, <1>4, <1>5 DEF Next, AnswerLost, Happens

\* A seeded org has no request of an agent's.
LEMMA InitAsked == Init => AskedInv
<1> SUFFICES ASSUME Init, NEW a \in Agent PROVE AskedRight(a)
  BY DEF AskedInv
<1>1. \A n \in Cycle : requests[a][n] = 0
  BY DEF Init, Owner
<1>2. at[a] = "rest"
  BY DEF Init
<1> QED BY <1>1, <1>2 DEF AskedRight

\* close asks the reviewer once for a change, over restarts, failed calls and
\* refusals: adopt reads from the org that it was done. Where an answer is lost
\* the agent asks again.
THEOREM ReviewAskedOnce ==
  ASSUME "lost" \notin Env
  PROVE  Spec => []AskedOnce
<1>1. Init => AskedInv
  BY InitAsked
<1>2. TypeInv /\ ChangeInv /\ AskedInv /\ [Next]_vars => ChangeInv' /\ AskedInv'
  BY NextRight, NextAsked
<1>3. AskedInv => AskedOnce
  BY DEF AskedInv, AskedRight, AskedOnce
<1> QED BY <1>1, <1>2, <1>3, InitRight, TypeInvAlways, PTL DEF Spec

-----------------------------------------------------------------------------
(* Rollouts *)

USE DeploymentsAssumption

Released(a, n, d) == releases[a][n][d] > 0

\* What was released for an order is of its component and of a stage it has
\* entered; the stages behind it are released whole; and a completed order is
\* released in its last stage too.
RolledRight(a) ==
  /\ \A n \in Cycle : order[a][n] = "none" => stage[a][n] = 0
  /\ \A n \in Cycle, d \in Deployment : <<a, n, d>> \in pinned => Released(a, n, d)
  /\ \A n \in Cycle, d \in Deployment :
       Released(a, n, d) => DeployedFrom[d] = BaseOf[a] /\ StageOf[d] <= stage[a][n]
  /\ \A n \in Cycle, d \in Deployment :
       DeployedFrom[d] = BaseOf[a] /\ StageOf[d] < stage[a][n] => Released(a, n, d)
  /\ \A n \in Cycle : order[a][n] = "completed" =>
       /\ stage[a][n] = LastStage
       /\ \A d \in InStage(BaseOf[a], LastStage) : Released(a, n, d)

\* A move publishes in its own component. Of the stage of an agent's order a move
\* that publishes has but `todo` left, one that promotes nothing.
HandRight(a) ==
  /\ at[a] = "publish" => \A d \in todo[a] : DeployedFrom[d] = BaseOf[a]
  /\ of[a] \in Agent /\ at[a] = "publish" =>
       /\ todo[a] \subseteq InStage(BaseOf[a], stage[of[a]][cur[a]])
       /\ \A d \in InStage(BaseOf[a], stage[of[a]][cur[a]]) \ todo[a] : Released(of[a], cur[a], d)
  /\ of[a] \in Agent /\ at[a] = "promote" =>
       \A d \in InStage(BaseOf[a], stage[of[a]][cur[a]]) : Released(of[a], cur[a], d)

RolloutInv == \A a \in Agent : RolledRight(a) /\ HandRight(a)

\* The types an agent's rollout is of.
RolloutTypes ==
  /\ order \in [Owner -> [Cycle -> OrderState]] /\ stage \in [Owner -> [Cycle -> Stage]]
  /\ releases \in [Owner -> [Cycle -> [Deployment -> Nat]]]
  /\ at \in [Agent -> Call] /\ phase \in [Agent -> Phase] /\ cur \in [Agent -> 0 .. MaxCycle]
  /\ of \in [Agent -> Owner] /\ \A a \in Agent : BaseOf[of[a]] = BaseOf[a]
  /\ todo \in [Agent -> SUBSET Deployment] /\ pinned \subseteq Owner \X Cycle \X Deployment
  /\ \A a \in Agent : a \in Owner /\ a \notin Person /\ BaseOf[a] \in Base

LEMMA RolloutTyped ==
  ASSUME TypeInv
  PROVE  RolloutTypes
BY DEF TypeInv, ServerTypeOK, LocalTypeOK, RolloutTypes, Carries, Owner

LEMMA ReleasesCounted ==
  ASSUME RolloutTypes, NEW a \in Agent
  PROVE  \A n \in Cycle, e \in Deployment : releases[a][n][e] \in Nat
<1>1. a \in Owner /\ releases \in [Owner -> [Cycle -> [Deployment -> Nat]]]
  BY DEF RolloutTypes
<1>2. releases[a] \in [Cycle -> [Deployment -> Nat]]
  BY <1>1
<1> QED BY <1>2

\* Deployments are in stages from 2 on: an order in stage 0 has none to release.
LEMMA NoStageZero == \A d \in Deployment : StageOf[d] # 0 /\ ~(StageOf[d] < 0)
<1> SUFFICES ASSUME NEW d \in Deployment PROVE StageOf[d] # 0 /\ ~(StageOf[d] < 0)
  OBVIOUS
<1>1. StageOf[d] \in 2 .. LastStage
  OBVIOUS
<1> QED BY <1>1

\* Where the runner is in a rollout, it is at a change.
LEMMA RollsOne ==
  ASSUME TypeInv, NEW a \in Agent, at[a] \in {"read", "spaces", "publish", "promote", "name"}
  PROVE  cur[a] \in Cycle
BY DEF TypeInv, Serial, PhaseOf, Carries

\* While one agent moves the others rest.
LEMMA OthersRest ==
  ASSUME TypeInv, NEW c \in Agent, Move(c) \/ CallFails(c) \/ AnswerLost(c), NEW a \in Agent, a # c
  PROVE  at[a] = "rest"
<1>1. at[c] # "rest" \/ Resting
  BY DEF Move, CheckHeld, ReadRule, CreateChangeSet, EnterBase, BaseTaken, DiscardChangeSet, RunStep,
         CloseChangeSet, CloseRefused, AskReview, ListOrders, NameOrder, RolloutComplete, RolloutMoves,
         ResolveStage, PublishNext, Promote, CallFails, AnswerLost, Serving, Begins
<1> QED BY <1>1 DEF Resting, TypeInv, Serial

\* What a move does to orders and Releases: nothing, or one call's worth.
LEMMA MoveDoes ==
  ASSUME NEW c \in Agent, Move(c) \/ CallFails(c) \/ AnswerLost(c)
  PROVE  \/ UNCHANGED <<order, stage, releases, pinned>>
         \/ at[c] = "name" /\ ServerCreateOrder(of[c], cur[c])
         \/ at[c] = "publish" /\ \E d \in todo[c] : ServerPublish(of[c], cur[c], d)
         \/ at[c] = "promote" /\ ServerPromote(of[c], cur[c])
<1>1. CASE CheckHeld(c) \/ ReadRule(c) \/ CreateChangeSet(c) \/ EnterBase(c)
           \/ BaseTaken(c) \/ DiscardChangeSet(c) \/ RunStep(c)
  BY <1>1
  DEF CheckHeld, ReadRule, CreateChangeSet, EnterBase, BaseTaken, DiscardChangeSet, RunStep, Goes,
      ServerCreate, ServerSetState, ServerWrite, serverVars, orderVars, releaseVars
<1>2. CASE CloseChangeSet(c) \/ CloseRefused(c) \/ AskReview(c) \/ ListOrders(c) \/ NameOrder(c)
  BY <1>2
  DEF CloseChangeSet, CloseRefused, AskReview, ListOrders, NameOrder, Goes, Serving, ServerSetState,
      ServerAsk, serverVars, orderVars, releaseVars
<1>3. CASE RolloutComplete(c) \/ RolloutMoves(c) \/ ResolveStage(c) \/ PublishNext(c) \/ Promote(c)
  BY <1>3
  DEF RolloutComplete, RolloutMoves, ResolveStage, PublishNext, Promote, Goes, Serving, serverVars,
      orderVars, releaseVars
<1>4. CASE CallFails(c) \/ AnswerLost(c)
  BY <1>4
  DEF CallFails, AnswerLost, Serving, ServerCreate, ServerSetState, ServerWrite, ServerAsk,
      serverVars, orderVars, releaseVars
<1> QED BY <1>1, <1>2, <1>3, <1>4 DEF Move

\* A step that leaves an agent's orders and Releases alone, but for a Release
\* of somebody else over one of the agent's.
LEMMA RolledUntouched ==
  ASSUME NEW a \in Agent, RolledRight(a),
         \A n \in Cycle : order'[a][n] \in {order[a][n], "terminal"},
         stage'[a] = stage[a], releases'[a] = releases[a],
         \A n \in Cycle, d \in Deployment : <<a, n, d>> \in pinned' => <<a, n, d>> \in pinned
  PROVE  RolledRight(a)'
BY DEF RolledRight, Released, InStage

\* An order is named with no Release behind it.
LEMMA NamedRolled ==
  ASSUME RolloutTypes, NEW a \in Agent, RolledRight(a), NEW q \in Owner, NEW k \in Cycle,
         ServerCreateOrder(q, k)
  PROVE  RolledRight(a)'
<1>1. CASE q # a
  <2>1. order'[a] = order[a] /\ stage'[a] = stage[a] /\ UNCHANGED <<releases, pinned>>
    BY <1>1 DEF ServerCreateOrder, releaseVars, RolloutTypes
  <2> QED BY <2>1, RolledUntouched
<1>2. CASE q = a
  <2>1. /\ order[a][k] = "none" /\ UNCHANGED <<releases, pinned>>
        /\ \A n \in Cycle : order'[a][n] = IF n = k THEN "moving" ELSE order[a][n]
        /\ \A n \in Cycle : stage'[a][n] = IF n = k THEN 0 ELSE stage[a][n]
    BY <1>2 DEF ServerCreateOrder, releaseVars, RolloutTypes
  <2>2. stage[a][k] = 0
    BY <2>1 DEF RolledRight
  <2>3. \A n \in Cycle : stage'[a][n] = stage[a][n]
    BY <2>1, <2>2
  <2>4. \A n \in Cycle, d \in Deployment : Released(a, n, d)' <=> Released(a, n, d)
    BY <2>1 DEF Released
  <2>5. \A n \in Cycle : /\ order'[a][n] = "none" => order[a][n] = "none"
                         /\ order'[a][n] = "completed" => order[a][n] = "completed"
    BY <2>1
  <2>6. \A n \in Cycle : order'[a][n] = "none" => stage'[a][n] = 0
    BY <2>3, <2>5 DEF RolledRight
  <2>7. \A n \in Cycle, d \in Deployment : <<a, n, d>> \in pinned' => Released(a, n, d)'
    BY <2>1, <2>4 DEF RolledRight
  <2>8. \A n \in Cycle, d \in Deployment :
          /\ Released(a, n, d)' => DeployedFrom[d] = BaseOf[a] /\ StageOf[d] <= stage'[a][n]
          /\ DeployedFrom[d] = BaseOf[a] /\ StageOf[d] < stage'[a][n] => Released(a, n, d)'
    BY <2>3, <2>4 DEF RolledRight
  <2>9. \A n \in Cycle : order'[a][n] = "completed" =>
          stage'[a][n] = LastStage /\ \A d \in InStage(BaseOf[a], LastStage) : Released(a, n, d)'
    BY <2>3, <2>4, <2>5 DEF RolledRight, InStage
  <2> QED BY <2>6, <2>7, <2>8, <2>9 DEF RolledRight, InStage
<1> QED BY <1>1, <1>2

\* What a Release published for an order changes.
LEMMA PublishesOne ==
  ASSUME RolloutTypes, NEW q \in Owner, NEW m \in Cycle, NEW d \in Deployment, ServerPublish(q, m, d)
  PROVE  /\ UNCHANGED <<order, stage>> /\ pinned' = NotOf(pinned, d) \union {<<q, m, d>>}
         /\ \A a \in Agent, n \in Cycle, e \in Deployment :
              releases'[a][n][e] = IF a = q /\ n = m /\ e = d THEN releases[a][n][e] + 1
                                                             ELSE releases[a][n][e]
         /\ \A a \in Agent : a # q => releases'[a] = releases[a]
<1>1. /\ pinned' = NotOf(pinned, d) \union {<<q, m, d>>}
      /\ releases' = [releases EXCEPT ![q][m][d] = @ + 1] /\ UNCHANGED <<order, stage>>
  BY DEF ServerPublish, orderVars
<1> QED BY <1>1 DEF RolloutTypes

LEMMA PublishReleases ==
  ASSUME RolloutTypes, NEW q \in Owner, NEW m \in Cycle, NEW d \in Deployment, ServerPublish(q, m, d),
         NEW a \in Agent, NEW n \in Cycle, NEW e \in Deployment
  PROVE  Released(a, n, e)' <=> Released(a, n, e) \/ (a = q /\ n = m /\ e = d)
<1>1. releases'[a][n][e] = IF a = q /\ n = m /\ e = d THEN releases[a][n][e] + 1 ELSE releases[a][n][e]
  BY PublishesOne
<1>2. releases[a][n][e] \in Nat
  BY ReleasesCounted
<1>3. CASE a = q /\ n = m /\ e = d
  <2>1. releases'[a][n][e] = releases[a][n][e] + 1
    BY <1>1, <1>3
  <2> QED BY <1>2, <1>3, <2>1 DEF Released
<1>4. CASE ~(a = q /\ n = m /\ e = d)
  <2>1. releases'[a][n][e] = releases[a][n][e]
    BY <1>1, <1>4, Zenon
  <2> QED BY <1>4, <2>1 DEF Released
<1> QED BY <1>3, <1>4

\* A Release of a space of the stage the order is in.
LEMMA PublishedRolled ==
  ASSUME RolloutTypes, NEW a \in Agent, RolledRight(a), NEW q \in Owner, NEW k \in Cycle,
         NEW d \in Deployment, ServerPublish(q, k, d), q = a => d \in InStage(BaseOf[a], stage[a][k])
  PROVE  RolledRight(a)'
<1>1. UNCHANGED <<order, stage>>
  BY PublishesOne
<1>3. \A n \in Cycle, e \in Deployment :
        Released(a, n, e)' <=> Released(a, n, e) \/ (a = q /\ n = k /\ e = d)
  BY PublishReleases
<1>4. \A n \in Cycle, e \in Deployment :
        <<a, n, e>> \in pinned' => <<a, n, e>> \in pinned \/ (a = q /\ n = k /\ e = d)
  BY DEF ServerPublish, NotOf
<1>5. \A n \in Cycle, e \in Deployment :
        Released(a, n, e)' => DeployedFrom[e] = BaseOf[a] /\ StageOf[e] <= stage'[a][n]
  <2> SUFFICES ASSUME NEW n \in Cycle, NEW e \in Deployment, Released(a, n, e)'
               PROVE  DeployedFrom[e] = BaseOf[a] /\ StageOf[e] <= stage[a][n]
    BY <1>1
  <2>1. CASE Released(a, n, e)
    BY <2>1 DEF RolledRight
  <2>2. CASE a = q /\ n = k /\ e = d
    <3>1. DeployedFrom[e] = BaseOf[a] /\ StageOf[e] = stage[a][n] /\ stage[a][n] \in Stage
      BY <2>2 DEF InStage, RolloutTypes
    <3> QED BY <3>1 DEF Stage
  <2> QED BY <1>3, <2>1, <2>2
<1>9. \A n \in Cycle, e \in Deployment : <<a, n, e>> \in pinned' => Released(a, n, e)'
  BY <1>3, <1>4 DEF RolledRight
<1>10. \A n \in Cycle, e \in Deployment :
         DeployedFrom[e] = BaseOf[a] /\ StageOf[e] < stage[a][n] => Released(a, n, e)'
  BY <1>3 DEF RolledRight
<1>11. \A n \in Cycle : order[a][n] = "completed" =>
         stage[a][n] = LastStage /\ \A e \in InStage(BaseOf[a], LastStage) : Released(a, n, e)'
  BY <1>3 DEF RolledRight, InStage
<1>12. \A n \in Cycle : order[a][n] = "none" => stage[a][n] = 0
  BY DEF RolledRight
<1> QED BY <1>1, <1>5, <1>9, <1>10, <1>11, <1>12 DEF RolledRight, InStage

\* A promotion leaves a stage that is released whole.
LEMMA PromotedRolled ==
  ASSUME RolloutTypes, NEW a \in Agent, RolledRight(a), NEW q \in Owner, NEW k \in Cycle,
         ServerPromote(q, k), q = a => \A d \in InStage(BaseOf[a], stage[a][k]) : Released(a, k, d)
  PROVE  RolledRight(a)'
<1>a. CASE q # a
  <2>1. UNCHANGED <<order, pinned, releases>> /\ stage'[a] = stage[a]
    BY <1>a DEF ServerPromote, releaseVars, RolloutTypes
  <2> QED BY <2>1, RolledUntouched
<1>b. CASE q = a
  <2>1. /\ order[a][k] = "moving" /\ UNCHANGED <<order, pinned, releases>>
        /\ \A n \in Cycle : stage'[a][n] = IF n = k THEN stage[a][n] + 1 ELSE stage[a][n]
    BY <1>b DEF ServerPromote, CanPromote, releaseVars, RolloutTypes
  <2>2. \A n \in Cycle : stage[a][n] \in 0 .. LastStage
    BY DEF RolloutTypes, Stage
  <2>3. \A d \in Deployment : StageOf[d] \in 2 .. LastStage
    OBVIOUS
  <2>4. \A n \in Cycle, d \in Deployment :
          Released(a, n, d) => DeployedFrom[d] = BaseOf[a] /\ StageOf[d] <= stage'[a][n]
    BY <2>1, <2>2, <2>3 DEF RolledRight
  <2>5. ASSUME NEW n \in Cycle, NEW d \in Deployment, DeployedFrom[d] = BaseOf[a], StageOf[d] < stage'[a][n]
        PROVE  Released(a, n, d)
    <3>1. CASE StageOf[d] < stage[a][n]
      BY <2>5, <3>1 DEF RolledRight
    <3>2. CASE n = k /\ StageOf[d] = stage[a][n]
      BY <1>b, <2>5, <3>2 DEF InStage
    <3>3. stage[a][n] \in 0 .. LastStage /\ StageOf[d] \in 2 .. LastStage
      BY <2>2, <2>3
    <3>4. stage'[a][n] = IF n = k THEN stage[a][n] + 1 ELSE stage[a][n]
      BY <2>1
    <3> QED BY <2>5, <3>1, <3>2, <3>3, <3>4
  <2>6. \A n \in Cycle : order[a][n] = "none" => stage'[a][n] = 0
    BY <2>1 DEF RolledRight
  <2>7. \A n \in Cycle : order[a][n] = "completed" => stage'[a][n] = LastStage
    BY <2>1 DEF RolledRight
  <2> QED BY <2>1, <2>4, <2>5, <2>6, <2>7 DEF RolledRight, Released, InStage
<1> QED BY <1>a, <1>b

\* A move, or a call that fails or whose answer is lost.
LEMMA MoveRolled ==
  ASSUME TypeInv, NEW c \in Agent, HandRight(c), Move(c) \/ CallFails(c) \/ AnswerLost(c),
         NEW a \in Agent, RolledRight(a)
  PROVE  RolledRight(a)'
<1>0. RolloutTypes /\ of[c] \in Owner /\ (of[c] = a => BaseOf[c] = BaseOf[a])
  BY RolloutTyped DEF RolloutTypes
<1>1. CASE UNCHANGED <<order, stage, releases, pinned>>
  BY <1>1, RolledUntouched
<1>2. CASE at[c] = "name" /\ ServerCreateOrder(of[c], cur[c])
  BY <1>0, <1>2, RollsOne, NamedRolled
<1>3. ASSUME at[c] = "publish", NEW d \in todo[c], ServerPublish(of[c], cur[c], d)
      PROVE  RolledRight(a)'
  <2>1. d \in Deployment /\ cur[c] \in Cycle
    BY <1>0, <1>3, RollsOne DEF RolloutTypes
  <2>2. of[c] = a => d \in InStage(BaseOf[a], stage[a][cur[c]])
    BY <1>0, <1>3 DEF HandRight
  <2> QED BY <1>0, <1>3, <2>1, <2>2, PublishedRolled
<1>4. CASE at[c] = "promote" /\ ServerPromote(of[c], cur[c])
  <2>1. of[c] = a => \A d \in InStage(BaseOf[a], stage[a][cur[c]]) : Released(a, cur[c], d)
    BY <1>0, <1>4 DEF HandRight
  <2> QED BY <1>0, <1>4, <2>1, RollsOne, PromotedRolled
<1> QED BY <1>1, <1>2, <1>3, <1>4, MoveDoes

\* What a move has left to publish, or to promote, when it goes on.
LEMMA MoveHand ==
  ASSUME TypeInv, NEW a \in Agent, HandRight(a), of[a] \in Agent => RolledRight(of[a]),
         Move(a) \/ CallFails(a) \/ AnswerLost(a)
  PROVE  HandRight(a)'
<1>0. RolloutTypes
  BY RolloutTyped
<1>1. CASE at'[a] \notin {"publish", "promote"}
  BY <1>1 DEF HandRight
<1>2. CASE RolloutMoves(a)
  <2>1. /\ UNCHANGED <<stage, releases, of, cur>>
        /\ at'[a] = IF stage[of[a]][cur[a]] = 0 THEN "promote" ELSE "spaces"
    BY <1>0, <1>2 DEF RolloutMoves, Goes, Then, serverVars, orderVars, releaseVars, RolloutTypes
  <2>2. InStage(BaseOf[a], 0) = {}
    BY NoStageZero DEF InStage
  <2> QED BY <2>1, <2>2 DEF HandRight, Released, InStage
<1>3. CASE ResolveStage(a)
  <2>1. /\ UNCHANGED <<stage, releases, of, cur>> /\ todo'[a] = Unreleased(a)
        /\ at'[a] = IF Unreleased(a) = {} THEN "promote" ELSE "publish"
    BY <1>0, <1>3 DEF ResolveStage, Then, serverVars, orderVars, releaseVars, RolloutTypes
  <2>2. of[a] \in Agent =>
          \A d \in InStage(BaseOf[a], stage[of[a]][cur[a]]) \ Unreleased(a) : Released(of[a], cur[a], d)
    <3>1. cur[a] \in Cycle
      BY <1>3, RollsOne DEF ResolveStage, Serving
    <3> QED BY <3>1 DEF RolledRight, Unreleased, InStage
  <2> QED BY <2>1, <2>2 DEF HandRight, Released, InStage, Unreleased
<1>4. CASE PublishNext(a)
  <2>0. at[a] = "publish" /\ UNCHANGED <<of, cur>> /\ cur[a] \in Cycle /\ of[a] \in Owner
    BY <1>0, <1>4, RollsOne DEF PublishNext, Serving, RolloutTypes
  <2>1. CASE Then(a, "rest")
    BY <1>0, <1>1, <2>1 DEF Then, RolloutTypes
  <2>2. ASSUME NEW d \in todo[a], ServerPublish(of[a], cur[a], d), todo' = [todo EXCEPT ![a] = @ \ {d}],
               Then(a, IF todo[a] = {d} THEN "promote" ELSE "publish")
        PROVE  HandRight(a)'
    <3>1. todo'[a] = todo[a] \ {d} /\ at'[a] = IF todo[a] = {d} THEN "promote" ELSE "publish"
      BY <1>0, <2>2 DEF Then, RolloutTypes
    <3>2. d \in Deployment /\ UNCHANGED stage
      BY <1>0, <2>0, <2>2, PublishesOne DEF RolloutTypes
    <3>3. ASSUME of[a] \in Agent, NEW e \in InStage(BaseOf[a], stage[of[a]][cur[a]]), e \notin todo'[a]
          PROVE  Released(of[a], cur[a], e)'
      <4>1. e \in Deployment /\ (e = d \/ Released(of[a], cur[a], e))
        BY <2>0, <3>1, <3>3 DEF HandRight, InStage
      <4>2. PICK q \in Agent, m \in Cycle : q = of[a] /\ m = cur[a]
        BY <2>0, <3>3
      <4>3. q \in Owner /\ ServerPublish(q, m, d)
        BY <1>0, <2>2, <4>2 DEF RolloutTypes
      <4>4. Released(q, m, e)'
        BY <1>0, <3>2, <4>1, <4>2, <4>3, PublishReleases
      <4> QED BY <2>0, <4>2, <4>4 DEF Released
    <3>4. \A e \in todo'[a] : DeployedFrom[e] = BaseOf[a]
      BY <2>0, <3>1 DEF HandRight
    <3>5. of[a] \in Agent => todo'[a] \subseteq InStage(BaseOf[a], stage[of[a]][cur[a]])
      BY <2>0, <3>1 DEF HandRight
    <3>6. at'[a] = "promote" => todo'[a] = {}
      BY <3>1
    <3>7. \A k : InStage(BaseOf[a], k)' = InStage(BaseOf[a], k)
      BY DEF InStage
    <3> QED BY <2>0, <3>2, <3>3, <3>4, <3>5, <3>6, <3>7 DEF HandRight
  <2> QED BY <1>4, <2>1, <2>2 DEF PublishNext
<1>5. CASE /\ \/ CheckHeld(a) \/ ReadRule(a) \/ CreateChangeSet(a) \/ EnterBase(a)
              \/ BaseTaken(a) \/ DiscardChangeSet(a) \/ RunStep(a)
              \/ CloseChangeSet(a) \/ CloseRefused(a) \/ AskReview(a) \/ ListOrders(a) \/ NameOrder(a)
              \/ RolloutComplete(a) \/ Promote(a) \/ CallFails(a) \/ AnswerLost(a)
  <2>1. at'[a] \notin {"publish", "promote"}
    BY <1>0, <1>5
    DEF CheckHeld, ReadRule, CreateChangeSet, EnterBase, BaseTaken, DiscardChangeSet, RunStep,
        CloseChangeSet, CloseRefused, AskReview, ListOrders, NameOrder, RolloutComplete, Promote,
        CallFails, AnswerLost, Goes, Then, RolloutTypes
  <2> QED BY <1>1, <2>1
<1> QED BY <1>2, <1>3, <1>4, <1>5 DEF Move

\* People and the delivery system: an order they complete was released whole.
LEMMA PeopleRolled ==
  ASSUME TypeInv, NEW a \in Agent, RolledRight(a), People
  PROVE  RolledRight(a)' /\ stage'[a] = stage[a] /\ releases'[a] = releases[a]
<1>0. RolloutTypes
  BY RolloutTyped
<1>2. CASE UNCHANGED <<order, stage, releases, pinned>>
  BY <1>2, RolledUntouched
<1>3. ASSUME NEW p \in Person, NEW n \in Cycle, PlayNamesOrder(p, n) \/ PlayFinishes(p, n)
      PROVE  RolledRight(a)' /\ stage'[a] = stage[a] /\ releases'[a] = releases[a]
  <2>1. order'[a] = order[a] /\ stage'[a] = stage[a] /\ releases'[a] = releases[a]
    BY <1>0, <1>3 DEF PlayNamesOrder, PlayFinishes, ServerCreateOrder, releaseVars, RolloutTypes
  <2>2. \A m \in Cycle, d \in Deployment : <<a, m, d>> \in pinned' => <<a, m, d>> \in pinned
    BY <1>0, <1>3 DEF PlayNamesOrder, PlayFinishes, ServerCreateOrder, releaseVars, RolloutTypes
  <2> QED BY <2>1, <2>2, RolledUntouched
<1>4. ASSUME NEW o \in Owner, NEW n \in Cycle, AbortOrder(o, n)
      PROVE  RolledRight(a)' /\ stage'[a] = stage[a] /\ releases'[a] = releases[a]
  <2>1. UNCHANGED <<stage, releases, pinned>> /\ \A m \in Cycle : order'[a][m] \in {order[a][m], "terminal"}
    BY <1>0, <1>4 DEF AbortOrder, releaseVars, RolloutTypes
  <2> QED BY <2>1, RolledUntouched
<1>5. ASSUME NEW d \in Deployment, PlainRelease(d)
      PROVE  RolledRight(a)' /\ stage'[a] = stage[a] /\ releases'[a] = releases[a]
  <2>1. UNCHANGED <<order, stage, releases>> /\ pinned' \subseteq pinned
    BY <1>5 DEF PlainRelease, ServerPublishPlain, NotOf, orderVars
  <2> QED BY <2>1, RolledUntouched
<1>6. ASSUME NEW d \in Deployment, NEW h \in Health, ServerReport(d, h)
      PROVE  RolledRight(a)' /\ stage'[a] = stage[a] /\ releases'[a] = releases[a]
  <2>1. UNCHANGED <<stage, releases, pinned>>
    BY <1>6 DEF ServerReport
  <2>2. \A n \in Cycle : order'[a][n] = IF Finished(a, n, health') THEN "completed" ELSE order[a][n]
    BY <1>0, <1>6 DEF ServerReport, RolloutTypes
  <2>3. ASSUME NEW n \in Cycle, order'[a][n] = "completed"
        PROVE  stage[a][n] = LastStage /\ \A e \in InStage(BaseOf[a], LastStage) : Released(a, n, e)
    <3>1. CASE order[a][n] = "completed"
      BY <3>1 DEF RolledRight
    <3>2. CASE Finished(a, n, health')
      BY <3>2 DEF RolledRight, Finished, InStage
    <3> QED BY <2>2, <2>3, <3>1, <3>2
  <2>4. \A n \in Cycle : order'[a][n] = "none" => order[a][n] = "none"
    BY <2>2
  <2> QED BY <2>1, <2>3, <2>4 DEF RolledRight, Released, InStage
<1> QED
  BY <1>2, <1>3, <1>4, <1>5, <1>6
  DEF People, Approve, PersonOpens, PersonCloses, RuleArrives, Observe, Incident, Heal, Health,
      ServerSetState, orderVars, releaseVars

\* Nobody but the runner touches what it has in hand.
LEMMA PeopleHands ==
  ASSUME People
  PROVE  UNCHANGED <<up, at, phase, of, cur, cycle, todo>>
BY DEF People, Approve, PersonOpens, PersonCloses, PlayNamesOrder, PlayFinishes, AbortOrder,
       RuleArrives, PlainRelease, Observe, Incident, Heal, runnerVars, localVars

\* Every step.
LEMMA NextRolled ==
  ASSUME TypeInv, RolloutInv, [Next]_vars
  PROVE  RolloutInv'
<1> SUFFICES ASSUME NEW a \in Agent PROVE RolledRight(a)' /\ HandRight(a)'
  BY DEF RolloutInv
<1>0. RolledRight(a) /\ HandRight(a) /\ (of[a] \in Agent => RolledRight(of[a]))
  BY DEF RolloutInv
<1>1. CASE Start \/ Crash
  <2>1. UNCHANGED <<order, stage, releases, pinned>>
    BY <1>1 DEF Start, Crash, serverVars, orderVars, releaseVars
  <2>2. at'[a] = "rest"
    BY <1>1 DEF Start, Crash, TypeInv, Serial
  <2> QED BY <1>0, <2>1, <2>2, RolledUntouched DEF HandRight
<1>2. ASSUME NEW c \in Agent, Move(c) \/ CallFails(c) \/ AnswerLost(c)
      PROVE  RolledRight(a)' /\ HandRight(a)'
  <2>0. RolledRight(a)'
    BY <1>0, <1>2, MoveRolled DEF RolloutInv
  <2>1. CASE c = a
    BY <1>0, <1>2, <2>0, <2>1, MoveHand
  <2>2. CASE c # a
    <3>1. at'[a] = at[a]
      BY <1>2, <2>2
      DEF Move, CheckHeld, ReadRule, CreateChangeSet, EnterBase, BaseTaken, DiscardChangeSet, RunStep,
          CloseChangeSet, CloseRefused, AskReview, ListOrders, NameOrder, RolloutComplete, RolloutMoves,
          ResolveStage, PublishNext, Promote, CallFails, AnswerLost, Goes, Then, TypeInv, LocalTypeOK
    <3>2. at'[a] = "rest"
      BY <1>2, <2>2, <3>1, OthersRest
    <3> QED BY <2>0, <3>2 DEF HandRight
  <2> QED BY <2>1, <2>2
<1>3. CASE People
  <2>1. of[a] \in Agent => stage'[of[a]] = stage[of[a]] /\ releases'[of[a]] = releases[of[a]]
    BY <1>0, <1>3, PeopleRolled
  <2>2. UNCHANGED <<at, of, cur, todo>>
    BY <1>3, PeopleHands
  <2>3. HandRight(a)'
    BY <1>0, <2>1, <2>2 DEF HandRight, Released, InStage
  <2> QED BY <1>0, <1>3, <2>3, PeopleRolled
<1>4. CASE UNCHANGED vars
  <2>1. UNCHANGED <<order, stage, releases, pinned, at, of, cur, todo>>
    BY <1>4 DEF vars, serverVars, orderVars, releaseVars, runnerVars, localVars
  <2> QED BY <1>0, <2>1, RolledUntouched DEF HandRight, Released, InStage
<1> QED BY <1>1, <1>2, <1>3, <1>4 DEF Next

\* A seeded org has no agent's orders.
LEMMA InitRolled == Init => RolloutInv
<1> SUFFICES ASSUME Init, NEW a \in Agent PROVE RolledRight(a) /\ HandRight(a)
  BY DEF RolloutInv
<1>1. PICK stories \in SUBSET Person :
        order = [o \in Owner |-> [n \in Cycle |->
                  IF o \in stories /\ n = 1 THEN "moving" ELSE "none"]]
  BY DEF Init
<1>2. a \in Owner /\ a \notin Person
  BY DEF Owner
<1>3. \A n \in Cycle : order[a][n] = "none" /\ stage[a][n] = 0
  BY <1>1, <1>2 DEF Init
<1>4. pinned = {} /\ at[a] = "rest" /\ \A n \in Cycle, d \in Deployment : releases[a][n][d] = 0
  BY <1>2 DEF Init
<1> QED BY <1>3, <1>4, NoStageZero DEF RolledRight, HandRight, Released

\* What is owed to the Releases made so far, at every step.
LEMMA RolloutInvAlways == Spec => [](TypeInv /\ RolloutInv)
<1>1. TypeInv /\ RolloutInv /\ [Next]_vars => RolloutInv'
  BY NextRolled
<1> QED BY InitRolled, TypeInvAlways, <1>1, PTL DEF Spec

\* roll releases before it promotes: whoever crashes, fails, aborts, reports or
\* releases in between, nothing is released for an order in a stage it has not
\* entered or ahead of an earlier one, and a completed order is out everywhere.
THEOREM ReleasedStageByStage == Spec => []StageByStage
<1>1. TypeInv /\ RolloutInv => StageByStage
  <2> SUFFICES ASSUME TypeInv, RolloutInv, NEW a \in Agent, NEW n \in Cycle
               PROVE  LET released == {d \in Deployment : releases[a][n][d] > 0}
                          own == {d \in Deployment : DeployedFrom[d] = BaseOf[a]}
                      IN  /\ \A d \in released : StageOf[d] <= stage[a][n]
                          /\ \A d \in released, e \in own : StageOf[e] < StageOf[d] => e \in released
                          /\ order[a][n] = "completed" => own \subseteq released
    BY DEF StageByStage
  <2>1. RolledRight(a) /\ stage[a][n] \in 0 .. LastStage
    BY RolloutTyped DEF RolloutInv, RolloutTypes, Stage
  <2>2. \A d \in Deployment : StageOf[d] \in 2 .. LastStage
    OBVIOUS
  <2>3. \A d \in Deployment : releases[a][n][d] > 0 => StageOf[d] <= stage[a][n]
    BY <2>1 DEF RolledRight, Released
  <2>4. ASSUME NEW d \in Deployment, NEW e \in Deployment, releases[a][n][d] > 0,
               DeployedFrom[e] = BaseOf[a], StageOf[e] < StageOf[d]
        PROVE  releases[a][n][e] > 0
    <3>0. StageOf[d] <= stage[a][n]
      BY <2>3, <2>4
    <3>1. StageOf[e] < stage[a][n]
      <4>1. StageOf[d] \in 2 .. LastStage /\ StageOf[e] \in 2 .. LastStage /\ stage[a][n] \in 0 .. LastStage
        BY <2>1, <2>2
      <4>2. PICK i \in Int, j \in Int, k \in Int : i = StageOf[e] /\ j = StageOf[d] /\ k = stage[a][n]
        BY <4>1
      <4>3. i < j /\ j <= k
        BY <2>4, <3>0, <4>2
      <4>4. i < k
        BY <4>3
      <4> QED BY <4>2, <4>4
    <3> QED BY <2>1, <2>4, <3>1 DEF RolledRight, Released
  <2>5. ASSUME order[a][n] = "completed", NEW d \in Deployment, DeployedFrom[d] = BaseOf[a]
        PROVE  releases[a][n][d] > 0
    <3>1. stage[a][n] = LastStage /\ (StageOf[d] = LastStage \/ StageOf[d] < LastStage)
      BY <2>1, <2>2, <2>5 DEF RolledRight
    <3> QED BY <2>1, <2>5, <3>1 DEF RolledRight, Released, InStage
  <2> QED BY <2>3, <2>4, <2>5
<1> QED BY RolloutInvAlways, <1>1, PTL
-----------------------------------------------------------------------------
\* No other change order of the component moves than the one in hand.
Alone(a) ==
  \A o \in Owner, n \in Cycle :
    BaseOf[o] = BaseOf[a] /\ order[o][n] = "moving" => o = of[a] /\ n = cur[a]

\* What was published for an order that moves is the space's latest Release, as
\* the runner asks before it publishes.
OnceRight(a) ==
  /\ \A n \in Cycle, d \in Deployment : releases[a][n][d] <= 1
  /\ \A n \in Cycle, d \in Deployment :
       order[a][n] = "moving" /\ Released(a, n, d) => <<a, n, d>> \in pinned

\* What a move has found unreleased stays so until the move publishes it.
HandOnce(a) ==
  /\ at[a] \in {"spaces", "publish"} /\ order[of[a]][cur[a]] \in {"moving", "completed"} => Alone(a)
  /\ of[a] \in Agent /\ at[a] = "spaces" /\ order[of[a]][cur[a]] = "completed" => Unreleased(a) = {}
  /\ of[a] \in Agent /\ at[a] = "publish" =>
       /\ order[of[a]][cur[a]] # "completed" /\ todo[a] # {}
       /\ \A d \in todo[a] : <<of[a], cur[a], d>> \notin pinned

OnceInv == \A a \in Agent : OnceRight(a) /\ HandOnce(a)

\* A step that publishes nothing for the agent's orders, nor over what was
\* published for one that moves.
LEMMA OnceUntouched ==
  ASSUME NEW a \in Agent, OnceRight(a), releases'[a] = releases[a],
         \A n \in Cycle : order'[a][n] = "moving" => order[a][n] = "moving",
         \A n \in Cycle, d \in Deployment :
           order[a][n] = "moving" /\ Released(a, n, d) /\ <<a, n, d>> \in pinned => <<a, n, d>> \in pinned'
  PROVE  OnceRight(a)'
BY DEF OnceRight, Released

\* Two change orders of one component that move are one.
LEMMA MovesOne ==
  ASSUME TypeInv, FlightInv, NEW o \in Owner, NEW q \in Owner, NEW n \in Cycle, NEW m \in Cycle,
         BaseOf[o] = BaseOf[q], order[o][n] = "moving", order[q][m] = "moving"
  PROVE  o = q /\ n = m
BY DEF FlightInv, OneInFlight

\* A move publishes for the only order of its component that moves, and for an
\* agent's order what was not published yet.
LEMMA PublishesFor ==
  ASSUME TypeInv, NEW c \in Agent, HandRight(c), HandOnce(c), of[c] \in Agent => OnceRight(of[c]),
         at[c] = "publish", NEW d \in todo[c], ServerPublish(of[c], cur[c], d)
  PROVE  /\ cur[c] \in Cycle /\ of[c] \in Owner /\ d \in Deployment /\ DeployedFrom[d] = BaseOf[c]
         /\ UNCHANGED order /\ Alone(c)
         /\ of[c] \in Agent => releases[of[c]][cur[c]][d] = 0
<1>0. RolloutTypes /\ cur[c] \in Cycle /\ of[c] \in Owner
  BY RolloutTyped, RollsOne DEF RolloutTypes
<1>1. d \in Deployment /\ DeployedFrom[d] = BaseOf[c]
  BY <1>0 DEF HandRight, RolloutTypes
<1>2. UNCHANGED order /\ order[of[c]][cur[c]] \in {"moving", "completed"}
  BY DEF ServerPublish, orderVars
<1>3. Alone(c)
  BY <1>2 DEF HandOnce
<1>4. ASSUME of[c] \in Agent
      PROVE  releases[of[c]][cur[c]][d] = 0
  <2>1. order[of[c]][cur[c]] = "moving" /\ <<of[c], cur[c], d>> \notin pinned
    BY <1>2, <1>4 DEF HandOnce
  <2>2. ~Released(of[c], cur[c], d)
    BY <1>0, <1>1, <1>4, <2>1 DEF OnceRight
  <2>3. releases[of[c]][cur[c]][d] \in Nat
    BY <1>0, <1>1, <1>4, ReleasesCounted
  <2> QED BY <2>2, <2>3 DEF Released
<1> QED BY <1>0, <1>1, <1>2, <1>3, <1>4

\* A Release the runner publishes: of an agent's order, or over nothing that was
\* published for an agent's order that moves.
LEMMA PublishedOnce ==
  ASSUME TypeInv, NEW c \in Agent, HandRight(c), HandOnce(c), of[c] \in Agent => OnceRight(of[c]),
         at[c] = "publish", NEW d \in todo[c], ServerPublish(of[c], cur[c], d),
         NEW a \in Agent, RolledRight(a), OnceRight(a)
  PROVE  OnceRight(a)'
<1>0. RolloutTypes
  BY RolloutTyped
<1>1. PICK q \in Owner, m \in Cycle : q = of[c] /\ m = cur[c]
  BY PublishesFor
<1>2. /\ d \in Deployment /\ DeployedFrom[d] = BaseOf[c] /\ UNCHANGED order
      /\ Alone(c) /\ (q \in Agent => releases[q][m][d] = 0) /\ ServerPublish(q, m, d)
  BY <1>1, PublishesFor
<1>3. ASSUME NEW n \in Cycle, NEW e \in Deployment
      PROVE  releases'[a][n][e] <= 1
  <2>1. releases'[a][n][e] = IF a = q /\ n = m /\ e = d THEN releases[a][n][e] + 1 ELSE releases[a][n][e]
    <3>1. ServerPublish(q, m, d) /\ d \in Deployment
      BY <1>2
    <3> QED BY ONLY <1>0, <3>1, PublishesOne
  <2>2. CASE a = q /\ n = m /\ e = d
    BY <1>2, <2>1, <2>2
  <2>3. CASE ~(a = q /\ n = m /\ e = d)
    <3>1. releases'[a][n][e] = releases[a][n][e]
      BY <2>1, <2>3, Zenon
    <3> QED BY <3>1 DEF OnceRight
  <2> QED BY <2>2, <2>3
<1>4. ASSUME NEW n \in Cycle, NEW e \in Deployment, order[a][n] = "moving", Released(a, n, e)'
      PROVE  <<a, n, e>> \in pinned'
  <2>0. pinned' = NotOf(pinned, d) \union {<<q, m, d>>}
    BY <1>2 DEF ServerPublish
  <2>1. CASE a = q /\ n = m /\ e = d
    BY <2>0, <2>1
  <2>2. CASE ~(a = q /\ n = m /\ e = d)
    <3>0. Released(a, n, e)' <=> Released(a, n, e) \/ (a = q /\ n = m /\ e = d)
      <4>1. ServerPublish(q, m, d) /\ d \in Deployment
        BY <1>2
      <4> QED BY ONLY <1>0, <4>1, PublishReleases
    <3>1. Released(a, n, e)
      BY <1>4, <2>2, <3>0
    <3>2. <<a, n, e>> \in pinned /\ DeployedFrom[e] = BaseOf[a]
      BY <1>4, <3>1 DEF OnceRight, RolledRight
    <3>3. e # d
      BY <1>0, <1>1, <1>2, <1>4, <2>2, <3>2 DEF Alone, RolloutTypes
    <3> QED BY <2>0, <3>2, <3>3 DEF NotOf
  <2> QED BY <2>1, <2>2
<1> QED BY <1>2, <1>3, <1>4 DEF OnceRight

\* An order is named with no Release behind it.
LEMMA NamedOnce ==
  ASSUME RolloutTypes, NEW q \in Owner, NEW k \in Cycle, ServerCreateOrder(q, k),
         NEW a \in Agent, RolledRight(a), OnceRight(a)
  PROVE  OnceRight(a)'
<1>1. /\ order[q][k] = "none" /\ UNCHANGED <<releases, pinned>>
      /\ \A n \in Cycle : order'[a][n] = IF a = q /\ n = k THEN "moving" ELSE order[a][n]
  BY DEF ServerCreateOrder, releaseVars, RolloutTypes
<1>2. a = q => \A d \in Deployment : ~Released(a, k, d)
  <2>1. \A d \in Deployment : StageOf[d] \in 2 .. LastStage
    OBVIOUS
  <2>2. a = q => \A d \in Deployment : Released(a, k, d) => StageOf[d] <= 0
    BY <1>1 DEF RolledRight
  <2> QED BY <2>1, <2>2
<1>3. \A n \in Cycle, d \in Deployment :
        order'[a][n] = "moving" /\ Released(a, n, d) => <<a, n, d>> \in pinned
  BY <1>1, <1>2 DEF OnceRight
<1> QED BY <1>1, <1>3 DEF OnceRight, Released

\* A move, or a call that fails or whose answer is lost.
LEMMA MoveOnce ==
  ASSUME TypeInv, NEW c \in Agent, HandRight(c), HandOnce(c), of[c] \in Agent => OnceRight(of[c]),
         Move(c) \/ CallFails(c) \/ AnswerLost(c), NEW a \in Agent, RolledRight(a), OnceRight(a)
  PROVE  OnceRight(a)'
<1>0. RolloutTypes /\ of[c] \in Owner
  BY RolloutTyped DEF RolloutTypes
<1>1. CASE UNCHANGED <<order, stage, releases, pinned>>
  BY <1>1, OnceUntouched
<1>2. CASE at[c] = "name" /\ ServerCreateOrder(of[c], cur[c])
  BY <1>0, <1>2, RollsOne, NamedOnce
<1>3. ASSUME at[c] = "publish", NEW d \in todo[c], ServerPublish(of[c], cur[c], d)
      PROVE  OnceRight(a)'
  BY <1>3, PublishedOnce
<1>4. CASE at[c] = "promote" /\ ServerPromote(of[c], cur[c])
  <2>1. UNCHANGED <<order, releases, pinned>>
    BY <1>4 DEF ServerPromote, releaseVars
  <2> QED BY <2>1, OnceUntouched
<1> QED BY <1>1, <1>2, <1>3, <1>4, MoveDoes

\* What a move has left to publish when it goes on.
LEMMA MoveHandOnce ==
  ASSUME TypeInv, FlightInv, NEW a \in Agent, HandOnce(a), Move(a) \/ CallFails(a) \/ AnswerLost(a)
  PROVE  HandOnce(a)'
<1>0. RolloutTypes
  BY RolloutTyped
<1>1. CASE at'[a] \notin {"spaces", "publish"}
  BY <1>1 DEF HandOnce
<1>2. CASE RolloutMoves(a)
  <2>1. /\ UNCHANGED <<order, of, cur>> /\ at'[a] \in {"promote", "spaces"}
        /\ order[of[a]][cur[a]] # "completed"
    BY <1>0, <1>2 DEF RolloutMoves, Goes, Then, serverVars, orderVars, RolloutTypes
  <2>2. at[a] = "read" \/ phase[a] = "rolling"
    BY <1>2 DEF RolloutMoves, Serving, Begins
  <2>3. cur[a] \in Cycle /\ of[a] \in Owner /\ BaseOf[of[a]] = BaseOf[a]
    BY <1>0, <2>2, RollsOne DEF TypeInv, Carries, RolloutTypes
  <2>4. order[of[a]][cur[a]] = "moving" => Alone(a)
    BY <2>3, MovesOne DEF Alone
  <2> QED BY <2>1, <2>4 DEF HandOnce, Alone
<1>3. CASE ResolveStage(a)
  <2>1. /\ UNCHANGED <<order, pinned, of, cur>> /\ todo'[a] = Unreleased(a) /\ at[a] = "spaces"
        /\ at'[a] = IF Unreleased(a) = {} THEN "promote" ELSE "publish"
    BY <1>0, <1>3 DEF ResolveStage, Serving, Then, serverVars, orderVars, releaseVars, RolloutTypes
  <2>2. of[a] \in Agent /\ at'[a] = "publish" =>
          /\ order[of[a]][cur[a]] # "completed" /\ todo'[a] # {}
          /\ \A d \in todo'[a] : <<of[a], cur[a], d>> \notin pinned
    BY <2>1 DEF HandOnce, Unreleased
  <2>3. at'[a] # "spaces"
    BY <2>1
  <2> QED BY <2>1, <2>2, <2>3 DEF HandOnce, Alone
<1>4. CASE PublishNext(a)
  <2>0. at[a] = "publish" /\ UNCHANGED <<of, cur>>
    BY <1>4 DEF PublishNext, Serving
  <2>1. CASE Then(a, "rest")
    BY <1>0, <1>1, <2>1 DEF Then, RolloutTypes
  <2>2. ASSUME NEW d \in todo[a], ServerPublish(of[a], cur[a], d), todo' = [todo EXCEPT ![a] = @ \ {d}],
               Then(a, IF todo[a] = {d} THEN "promote" ELSE "publish")
        PROVE  HandOnce(a)'
    <3>1. todo'[a] = todo[a] \ {d} /\ at'[a] = IF todo[a] = {d} THEN "promote" ELSE "publish"
      BY <1>0, <2>2 DEF Then, RolloutTypes
    <3>2. UNCHANGED order /\ pinned' = NotOf(pinned, d) \union {<<of[a], cur[a], d>>}
      BY <2>2 DEF ServerPublish, orderVars
    <3>3. of[a] \in Agent /\ at'[a] = "publish" =>
            /\ order[of[a]][cur[a]] # "completed" /\ todo'[a] # {}
            /\ \A e \in todo'[a] : <<of[a], cur[a], e>> \notin pinned'
      BY <2>0, <3>1, <3>2 DEF HandOnce, NotOf
    <3>4. at'[a] # "spaces"
      BY <3>1
    <3> QED BY <2>0, <3>2, <3>3, <3>4 DEF HandOnce, Alone
  <2> QED BY <1>4, <2>1, <2>2 DEF PublishNext
<1>5. CASE \/ CheckHeld(a) \/ ReadRule(a) \/ CreateChangeSet(a) \/ EnterBase(a)
           \/ BaseTaken(a) \/ DiscardChangeSet(a) \/ RunStep(a)
           \/ CloseChangeSet(a) \/ CloseRefused(a) \/ AskReview(a) \/ ListOrders(a) \/ NameOrder(a)
           \/ RolloutComplete(a) \/ Promote(a) \/ CallFails(a) \/ AnswerLost(a)
  <2>1. at'[a] \notin {"spaces", "publish"}
    BY <1>0, <1>5
    DEF CheckHeld, ReadRule, CreateChangeSet, EnterBase, BaseTaken, DiscardChangeSet, RunStep,
        CloseChangeSet, CloseRefused, AskReview, ListOrders, NameOrder, RolloutComplete, Promote,
        CallFails, AnswerLost, Goes, Then, RolloutTypes
  <2> QED BY <1>1, <2>1
<1> QED BY <1>2, <1>3, <1>4, <1>5 DEF Move

\* A presenter finishes an order of theirs, whose component has no other that moves.
LEMMA FinishOnce ==
  ASSUME TypeInv, FlightInv, NEW a \in Agent, RolledRight(a), OnceRight(a), HandOnce(a),
         NEW p \in Person, NEW n \in Cycle, PlayFinishes(p, n)
  PROVE  OnceRight(a)' /\ HandOnce(a)'
<1>0. RolloutTypes /\ UNCHANGED <<at, of, cur, todo>>
  BY RolloutTyped DEF PlayFinishes, runnerVars, localVars
<1>c. at[a] \in {"spaces", "publish"} => cur[a] \in Cycle
  BY RollsOne
<1>1. p \in Owner /\ order[p][n] = "moving" /\ \A c \in Agent : c # p
  BY <1>0 DEF PlayFinishes, RolloutTypes, Owner
<1>2. /\ \A c \in Agent : order'[c] = order[c] /\ stage'[c] = stage[c]
      /\ releases' = releases
      /\ \A o \in Owner, m \in Cycle :
           order'[o][m] = IF o = p /\ m = n THEN "completed" ELSE order[o][m]
  BY <1>0, <1>1 DEF PlayFinishes, RolloutTypes
<1>3. \A c \in Agent, m \in Cycle, d \in Deployment : <<c, m, d>> \in pinned' => <<c, m, d>> \in pinned
  BY <1>1 DEF PlayFinishes
<1>4. \A o \in Owner, m \in Cycle, d \in Deployment :
        DeployedFrom[d] # BaseOf[p] /\ <<o, m, d>> \in pinned => <<o, m, d>> \in pinned'
  BY DEF PlayFinishes
<1>5. OnceRight(a)'
  <2>1. ASSUME NEW m \in Cycle, NEW d \in Deployment,
               order[a][m] = "moving", Released(a, m, d), <<a, m, d>> \in pinned
        PROVE  <<a, m, d>> \in pinned'
    <3>1. DeployedFrom[d] = BaseOf[a] /\ a \in Owner
      BY <1>0, <2>1 DEF RolledRight, RolloutTypes
    <3>2. BaseOf[p] # BaseOf[a]
      BY <1>1, <2>1, <3>1, MovesOne
    <3> QED BY <1>4, <2>1, <3>1, <3>2
  <2> QED BY <1>2, <2>1, OnceUntouched
<1>6. Alone(a) => Alone(a)'
  BY <1>0, <1>2 DEF Alone
<1>7. at[a] \in {"spaces", "publish"} /\ order'[of[a]][cur[a]] \in {"moving", "completed"} => Alone(a)
  <2> SUFFICES ASSUME at[a] \in {"spaces", "publish"}, order'[of[a]][cur[a]] \in {"moving", "completed"}
               PROVE  Alone(a)
    OBVIOUS
  <2>0. cur[a] \in Cycle /\ of[a] \in Owner
    BY <1>0, <1>c DEF RolloutTypes
  <2>1. CASE of[a] = p /\ cur[a] = n
    BY <1>1, <2>1 DEF HandOnce
  <2>2. CASE ~(of[a] = p /\ cur[a] = n)
    <3>1. order'[of[a]][cur[a]] = order[of[a]][cur[a]]
      BY <1>2, <2>0, <2>2, Zenon
    <3> QED BY <3>1 DEF HandOnce
  <2> QED BY <2>1, <2>2
<1>8. ASSUME of[a] \in Agent, at[a] = "spaces", order[of[a]][cur[a]] = "completed"
      PROVE  Unreleased(a)' = {}
  <2>1. Alone(a) /\ Unreleased(a) = {}
    BY <1>8 DEF HandOnce
  <2>2. BaseOf[p] # BaseOf[a]
    BY <1>1, <1>8, <2>1 DEF Alone
  <2>3. of[a] \in Owner /\ cur[a] \in Cycle /\ stage'[of[a]] = stage[of[a]]
    BY <1>0, <1>c, <1>2, <1>8 DEF RolloutTypes
  <2>4. \A d \in InStage(BaseOf[a], stage[of[a]][cur[a]]) : <<of[a], cur[a], d>> \in pinned'
    BY <1>4, <2>1, <2>2, <2>3 DEF Unreleased, InStage
  <2> QED BY <1>0, <2>3, <2>4 DEF Unreleased, InStage
<1>9. of[a] \in Agent /\ at[a] = "publish" =>
        /\ order'[of[a]][cur[a]] # "completed" /\ todo[a] # {}
        /\ \A d \in todo[a] : <<of[a], cur[a], d>> \notin pinned'
  BY <1>0, <1>c, <1>2, <1>3 DEF HandOnce, RolloutTypes
<1> QED BY <1>0, <1>2, <1>5, <1>6, <1>7, <1>8, <1>9 DEF HandOnce

\* A report: an order it completes has nothing left to publish.
LEMMA ReportOnce ==
  ASSUME TypeInv, NEW a \in Agent, HandRight(a), OnceRight(a), HandOnce(a),
         NEW d \in Deployment, NEW h \in Health, ServerReport(d, h), UNCHANGED <<at, of, cur, todo>>
  PROVE  OnceRight(a)' /\ HandOnce(a)'
<1>0. RolloutTypes
  BY RolloutTyped
<1>c. at[a] \in {"spaces", "publish"} => cur[a] \in Cycle /\ of[a] \in Owner
  BY <1>0, RollsOne DEF RolloutTypes
<1>1. UNCHANGED <<stage, releases, pinned>>
  BY DEF ServerReport
<1>2. \A o \in Owner, n \in Cycle :
        order'[o][n] = IF Finished(o, n, health') THEN "completed" ELSE order[o][n]
  BY DEF ServerReport
<1>3. \A o \in Owner, n \in Cycle : order'[o][n] = "moving" => order[o][n] = "moving"
  BY <1>2
<1>4. OnceRight(a)'
  BY <1>0, <1>1, <1>3, OnceUntouched DEF RolloutTypes
<1>5. Alone(a) => Alone(a)'
  BY <1>3 DEF Alone
<1>6. Unreleased(a)' = Unreleased(a)
  BY <1>1 DEF Unreleased, InStage
<1>7. ASSUME at[a] \in {"spaces", "publish"}, order'[of[a]][cur[a]] = "completed",
             order[of[a]][cur[a]] # "completed"
      PROVE  /\ order[of[a]][cur[a]] = "moving"
             /\ of[a] \in Agent => at[a] = "spaces" /\ Unreleased(a) = {}
  <2>1. Finished(of[a], cur[a], health') /\ BaseOf[of[a]] = BaseOf[a]
    BY <1>0, <1>c, <1>2, <1>7 DEF RolloutTypes
  <2>2. /\ order[of[a]][cur[a]] = "moving"
        /\ \A e \in InStage(BaseOf[a], stage[of[a]][cur[a]]) : <<of[a], cur[a], e>> \in pinned
    BY <2>1 DEF Finished
  <2>3. of[a] \in Agent => at[a] # "publish"
    BY <2>2 DEF HandOnce, HandRight
  <2> QED BY <1>7, <2>2, <2>3 DEF Unreleased
<1>8. at[a] \in {"spaces", "publish"} /\ order'[of[a]][cur[a]] = "moving"
        => order[of[a]][cur[a]] = "moving"
  BY <1>c, <1>3
<1>9. at[a] \in {"spaces", "publish"} /\ order'[of[a]][cur[a]] \in {"moving", "completed"} => Alone(a)
  BY <1>7, <1>8 DEF HandOnce
<1>10. of[a] \in Agent /\ at[a] = "spaces" /\ order'[of[a]][cur[a]] = "completed" => Unreleased(a) = {}
  BY <1>7 DEF HandOnce
<1>11. of[a] \in Agent /\ at[a] = "publish" =>
         /\ order'[of[a]][cur[a]] # "completed" /\ todo[a] # {}
         /\ \A e \in todo[a] : <<of[a], cur[a], e>> \notin pinned
  BY <1>7 DEF HandOnce
<1> QED BY <1>1, <1>4, <1>5, <1>6, <1>9, <1>10, <1>11 DEF HandOnce

\* People, where nobody releases and no play names orders, and the delivery system.
LEMMA PeopleOnce ==
  ASSUME Env \cap {"play", "plain"} = {}, TypeInv, FlightInv,
         NEW a \in Agent, RolledRight(a), HandRight(a), OnceRight(a), HandOnce(a), People
  PROVE  OnceRight(a)' /\ HandOnce(a)'
<1>0. RolloutTypes /\ UNCHANGED <<at, of, cur, todo>>
  BY RolloutTyped, PeopleHands
<1>c. at[a] \in {"spaces", "publish"} => cur[a] \in Cycle /\ of[a] \in Owner
  BY <1>0, RollsOne DEF RolloutTypes
<1>2. CASE UNCHANGED <<order, stage, releases, pinned>>
  BY <1>0, <1>2 DEF OnceRight, HandOnce, Alone, Released, Unreleased, InStage
<1>3. ASSUME NEW p \in Person, NEW n \in Cycle, PlayFinishes(p, n)
      PROVE  OnceRight(a)' /\ HandOnce(a)'
  BY <1>3, FinishOnce
<1>4. ASSUME NEW o \in Owner, NEW n \in Cycle, AbortOrder(o, n)
      PROVE  OnceRight(a)' /\ HandOnce(a)'
  <2>1. /\ UNCHANGED <<stage, releases, pinned>>
        /\ \A q \in Owner, m \in Cycle : order'[q][m] \in {order[q][m], "terminal"}
    BY <1>0, <1>4 DEF AbortOrder, releaseVars, RolloutTypes
  <2>2. \A q \in Owner, m \in Cycle : order'[q][m] \in {"moving", "completed"} => order'[q][m] = order[q][m]
    BY <2>1
  <2>3. OnceRight(a)'
    BY <1>0, <2>1, <2>2, OnceUntouched DEF RolloutTypes
  <2>4. Alone(a) => Alone(a)'
    BY <1>0, <2>2 DEF Alone
  <2>5. Unreleased(a)' = Unreleased(a)
    BY <1>0, <2>1 DEF Unreleased, InStage
  <2>6. at[a] \in {"spaces", "publish"} /\ order'[of[a]][cur[a]] \in {"moving", "completed"}
          => order'[of[a]][cur[a]] = order[of[a]][cur[a]]
    BY <1>c, <2>2
  <2> QED BY <1>0, <2>1, <2>3, <2>4, <2>5, <2>6 DEF HandOnce
<1>5. ASSUME NEW d \in Deployment, NEW h \in Health, ServerReport(d, h)
      PROVE  OnceRight(a)' /\ HandOnce(a)'
  BY <1>0, <1>5, ReportOnce
<1> QED
  BY <1>2, <1>3, <1>4, <1>5
  DEF People, Approve, PersonOpens, PersonCloses, PlayNamesOrder, RuleArrives, PlainRelease, Observe,
      Incident, Heal, Health, Happens, ServerSetState, orderVars, releaseVars

\* Every step.
LEMMA NextOnce ==
  ASSUME Env \cap {"play", "plain"} = {}, TypeInv, FlightInv, RolloutInv, OnceInv, [Next]_vars
  PROVE  OnceInv'
<1> SUFFICES ASSUME NEW a \in Agent PROVE OnceRight(a)' /\ HandOnce(a)'
  BY DEF OnceInv
<1>0. RolledRight(a) /\ HandRight(a) /\ OnceRight(a) /\ HandOnce(a)
  BY DEF RolloutInv, OnceInv
<1>1. CASE Start \/ Crash
  <2>1. UNCHANGED <<order, releases, pinned>>
    BY <1>1 DEF Start, Crash, serverVars, orderVars, releaseVars
  <2>2. at'[a] = "rest"
    BY <1>1 DEF Start, Crash, TypeInv, Serial
  <2> QED BY <1>0, <2>1, <2>2, OnceUntouched DEF HandOnce
<1>2. ASSUME NEW c \in Agent, Move(c) \/ CallFails(c) \/ AnswerLost(c)
      PROVE  OnceRight(a)' /\ HandOnce(a)'
  <2>0. HandRight(c) /\ HandOnce(c) /\ (of[c] \in Agent => OnceRight(of[c]))
    BY DEF RolloutInv, OnceInv
  <2>1. OnceRight(a)'
    BY <1>0, <1>2, <2>0, MoveOnce
  <2>2. CASE c = a
    BY <1>2, <2>0, <2>1, <2>2, MoveHandOnce
  <2>3. CASE c # a
    <3>1. at'[a] = at[a]
      BY <1>2, <2>3
      DEF Move, CheckHeld, ReadRule, CreateChangeSet, EnterBase, BaseTaken, DiscardChangeSet, RunStep,
          CloseChangeSet, CloseRefused, AskReview, ListOrders, NameOrder, RolloutComplete, RolloutMoves,
          ResolveStage, PublishNext, Promote, CallFails, AnswerLost, Goes, Then, TypeInv, LocalTypeOK
    <3>2. at'[a] = "rest"
      BY <1>2, <2>3, <3>1, OthersRest
    <3> QED BY <2>1, <3>2 DEF HandOnce
  <2> QED BY <2>2, <2>3
<1>3. CASE People
  BY <1>0, <1>3, PeopleOnce
<1>4. CASE UNCHANGED vars
  <2>1. UNCHANGED <<order, stage, releases, pinned, at, of, cur, todo>>
    BY <1>4 DEF vars, serverVars, orderVars, releaseVars, runnerVars, localVars
  <2> QED BY <1>0, <2>1 DEF OnceRight, HandOnce, Alone, Released, Unreleased, InStage
<1> QED BY <1>1, <1>2, <1>3, <1>4 DEF Next

\* "a rollout picked up midway releases nothing twice": ReleasedUnder asks of each
\* space whether its latest Release is the order's, which holds after crashes,
\* failed calls, lost answers, aborts and incidents alike, as long as nobody
\* releases the space otherwise while the order moves.
THEOREM ReleasedOnce ==
  ASSUME Env \cap {"play", "plain"} = {}
  PROVE  Spec => []NothingTwice
<1>1. Init => OnceInv
  <2> SUFFICES ASSUME Init, NEW a \in Agent PROVE OnceRight(a) /\ HandOnce(a)
    BY DEF OnceInv
  <2>1. at[a] = "rest" /\ \A n \in Cycle, d \in Deployment : releases[a][n][d] = 0
    BY DEF Init, Owner
  <2> QED BY <2>1 DEF OnceRight, HandOnce, Released
<1>2. TypeInv /\ FlightInv /\ RolloutInv /\ OnceInv /\ [Next]_vars => FlightInv' /\ OnceInv'
  BY NextFlight, NextOnce
<1>3. OnceInv => NothingTwice
  BY DEF OnceInv, OnceRight, NothingTwice
<1> QED BY <1>1, <1>2, <1>3, InitFlight, RolloutInvAlways, PTL DEF Spec
=============================================================================

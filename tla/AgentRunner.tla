----------------------------- MODULE AgentRunner -----------------------------
(***************************************************************************)
(* `cub demo agents run` (internal/agents/runner.go): one process that     *)
(* serves the scenario's agents one move at a time. An agent's change goes *)
(* through the phases idle, closing, queued and rolling; every call a move *)
(* makes to the server is a step, so what people do lands between any two  *)
(* of them. The process may die at any step; Start is init and adopt.      *)
(***************************************************************************)
EXTENDS ConfigHub

CONSTANTS
  Rollout,         \* the agents with `rollout: true`
  Steps,           \* steps in an agent's change
  ReviewWorkflow,  \* the scenario declares workflows.review
  HasReviewer,     \* there is somebody to ask for a review
  Env,             \* the interferences that happen in this instance
  MaxEvents        \* bound: how many of them happen

EnvKinds == {"crash", "fault", "lost", "hold", "rule", "play", "abort", "plain", "incident"}

ASSUME RunnerAssumption ==
  /\ Rollout \subseteq Agent
  /\ Steps \in Nat /\ Steps >= 1
  /\ ReviewWorkflow \in BOOLEAN /\ HasReviewer \in BOOLEAN
  /\ Env \subseteq EnvKinds
  /\ MaxEvents \in Nat

VARIABLES
  up,               \* the process runs
  at,               \* [Agent]: the next call of its move, "rest" between moves
  phase,            \* [Agent]: idle, closing, queued, rolling
  of, cur,          \* [Agent]: the owner and number in its changeSet's slug; itself, 0 for none
  reviewRequested,  \* [Agent]
  cycle,            \* [Agent]
  sawRequired,      \* [Agent]: what this move read of its Component
  todo,             \* [Agent]: spaces this move has left to publish
  events            \* interferences so far

localVars == <<at, phase, of, cur, reviewRequested, cycle, sawRequired, todo>>
runnerVars == <<up, localVars>>
vars == <<serverVars, runnerVars, events>>

Phase == {"idle", "closing", "queued", "rolling"}
Call == {"rest", "rule", "create", "enter", "discard", "steps", "close", "ask",
         "orders", "name", "read", "spaces", "publish", "promote"}

Resting == \A a \in Agent : at[a] = "rest"

\* A move starts with the first call of its phase; a later call follows on.
Serving(a, call) == up /\ at[a] = call

BeginsUnserialised(a, p) == up /\ at[a] = "rest" /\ phase[a] = p

Begins(a, p) == up /\ Resting /\ phase[a] = p

Then(a, call) == at' = [at EXCEPT ![a] = call]

\* The move goes on, or ends, with nothing else done.
Goes(a, call) ==
  /\ Then(a, call)
  /\ UNCHANGED <<serverVars, up, phase, of, cur, reviewRequested, cycle, sawRequired, todo, events>>

-----------------------------------------------------------------------------
(* adopt: where an agent's work stands, read from the org *)

Highest(S) == IF S = {} THEN 0 ELSE CHOOSE m \in S : \A n \in S : n <= m

Named(a) == {n \in Cycle : changeSet[a][n] # "none"}
OpenOf(a) == {n \in Cycle : changeSet[a][n] = "Open"}
Ordered(a) == {n \in Cycle : order[a][n] # "none"}
Moving(a) == {n \in Cycle : order[a][n] = "moving"}

\* The highest number any ChangeSet or change order of the agent bears. With
\* an open ChangeSet adopt stops before it reads the orders.
LastCycleSummed(a) == Highest(Named(a)) + Highest(Ordered(a))

LastCycle(a) == IF OpenOf(a) # {} THEN Highest(Named(a))
                ELSE Highest(Named(a) \union Ordered(a))

\* adopt's cycleOf: the number in the slug of the agent's own, 0 for any other.
CycleOf(a, c) == IF c[1] = a THEN c[2] ELSE 0

\* The Closed ChangeSets of the base that bear the agent's number: its latest,
\* and for an agent with no ChangeSet of its own everybody's. adopt takes the
\* last one listed.
LatestClosed(a) ==
  {c \in Owner \X Cycle :
     /\ BaseOf[c[1]] = BaseOf[a] /\ changeSet[c[1]][c[2]] = "Closed"
     /\ CycleOf(a, c) = Highest(Named(a))}

\* Only the agent's own orders count as named.
Unnamed(a) == {c \in LatestClosed(a) : ~(c[1] = a /\ c[2] \in Ordered(a))}

Holds(p, o, n) == [phase |-> p, of |-> o, cur |-> n]
Idle(a) == Holds("idle", a, 0)

StandingUnqueued(a) ==
  IF OpenOf(a) # {}
    THEN {Holds("closing", a, Highest(OpenOf(a)))}
    ELSE IF Moving(a) # {} /\ Highest(Moving(a)) = LastCycle(a)
      THEN {Holds("rolling", a, Highest(Moving(a)))}
      ELSE {Idle(a)}

\* Where adopt may put the agent: one standing, unless several Closed
\* ChangeSets come into question.
Standing(a) ==
  IF OpenOf(a) # {}
    THEN {Holds("closing", a, Highest(OpenOf(a)))}
    ELSE IF Moving(a) # {} /\ Highest(Moving(a)) = LastCycle(a)
      THEN {Holds("rolling", a, Highest(Moving(a)))}
      ELSE IF Unnamed(a) # {} /\ a \in Rollout
        THEN {Holds("queued", c[1], c[2]) : c \in Unnamed(a)}
        ELSE {Idle(a)}

AskedForgotten(a) == FALSE

AlreadyAsked(a) == \E n \in OpenOf(a) : requests[a][n] > 0

\* init: every agent's standing. Nobody but the runner makes its agents'
\* ChangeSets, so reading these all at once is reading them one by one. (That a
\* person closes one of theirs between two agents' reads is left out.)
Start ==
  /\ ~up
  /\ up' = TRUE
  /\ \E standing \in [Agent -> UNION {Standing(a) : a \in Agent}] :
       /\ \A a \in Agent : standing[a] \in Standing(a)
       /\ phase' = [a \in Agent |-> standing[a].phase]
       /\ of' = [a \in Agent |-> standing[a].of]
       /\ cur' = [a \in Agent |-> standing[a].cur]
  /\ cycle' = [a \in Agent |-> LastCycle(a)]
  /\ reviewRequested' = [a \in Agent |-> AlreadyAsked(a)]
  /\ UNCHANGED <<serverVars, at, sawRequired, todo, events>>

-----------------------------------------------------------------------------
(* open *)

\* heldBy: a held base is waited for.
CheckHeld(a) ==
  /\ Begins(a, "idle")
  /\ cycle[a] < MaxCycle
  /\ Holding(BaseOf[a]) = {}
  /\ Goes(a, "rule")

\* requiresWorkflow; required with no review workflow seeded is an error.
ReadRule(a) ==
  LET needed == required[BaseOf[a]] IN
  /\ Serving(a, "rule")
  /\ sawRequired' = [sawRequired EXCEPT ![a] = needed]
  /\ Then(a, IF needed /\ ~ReviewWorkflow THEN "rest" ELSE "create")
  /\ UNCHANGED <<serverVars, up, phase, of, cur, reviewRequested, cycle, todo, events>>

NextCycle(a) == cycle[a] + 1

CreateChangeSet(a) ==
  /\ Serving(a, "create")
  /\ \/ ServerCreate(a, NextCycle(a), sawRequired[a]) /\ Then(a, "enter")
     \/ ~CanCreate(a, NextCycle(a), sawRequired[a]) /\ Then(a, "rest") /\ UNCHANGED serverVars
  /\ UNCHANGED <<up, phase, of, cur, reviewRequested, cycle, sawRequired, todo, events>>

\* The base is entered and the change is the agent's to write and close ...
EnterBase(a) ==
  /\ Serving(a, "enter")
  /\ CanOpen(a, NextCycle(a))
  /\ ServerSetState(a, NextCycle(a), "Open")
  /\ cycle' = [cycle EXCEPT ![a] = NextCycle(a)]
  /\ cur' = [cur EXCEPT ![a] = NextCycle(a)]
  /\ reviewRequested' = [reviewRequested EXCEPT ![a] = FALSE]
  /\ phase' = [phase EXCEPT ![a] = "closing"]
  /\ Then(a, "steps")
  /\ UNCHANGED <<up, of, sawRequired, todo, events>>

\* ... or somebody took it since the check, and the ChangeSet is deleted.
BaseTaken(a) ==
  /\ Serving(a, "enter")
  /\ ~CanOpen(a, NextCycle(a))
  /\ Goes(a, "discard")

DiscardForgotten(a) ==
  /\ Serving(a, "discard")
  /\ Goes(a, "rest")

DiscardChangeSet(a) ==
  /\ Serving(a, "discard")
  /\ ServerSetState(a, NextCycle(a), "none")
  /\ Then(a, "rest")
  /\ UNCHANGED <<up, phase, of, cur, reviewRequested, cycle, sawRequired, todo, events>>

\* RunSteps, one write inside the ChangeSet at a time.
RunStep(a) ==
  /\ Serving(a, "steps")
  /\ ServerWrite(a, cur[a])
  /\ Then(a, IF written'[a][cur[a]] = Steps THEN "close" ELSE "steps")
  /\ UNCHANGED <<up, phase, of, cur, reviewRequested, cycle, sawRequired, todo, events>>

-----------------------------------------------------------------------------
(* close *)

CloseChangeSet(a) ==
  /\ Serving(a, "close") \/ Begins(a, "closing")
  /\ GatesHold(a, cur[a])
  /\ ServerSetState(a, cur[a], "Closed")
  /\ IF a \in Rollout
       THEN /\ phase' = [phase EXCEPT ![a] = "queued"]
            /\ Then(a, "orders")
            /\ cur' = cur
       ELSE /\ phase' = [phase EXCEPT ![a] = "idle"]
            /\ Then(a, "rest")
            /\ cur' = [cur EXCEPT ![a] = 0]
  /\ UNCHANGED <<up, of, reviewRequested, cycle, sawRequired, todo, events>>

CloseInsists(a) ==
  /\ Serving(a, "close") \/ Begins(a, "closing")
  /\ ~GatesHold(a, cur[a])
  /\ Goes(a, IF ~reviewRequested[a] /\ HasReviewer THEN "ask" ELSE "close")

\* Refused by the gates: ask the reviewer unless that was done, and wait.
CloseRefused(a) ==
  /\ Serving(a, "close") \/ Begins(a, "closing")
  /\ ~GatesHold(a, cur[a])
  /\ Goes(a, IF ~reviewRequested[a] /\ HasReviewer THEN "ask" ELSE "rest")

AskForgetful(a) ==
  /\ Serving(a, "ask")
  /\ ServerAsk(a, cur[a])
  /\ Then(a, "rest")
  /\ UNCHANGED <<up, phase, of, cur, reviewRequested, cycle, sawRequired, todo, events>>

AskReview(a) ==
  /\ Serving(a, "ask")
  /\ ServerAsk(a, cur[a])
  /\ reviewRequested' = [reviewRequested EXCEPT ![a] = TRUE]
  /\ Then(a, "rest")
  /\ UNCHANGED <<up, phase, of, cur, cycle, sawRequired, todo, events>>

-----------------------------------------------------------------------------
(* queue and startRollout *)

\* The change in hand is of[a]'s cur[a]: the agent's own, or what adopt took.
OwnMoving(a) == \E n \in Cycle : order[a][n] = "moving" /\ n # cur[a]

\* Another change order of the component that is neither done nor terminal.
OtherMoving(a) ==
  \E o \in Owner, n \in Cycle :
    BaseOf[o] = BaseOf[a] /\ order[o][n] = "moving" /\ ~(o = of[a] /\ n = cur[a])

ListOrdersGivesUp(a) ==
  /\ Serving(a, "orders") \/ Begins(a, "queued")
  /\ Then(a, IF OtherMoving(a) THEN "rest" ELSE "name")
  /\ phase' = [phase EXCEPT ![a] = IF OtherMoving(a) THEN "idle" ELSE @]
  /\ of' = [of EXCEPT ![a] = IF OtherMoving(a) THEN a ELSE @]
  /\ cur' = [cur EXCEPT ![a] = IF OtherMoving(a) THEN 0 ELSE @]
  /\ UNCHANGED <<serverVars, up, reviewRequested, cycle, sawRequired, todo, events>>

ListOrders(a) ==
  /\ Serving(a, "orders") \/ Begins(a, "queued")
  /\ Goes(a, IF OtherMoving(a) THEN "rest" ELSE "name")

\* Refused where the slug is taken, which adopt knows of its own orders only.
NameOrder(a) ==
  /\ Serving(a, "name")
  /\ \/ /\ ServerCreateOrder(of[a], cur[a])
        /\ phase' = [phase EXCEPT ![a] = "rolling"]
        /\ Then(a, "read")
     \/ order[of[a]][cur[a]] # "none" /\ Then(a, "rest") /\ UNCHANGED <<serverVars, phase>>
  /\ UNCHANGED <<up, of, cur, reviewRequested, cycle, sawRequired, todo, events>>

-----------------------------------------------------------------------------
(* roll *)

\* The order is complete: the change is done ...
RolloutComplete(a) ==
  /\ Serving(a, "read") \/ Begins(a, "rolling")
  /\ order[of[a]][cur[a]] = "completed"
  /\ phase' = [phase EXCEPT ![a] = "idle"]
  /\ of' = [of EXCEPT ![a] = a]
  /\ cur' = [cur EXCEPT ![a] = 0]
  /\ Then(a, "rest")
  /\ UNCHANGED <<serverVars, up, reviewRequested, cycle, sawRequired, todo, events>>

\* ... or it is moved on, whatever its State says: first the stage it is in
\* is released, then it is promoted.
RolloutMoves(a) ==
  /\ Serving(a, "read") \/ Begins(a, "rolling")
  /\ order[of[a]][cur[a]] # "completed"
  /\ Goes(a, IF stage[of[a]][cur[a]] = 0 THEN "promote" ELSE "spaces")

WholeStage(a) == InStage(BaseOf[a], stage[of[a]][cur[a]])

AnyStage(a) ==
  {d \in Deployment : DeployedFrom[d] = BaseOf[a] /\ <<of[a], cur[a], d>> \notin pinned}

\* Resolve and ReleasedUnder: the stage's spaces whose latest Release was not
\* published for this order.
Unreleased(a) ==
  {d \in InStage(BaseOf[a], stage[of[a]][cur[a]]) : <<of[a], cur[a], d>> \notin pinned}

ResolveStage(a) ==
  /\ Serving(a, "spaces")
  /\ todo' = [todo EXCEPT ![a] = Unreleased(a)]
  /\ Then(a, IF Unreleased(a) = {} THEN "promote" ELSE "publish")
  /\ UNCHANGED <<serverVars, up, phase, of, cur, reviewRequested, cycle, sawRequired, events>>

\* The spaces are published in slug order; the first refusal ends the move.
PublishNext(a) ==
  /\ Serving(a, "publish")
  /\ \E d \in todo[a] :
       /\ \A e \in todo[a] : d <= e
       /\ \/ /\ ServerPublish(of[a], cur[a], d)
             /\ todo' = [todo EXCEPT ![a] = @ \ {d}]
             /\ Then(a, IF todo[a] = {d} THEN "promote" ELSE "publish")
          \/ /\ order[of[a]][cur[a]] = "terminal"
             /\ todo' = [todo EXCEPT ![a] = {}]
             /\ Then(a, "rest")
             /\ UNCHANGED serverVars
  /\ UNCHANGED <<up, phase, of, cur, reviewRequested, cycle, sawRequired, events>>

\* A refused promotion is what the agent waits on.
Promote(a) ==
  /\ Serving(a, "promote")
  /\ \/ ServerPromote(of[a], cur[a])
     \/ ~CanPromote(of[a], cur[a]) /\ UNCHANGED serverVars
  /\ Then(a, "rest")
  /\ UNCHANGED <<up, phase, of, cur, reviewRequested, cycle, sawRequired, todo, events>>

Move(a) ==
  \/ CheckHeld(a) \/ ReadRule(a) \/ CreateChangeSet(a) \/ EnterBase(a)
  \/ BaseTaken(a) \/ DiscardChangeSet(a) \/ RunStep(a)
  \/ CloseChangeSet(a) \/ CloseRefused(a) \/ AskReview(a)
  \/ ListOrders(a) \/ NameOrder(a)
  \/ RolloutComplete(a) \/ RolloutMoves(a) \/ ResolveStage(a)
  \/ PublishNext(a) \/ Promote(a)

-----------------------------------------------------------------------------
(* What goes wrong *)

Happens(kind) == kind \in Env /\ events < MaxEvents /\ events' = events + 1

\* A call fails without effect: the move ends, and Run only logs it.
CallFails(a) ==
  /\ Happens("fault")
  /\ up /\ at[a] # "rest"
  /\ Then(a, "rest")
  /\ todo' = [todo EXCEPT ![a] = {}]
  /\ UNCHANGED <<serverVars, up, phase, of, cur, reviewRequested, cycle, sawRequired>>

\* A call takes effect and its answer is lost: the move ends all the same. (What
\* closing a closed ChangeSet answers is not known; close is left out.)
AnswerLost(a) ==
  /\ Happens("lost")
  /\ \/ Serving(a, "create") /\ ServerCreate(a, NextCycle(a), sawRequired[a])
     \/ Serving(a, "enter") /\ CanOpen(a, NextCycle(a)) /\ ServerSetState(a, NextCycle(a), "Open")
     \/ Serving(a, "steps") /\ ServerWrite(a, cur[a])
     \/ Serving(a, "ask") /\ ServerAsk(a, cur[a])
     \/ Serving(a, "name") /\ ServerCreateOrder(of[a], cur[a])
     \/ Serving(a, "promote") /\ ServerPromote(of[a], cur[a])
     \/ /\ Serving(a, "publish")
        /\ \E d \in todo[a] : (\A e \in todo[a] : d <= e) /\ ServerPublish(of[a], cur[a], d)
  /\ Then(a, "rest")
  /\ todo' = [todo EXCEPT ![a] = {}]
  /\ UNCHANGED <<up, phase, of, cur, reviewRequested, cycle, sawRequired>>

\* The process ends, at rest or between two calls, and its memory with it.
Crash ==
  /\ Happens("crash")
  /\ up
  /\ up' = FALSE
  /\ at' = [a \in Agent |-> "rest"]
  /\ phase' = [a \in Agent |-> "idle"]
  /\ of' = [a \in Agent |-> a]
  /\ cur' = [a \in Agent |-> 0]
  /\ cycle' = [a \in Agent |-> 0]
  /\ reviewRequested' = [a \in Agent |-> FALSE]
  /\ sawRequired' = [a \in Agent |-> FALSE]
  /\ todo' = [a \in Agent |-> {}]
  /\ UNCHANGED serverVars

=============================================================================

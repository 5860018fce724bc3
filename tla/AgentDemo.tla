------------------------------ MODULE AgentDemo ------------------------------
(***************************************************************************)
(* The agents' runner at work in an org where people hold bases, approve   *)
(* or do not, run plays, abort rollouts and publish Releases, and where a  *)
(* delivery system reports on what is released.                            *)
(***************************************************************************)
EXTENDS AgentRunner

(* What people and the delivery system do meanwhile *)

\* A reviewer's approval, in the UI or with `cub variant approve`.
Approve(a, n) ==
  /\ changeSet[a][n] = "Open" /\ ruled[a][n] /\ ~approved[a][n]
  /\ approved' = [approved EXCEPT ![a][n] = TRUE]
  /\ UNCHANGED <<required, changeSet, ruled, requests, written, orderVars, releaseVars>>
  /\ UNCHANGED <<runnerVars, events>>

\* A person holds a base with a ChangeSet of theirs, and lets go.
PersonOpens(p, n) ==
  /\ Happens("hold")
  /\ changeSet[p][n] = "none" /\ Holding(BaseOf[p]) = {}
  /\ ServerSetState(p, n, "Open")
  /\ UNCHANGED runnerVars

PersonCloses(p, n) ==
  /\ changeSet[p][n] = "Open"
  /\ ServerSetState(p, n, "Closed")
  /\ UNCHANGED <<runnerVars, events>>

\* `cub component update --change-workflow-required`, a play's beat.
RuleArrives(b) ==
  /\ Happens("rule")
  /\ ~required[b]
  /\ required' = [required EXCEPT ![b] = TRUE]
  /\ UNCHANGED <<changeSetVars, orderVars, releaseVars, runnerVars>>

\* A play's changeorder step looks only for its own slug.
PlayNamesOrder(p, n) ==
  /\ Happens("play")
  /\ ServerCreateOrder(p, n)
  /\ UNCHANGED runnerVars

\* A presenter walks a change order of theirs through its last stage.
PlayFinishes(p, n) ==
  LET reached == {d \in Deployment : DeployedFrom[d] = BaseOf[p]}
      latest == {p} \X {n} \X reached
      others(S) == {t \in S : t[3] \notin reached}
  IN
  /\ order[p][n] = "moving"
  /\ order' = [order EXCEPT ![p][n] = "completed"]
  /\ stage' = [stage EXCEPT ![p][n] = LastStage]
  /\ pinned' = others(pinned) \union latest
  /\ carried' = others(carried) \union latest
  /\ health' = [d \in Deployment |-> IF d \in reached THEN "healthy" ELSE health[d]]
  /\ UNCHANGED <<required, changeSetVars, releases, runnerVars, events>>

AbortOrder(o, n) ==
  /\ Happens("abort")
  /\ order[o][n] = "moving"
  /\ order' = [order EXCEPT ![o][n] = "terminal"]
  /\ UNCHANGED <<required, changeSetVars, stage, releaseVars, runnerVars>>

PlainRelease(d) ==
  /\ Happens("plain")
  /\ ServerPublishPlain(d)
  /\ UNCHANGED runnerVars

\* Argobot: a latest Release nobody has reported on is reported healthy.
Observe(d) ==
  /\ health[d] = "unreported"
  /\ ServerReport(d, "healthy")
  /\ UNCHANGED <<runnerVars, events>>

Incident(d) ==
  /\ Happens("incident")
  /\ health[d] \in {"unreported", "healthy"}
  /\ ServerReport(d, "degraded")
  /\ UNCHANGED runnerVars

Heal(d) ==
  /\ health[d] = "degraded"
  /\ ServerReport(d, "healthy")
  /\ UNCHANGED <<runnerVars, events>>

People ==
  \/ \E a \in Agent, n \in Cycle : Approve(a, n)
  \/ \E p \in Person, n \in Cycle :
       PersonOpens(p, n) \/ PersonCloses(p, n) \/ PlayNamesOrder(p, n) \/ PlayFinishes(p, n)
  \/ \E o \in Owner, n \in Cycle : AbortOrder(o, n)
  \/ \E b \in Base : RuleArrives(b)
  \/ \E d \in Deployment : PlainRelease(d) \/ Observe(d) \/ Incident(d) \/ Heal(d)

-----------------------------------------------------------------------------
\* A seeded org: any deployment may be released, any component may require
\* review, and a component may have one story in flight, a presenter's.
Init ==
  /\ required \in [Base -> BOOLEAN]
  /\ changeSet = [o \in Owner |-> [n \in Cycle |-> "none"]]
  /\ ruled = [o \in Owner |-> [n \in Cycle |-> FALSE]]
  /\ requests = [o \in Owner |-> [n \in Cycle |-> 0]]
  /\ approved = [o \in Owner |-> [n \in Cycle |-> FALSE]]
  /\ written = [o \in Owner |-> [n \in Cycle |-> 0]]
  /\ \E stories \in SUBSET Person :
       /\ \A p, q \in stories : BaseOf[p] = BaseOf[q] => p = q
       /\ order = [o \in Owner |-> [n \in Cycle |->
                     IF o \in stories /\ n = 1 THEN "moving" ELSE "none"]]
  /\ stage = [o \in Owner |-> [n \in Cycle |-> 0]]
  /\ pinned = {} /\ carried = {}
  /\ health \in [Deployment -> {"none", "healthy"}]
  /\ releases = [o \in Owner |-> [n \in Cycle |-> [d \in Deployment |-> 0]]]
  /\ up = FALSE
  /\ at = [a \in Agent |-> "rest"]
  /\ phase = [a \in Agent |-> "idle"]
  /\ of = [a \in Agent |-> a]
  /\ cur = [a \in Agent |-> 0]
  /\ reviewRequested = [a \in Agent |-> FALSE]
  /\ cycle = [a \in Agent |-> 0]
  /\ sawRequired = [a \in Agent |-> FALSE]
  /\ todo = [a \in Agent |-> {}]
  /\ events = 0

Next == Start \/ (\E a \in Agent : Move(a) \/ CallFails(a) \/ AnswerLost(a)) \/ Crash \/ People

Spec == Init /\ [][Next]_vars

-----------------------------------------------------------------------------
(* Properties *)

TypeOK ==
  /\ ServerTypeOK
  /\ up \in BOOLEAN
  /\ at \in [Agent -> Call]
  /\ phase \in [Agent -> Phase]
  /\ of \in [Agent -> Owner]
  /\ cur \in [Agent -> 0 .. MaxCycle]
  /\ reviewRequested \in [Agent -> BOOLEAN]
  /\ cycle \in [Agent -> 0 .. MaxCycle]
  /\ sawRequired \in [Agent -> BOOLEAN]
  /\ todo \in [Agent -> SUBSET Deployment]
  /\ events \in 0 .. MaxEvents

\* One component's changes go out one at a time (queue): whatever agents share
\* a base and however often the runner dies between listing the orders and
\* naming its own, no two orders of a component move at once.
OneInFlight ==
  \A o, q \in Owner : \A n, m \in Cycle :
    /\ BaseOf[o] = BaseOf[q]
    /\ order[o][n] = "moving" /\ order[q][m] = "moving"
    => o = q /\ n = m

\* No closed change of a rollout agent is dropped (adopt): one that no order
\* names yet is what a runner started now would roll out next.
NoChangeDropped ==
  \A a \in Rollout : \A n \in Cycle :
    changeSet[a][n] = "Closed" /\ order[a][n] = "none"
      => Standing(a) = {Holds("queued", a, n)}

\* The runner keeps no state of its own (DESIGN.md, Agents): between moves
\* every agent with a ChangeSet of its own stands where adopt would put it, but
\* for a rollout that was completed since its last move and for a change whose
\* order an agent named that had none of its own. Such an agent is idle, or
\* holds a closed change of the base that is not its own (adopt).
StandingIsOrgs ==
  up /\ Resting =>
    \A a \in Agent :
      IF Named(a) = {} /\ phase[a] # "closing"
        THEN /\ cycle[a] = 0
             /\ \/ Holds(phase[a], of[a], cur[a]) = Idle(a)
                \/ /\ phase[a] \in {"queued", "rolling"} /\ a \in Rollout /\ of[a] # a
                   /\ BaseOf[of[a]] = BaseOf[a] /\ changeSet[of[a]][cur[a]] = "Closed"
        ELSE /\ cycle[a] = LastCycle(a)
             /\ \/ Standing(a) = {Holds(phase[a], of[a], cur[a])}
                \/ phase[a] = "rolling" /\ order[a][cur[a]] = "completed" /\ Standing(a) = {Idle(a)}
                \/ /\ order[a][cycle[a]] # "none"
                   /\ phase[a] = IF a \in Rollout THEN "queued" ELSE "idle"
             /\ phase[a] = "closing" => (reviewRequested[a] <=> requests[a][cur[a]] > 0)

\* roll releases before it promotes: nothing is released in a stage the order
\* has not entered or before every earlier stage was, and a completed order
\* was released everywhere.
StageByStage ==
  \A a \in Agent : \A n \in Cycle :
    LET released == {d \in Deployment : releases[a][n][d] > 0}
        own == {d \in Deployment : DeployedFrom[d] = BaseOf[a]}
    IN  /\ \A d \in released : StageOf[d] <= stage[a][n]
        /\ \A d \in released, e \in own : StageOf[e] < StageOf[d] => e \in released
        /\ order[a][n] = "completed" => own \subseteq released

\* "a rollout picked up midway releases nothing twice" (present/status.go).
NothingTwice ==
  \A a \in Agent : \A n \in Cycle : \A d \in Deployment : releases[a][n][d] <= 1

\* "The agent asks the reviewer once" (DESIGN.md), over restarts too.
AskedOnce == \A a \in Agent : \A n \in Cycle : requests[a][n] <= 1

\* A ChangeSet is closed with the agent's whole change inside it.
WholeChange ==
  \A a \in Agent : \A n \in Cycle : changeSet[a][n] = "Closed" => written[a][n] = Steps

\* A change the agent has opened goes through: it is closed and, with
\* `rollout: true`, released everywhere (DESIGN.md: the agent "waits", and a
\* runner interrupted mid-demo "picks up where the org stands").
ChangesFinish ==
  \A a \in Agent, n \in Cycle :
    changeSet[a][n] = "Open" ~>
      IF a \in Rollout THEN order[a][n] = "completed" ELSE changeSet[a][n] = "Closed"

\* The agents "keep making changes" (DESIGN.md): each gets through as many as
\* the bound lets it start, and is never stuck on one.
KeepsChanging ==
  \A a \in Agent : <>[](up /\ phase[a] = "idle" /\ cycle[a] = MaxCycle)

\* The runner implements the pipeline of its agents' changes: crashes, failed
\* calls, lost answers, held bases, aborted orders and plain Releases do not
\* make one change overtake, overlap or skip a stage of another.
Standings(a, n) ==
  CASE order[a][n] = "moving" -> "rolling"
    [] order[a][n] = "completed" -> "done"
    [] order[a][n] = "terminal" -> "abandoned"
    [] order[a][n] = "none" /\ changeSet[a][n] = "Open" -> "open"
    [] order[a][n] = "none" /\ changeSet[a][n] = "Closed" -> "closed"
    [] OTHER -> "absent"

Pipeline == INSTANCE ChangePipeline WITH
  change <- [a \in Agent |-> [n \in Cycle |-> Standings(a, n)]],
  reached <- [a \in Agent |-> [n \in Cycle |-> stage[a][n]]],
  shipped <- [a \in Agent |-> [n \in Cycle |-> {d \in Deployment : releases[a][n][d] > 0}]]

ImplementsPipeline == Pipeline!Spec

\* "A change to another component goes through" (DESIGN.md): an agent whose
\* component asks for no review and which nobody else works on gets through
\* its changes, whoever the others wait for.
OthersGoThrough ==
  \A a \in {c \in Agent : \A o \in Owner \ {c} : BaseOf[o] # BaseOf[c]} :
    []~required[BaseOf[a]] => <>[](phase[a] = "idle" /\ cycle[a] = MaxCycle)

-----------------------------------------------------------------------------
(* Run serves every agent whose interval is up, on every pass; an agent that  *)
(* can move whenever the runner is between moves is served in the end.        *)
RunnerFairness == WF_vars(Start) /\ \A a \in Agent : SF_vars(Move(a))

\* The tick agents report what was published, and an incident is repaired.
DeliveryFairness == \A d \in Deployment : WF_vars(Observe(d)) /\ WF_vars(Heal(d))

\* Reviewers approve, and presenters let go of a base and end their rollouts.
PeopleFairness ==
  /\ \A a \in Agent, n \in Cycle : WF_vars(Approve(a, n))
  /\ \A p \in Person, n \in Cycle : WF_vars(PersonCloses(p, n)) /\ WF_vars(PlayFinishes(p, n))

FairSpec == Spec /\ RunnerFairness /\ DeliveryFairness /\ PeopleFairness

\* No approval need come, no base be let go of, no play's rollout end.
UnattendedSpec == Spec /\ RunnerFairness /\ DeliveryFairness
=============================================================================

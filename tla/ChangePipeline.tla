---------------------------- MODULE ChangePipeline ----------------------------
(***************************************************************************)
(* What the agents promise of their changes, with no runner, no calls and  *)
(* no crashes: an agent works on one change at a time, one change holds a  *)
(* component's base at a time, one of a component's changes rolls out at a *)
(* time, and it is released stage by stage.  AgentRunner implements it.    *)
(***************************************************************************)
EXTENDS Naturals

CONSTANTS Agent, Rollout, Base, BaseOf, Deployment, DeployedFrom, StageOf, LastStage, MaxCycle

Cycle == 1 .. MaxCycle

VARIABLES
  change,   \* [Agent][Cycle]: where the change stands
  reached,  \* [Agent][Cycle]: the stage its rollout is in
  shipped   \* [Agent][Cycle]: the deployments it was released to

vars == <<change, reached, shipped>>

Standings == {"absent", "open", "closed", "rolling", "done", "abandoned"}

TypeOK ==
  /\ change \in [Agent -> [Cycle -> Standings]]
  /\ reached \in [Agent -> [Cycle -> 0 .. LastStage]]
  /\ shipped \in [Agent -> [Cycle -> SUBSET Deployment]]

InStage(b, k) == {d \in Deployment : DeployedFrom[d] = b /\ StageOf[d] = k}

\* A change an agent is not done with.
Pending(a, n) ==
  \/ change[a][n] = "open"
  \/ change[a][n] \in {"closed", "rolling"} /\ a \in Rollout

Init ==
  /\ change = [a \in Agent |-> [n \in Cycle |-> "absent"]]
  /\ reached = [a \in Agent |-> [n \in Cycle |-> 0]]
  /\ shipped = [a \in Agent |-> [n \in Cycle |-> {}]]

Open(a, n) ==
  /\ \A m \in Cycle : m >= n => change[a][m] = "absent"
  /\ \A m \in Cycle : ~Pending(a, m)
  /\ \A c \in Agent, m \in Cycle : BaseOf[c] = BaseOf[a] => change[c][m] # "open"
  /\ change' = [change EXCEPT ![a][n] = "open"]
  /\ UNCHANGED <<reached, shipped>>

Close(a, n) ==
  /\ change[a][n] = "open"
  /\ change' = [change EXCEPT ![a][n] = "closed"]
  /\ UNCHANGED <<reached, shipped>>

\* By an agent of the component that rolls out, which need not be the change's.
StartRollout(a, n) ==
  /\ change[a][n] = "closed" /\ \E c \in Rollout : BaseOf[c] = BaseOf[a]
  /\ \A c \in Agent, m \in Cycle : BaseOf[c] = BaseOf[a] => change[c][m] # "rolling"
  /\ change' = [change EXCEPT ![a][n] = "rolling"]
  /\ UNCHANGED <<reached, shipped>>

Release(a, n, d) ==
  /\ change[a][n] = "rolling"
  /\ d \in InStage(BaseOf[a], reached[a][n])
  /\ shipped' = [shipped EXCEPT ![a][n] = @ \union {d}]
  /\ UNCHANGED <<change, reached>>

StageShipped(a, n) == InStage(BaseOf[a], reached[a][n]) \subseteq shipped[a][n]

EnterStage(a, n) ==
  /\ change[a][n] = "rolling"
  /\ reached[a][n] < LastStage
  /\ StageShipped(a, n)
  /\ reached' = [reached EXCEPT ![a][n] = @ + 1]
  /\ UNCHANGED <<change, shipped>>

Finish(a, n) ==
  /\ change[a][n] = "rolling"
  /\ reached[a][n] = LastStage
  /\ StageShipped(a, n)
  /\ change' = [change EXCEPT ![a][n] = "done"]
  /\ UNCHANGED <<reached, shipped>>

Abandon(a, n) ==
  /\ change[a][n] = "rolling"
  /\ change' = [change EXCEPT ![a][n] = "abandoned"]
  /\ UNCHANGED <<reached, shipped>>

Next == \E a \in Agent, n \in Cycle :
  \/ Open(a, n) \/ Close(a, n) \/ StartRollout(a, n)
  \/ \E d \in Deployment : Release(a, n, d)
  \/ EnterStage(a, n) \/ Finish(a, n) \/ Abandon(a, n)

Spec == Init /\ [][Next]_vars
=============================================================================

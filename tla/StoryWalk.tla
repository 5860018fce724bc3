----------------------------- MODULE StoryWalk -----------------------------
(***************************************************************************)
(* What `up` promises of the scenario's stories, with no phases, runs,     *)
(* pools or failures: a story's change goes from class to class, into one  *)
(* when every deployment of the class before runs it and none past where   *)
(* the story lands; no deployment that runs it ever goes without it again; *)
(* its order completes when all of the last class runs it, and then it is  *)
(* at rest. SeedStories implements it.                                     *)
(***************************************************************************)
EXTENDS Naturals

CONSTANTS Story, Space, ComponentOf, StageOf, LandedThrough, LastStage

VARIABLES
  order,    \* [Story]: the change order: none, moving or completed
  spread,   \* [Story]: promoted into the class bases
  reached,  \* [Story]: the deployments the change was promoted into
  running   \* [Story]: those whose latest Release has it

vars == <<order, spread, reached, running>>

InClass(i, k) == {s \in Space : ComponentOf[s] = ComponentOf[i] /\ StageOf[s] = k}
Moving(i) == order[i] = "moving"

Init ==
  /\ order = [i \in Story |-> "none"]
  /\ spread = [i \in Story |-> FALSE]
  /\ reached = [i \in Story |-> {}]
  /\ running = [i \in Story |-> {}]

Name(i) ==
  /\ order[i] = "none"
  /\ order' = [order EXCEPT ![i] = "moving"]
  /\ UNCHANGED <<spread, reached, running>>

IntoBases(i) ==
  /\ Moving(i)
  /\ spread' = [spread EXCEPT ![i] = TRUE]
  /\ UNCHANGED <<order, reached, running>>

\* Some spaces S of class k, when all of the one before runs the change.
IntoClass(i, k, S) ==
  /\ Moving(i) /\ spread[i]
  /\ k <= LandedThrough[i]
  /\ InClass(i, k - 1) \subseteq running[i]
  /\ reached' = [reached EXCEPT ![i] = @ \union S]
  /\ UNCHANGED <<order, spread, running>>

Release(i, s) ==
  /\ Moving(i) /\ s \in reached[i]
  /\ running' = [running EXCEPT ![i] = @ \union {s}]
  /\ UNCHANGED <<order, spread, reached>>

Complete(i) ==
  /\ Moving(i) /\ InClass(i, LastStage[i]) \subseteq running[i]
  /\ order' = [order EXCEPT ![i] = "completed"]
  /\ UNCHANGED <<spread, reached, running>>

Next == \E i \in Story :
  \/ Name(i) \/ IntoBases(i)
  \/ \E k \in 2 .. LastStage[i] : \E S \in SUBSET InClass(i, k) : IntoClass(i, k, S)
  \/ \E s \in Space : Release(i, s)
  \/ Complete(i)

Spec == Init /\ [][Next]_vars
=============================================================================

---------------------------- MODULE MCAgentDemo ----------------------------
(* Small instances of AgentDemo. *)
EXTENDS AgentDemo, TLC

CONSTANTS a1, a2, p1, b1, b2

\* Two agents and a presenter on one component, one deployment per class.
SharedBase == [o \in {a1, a2, p1} |-> b1]
OneEach == [d \in 1 .. 2 |-> d + 1]
AllFromB1 == [d \in 1 .. 2 |-> b1]

\* The second agent on a component of its own, with a deployment each.
OwnBases == (a1 :> b1) @@ (a2 :> b2) @@ (p1 :> b1)
FromOwn == (1 :> b1) @@ (2 :> b2)
OwnStages == [d \in 1 .. 2 |-> 2]
=============================================================================

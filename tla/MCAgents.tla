------------------------------ MODULE MCAgents ------------------------------
(* Two instances of AgentDemo in one run, twice over. Which of the two a     *)
(* behaviour is of never changes.                                            *)
EXTENDS MCAgentDemo

VARIABLE which

-----------------------------------------------------------------------------
(* Safety: two changes each and one event, or one change each and two events *)
(* of more kinds in an org where nothing is released yet.                    *)

Calm == INSTANCE AgentDemo WITH Env <- {"crash", "hold", "rule", "incident"}, MaxEvents <- 1

\* The two agents differ in nothing but their names.
Twins == Permutations({a1, a2})

OneChange ==
  /\ \A o \in Owner : changeSet[o][2] = "none" /\ order[o][2] = "none"
  /\ \A a \in Agent : cycle[a] < 2

SafeInit ==
  /\ Init /\ which \in {"calm", "disturbed"}
  /\ which = "disturbed" => \A d \in Deployment : health[d] = "none"
SafeNext ==
  /\ UNCHANGED which
  /\ \/ which = "calm" /\ Calm!Next
     \/ which = "disturbed" /\ Next /\ OneChange'
Safe == SafeInit /\ [][SafeNext]_<<vars, which>>

\* With no call that fails, what the runner remembers is what adopt would find
\* (StandingIsOrgs).
CalmStandingIsOrgs == which = "calm" => StandingIsOrgs

\* "a rollout picked up midway releases nothing twice" (NothingTwice), where
\* nobody releases the space otherwise meanwhile.
CalmNothingTwice == which = "calm" => NothingTwice

\* "The agent asks the reviewer once" (AskedOnce), as long as the answer to the
\* request comes back.
CalmAskedOnce == which = "calm" => AskedOnce

-----------------------------------------------------------------------------
(* Liveness: two agents and a presenter on one component with everybody doing *)
(* their part, or an agent with a component of its own and nobody obliged.    *)

Apart == INSTANCE AgentDemo WITH
  Base <- {b1, b2}, BaseOf <- OwnBases, Deployment <- {1, 2}, DeployedFrom <- FromOwn,
  StageOf <- OwnStages, LastStage <- 2, Env <- {"crash", "hold"}

LiveInit == (which = "together" /\ Init) \/ (which = "apart" /\ Apart!Init)
LiveNext ==
  /\ UNCHANGED which
  /\ \/ which = "together" /\ Next
     \/ which = "apart" /\ Apart!Next

\* The runner's fairness and the delivery system's are both instances', the
\* people's the first one's alone.
Live ==
  /\ LiveInit /\ [][LiveNext]_<<vars, which>>
  /\ WF_vars((which = "together" /\ Start) \/ (which = "apart" /\ Apart!Start))
  /\ \A a \in Agent : SF_vars((which = "together" /\ Move(a)) \/ (which = "apart" /\ Apart!Move(a)))
  /\ \A d \in Deployment :
       /\ WF_vars((which = "together" /\ Observe(d)) \/ (which = "apart" /\ Apart!Observe(d)))
       /\ WF_vars((which = "together" /\ Heal(d)) \/ (which = "apart" /\ Apart!Heal(d)))
  /\ \A a \in Agent, n \in Cycle : WF_vars(which = "together" /\ Approve(a, n))
  /\ \A p \in Person, n \in Cycle :
       /\ WF_vars(which = "together" /\ PersonCloses(p, n))
       /\ WF_vars(which = "together" /\ PlayFinishes(p, n))

\* A change the agent has opened goes through (ChangesFinish).
TogetherChangesFinish ==
  \A a \in Agent, n \in Cycle :
    which = "together" /\ changeSet[a][n] = "Open" ~>
      IF a \in Rollout THEN order[a][n] = "completed" ELSE changeSet[a][n] = "Closed"

\* The agents "keep making changes" (KeepsChanging), but for one that waits for
\* ever to name an order whose slug is taken: an agent with no ChangeSet of its
\* own adopts a closed one of somebody else's, and two may adopt the same.
TogetherKeepsChanging ==
  \A a \in Agent : <>[](which = "together" =>
    /\ up
    /\ \/ phase[a] = "idle" /\ cycle[a] = MaxCycle
       \/ phase[a] = "queued" /\ order[of[a]][cur[a]] # "none")

\* "A change to another component goes through" (DESIGN.md): with no approval,
\* no release of a base and no end of a play to count on, an agent whose
\* component asks for no review and which nobody else works on gets through
\* its changes (OthersGoThrough).
ApartOthersGoThrough ==
  \A a \in {c \in Agent : \A o \in Owner \ {c} : OwnBases[o] # OwnBases[c]} :
    [](which = "apart" => ~required[OwnBases[a]])
      => <>[](which = "apart" => phase[a] = "idle" /\ cycle[a] = MaxCycle)
=============================================================================

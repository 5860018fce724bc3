---------------------------- MODULE AgentAccounts ---------------------------
(***************************************************************************)
(* `cub demo agents up` and `agents down` (internal/agents/manager.go):    *)
(* the agents' service accounts in the org, and on each machine the cub    *)
(* contexts and private keys they act with. One machine runs a verb at a   *)
(* time, call by call, and may stop between two calls.                     *)
(*                                                                         *)
(* An account that is deleted and made again is another account: keys and  *)
(* signed-in contexts of the first are worth nothing. A context is a set   *)
(* of at most one; the agents of a run are served in any order.            *)
(***************************************************************************)
EXTENDS Naturals

CONSTANTS Machine, AgentName

VARIABLES
  born,     \* how many accounts the agent has had
  live,     \* the agents whose latest account exists
  context,  \* the account a machine's context is signed in as; 0: none yet
  keys,     \* the accounts there are keys for on a machine
  work,     \* the verb in hand and the machine it runs on
  todo,     \* the agents it has not served
  served    \* and those it has

accountVars == <<born, live, context, keys, work, todo, served>>
Resting == [verb |-> "none"]

AccountsInit ==
  /\ born = [a \in AgentName |-> 0] /\ live = {}
  /\ context = [m \in Machine |-> [a \in AgentName |-> {}]]
  /\ keys = [m \in Machine |-> [a \in AgentName |-> {}]]
  /\ work = Resting /\ todo = {} /\ served = {}

\* "up" or "down", for the agents the definition lists.
AccountsBegin(m, verb, agents) ==
  /\ work' = [verb |-> verb, machine |-> m] /\ todo' = agents /\ served' = {}
  /\ UNCHANGED <<born, live, context, keys>>

Up(m) == work = [verb |-> "up", machine |-> m]
Down(m) == work = [verb |-> "down", machine |-> m]

Served(a) == todo' = todo \ {a} /\ served' = served \union {a}

CreateAccount(m, a) ==
  /\ Up(m) /\ a \in todo \ live
  /\ live' = live \union {a} /\ born' = [born EXCEPT ![a] = @ + 1]
  /\ UNCHANGED <<context, keys, work, todo, served>>

CreateContext(m, a) ==
  /\ Up(m) /\ a \in todo \intersect live /\ context[m][a] = {}
  /\ context' = [context EXCEPT ![m][a] = {0}]
  /\ UNCHANGED <<born, live, keys, work, todo, served>>

\* "No key on this machine signs in as the account: register one."
AddKey(m, a) ==
  /\ Up(m) /\ a \in todo \intersect live /\ context[m][a] # {}
  /\ born[a] \notin keys[m][a]
  /\ keys' = [keys EXCEPT ![m][a] = @ \union {born[a]}]
  /\ UNCHANGED <<born, live, context, work, todo, served>>

\* Mutant: a context that is there is taken to be signed in.
SignInOnce(m, a) ==
  /\ Up(m) /\ a \in todo \intersect live /\ context[m][a] # {}
  /\ context[m][a] # {0} \/ born[a] \in keys[m][a]
  /\ context' = [context EXCEPT ![m][a] = IF @ = {0} THEN {born[a]} ELSE @]
  /\ Served(a)
  /\ UNCHANGED <<born, live, keys, work>>

\* auth login, on every run.
SignIn(m, a) ==
  /\ Up(m) /\ a \in todo \intersect live /\ context[m][a] # {}
  /\ born[a] \in keys[m][a]
  /\ context' = [context EXCEPT ![m][a] = {born[a]}]
  /\ Served(a)
  /\ UNCHANGED <<born, live, keys, work>>

DeleteContext(m, a) ==
  /\ Down(m) /\ a \in todo /\ context[m][a] # {}
  /\ context' = [context EXCEPT ![m][a] = {}]
  /\ UNCHANGED <<born, live, keys, work, todo, served>>

\* The keys stay on the machine.
DeleteAccount(m, a) ==
  /\ Down(m) /\ a \in todo /\ context[m][a] = {}
  /\ live' = live \ {a}
  /\ Served(a)
  /\ UNCHANGED <<born, context, keys, work>>

AccountsStep ==
  \E m \in Machine, a \in AgentName :
    \/ CreateAccount(m, a) \/ CreateContext(m, a) \/ AddKey(m, a) \/ SignIn(m, a)
    \/ DeleteContext(m, a) \/ DeleteAccount(m, a)

\* The run stops, wherever it is.
AccountsStop ==
  /\ work' = Resting /\ todo' = {} /\ served' = {}
  /\ UNCHANGED <<born, live, context, keys>>

AccountsNext ==
  \/ \E m \in Machine, verb \in {"up", "down"}, agents \in SUBSET AgentName :
       AccountsBegin(m, verb, agents)
  \/ AccountsStep \/ AccountsStop
AccountsSpec == AccountsInit /\ [][AccountsNext]_accountVars

-----------------------------------------------------------------------------
AccountsTypeOK ==
  /\ born \in [AgentName -> Nat] /\ live \subseteq AgentName
  /\ context \in [Machine -> [AgentName -> SUBSET Nat]]
  /\ keys \in [Machine -> [AgentName -> SUBSET Nat]]
  /\ work \in {Resting} \union [verb : {"up", "down"}, machine : Machine]
  /\ todo \subseteq AgentName /\ served \subseteq AgentName

\* "up creates their accounts and signs in a cub context for each" and "down
\* removes the accounts and contexts" (cmd/agents.go): wherever earlier runs
\* stopped, here or on another machine, and whichever accounts were deleted
\* and made again, an agent that up has served has an account and a context
\* signed in as that very account, and one that down has served has neither.
AgentsCanAct ==
  \A a \in served :
    /\ work.verb = "up" => a \in live /\ context[work.machine][a] = {born[a]}
    /\ work.verb = "down" => a \notin live /\ context[work.machine][a] = {}
=============================================================================

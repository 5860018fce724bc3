--------------------------- MODULE DemoLifeProofs ---------------------------
(* Theorems about FleetViews, for any number of views, versions of the tool  *)
(* and definitions; about AgentAccounts, for any machines and agents; and    *)
(* about DemoLife, which is a behaviour of both: what was proved of the two  *)
(* holds of a demo's life, and through it an up builds the whole plan, of a  *)
(* definition alone nothing but the plan, and as much as status and plan     *)
(* count, a down leaves nothing and an install is read back as written.      *)
EXTENDS DemoLife, TLAPS, SequenceTheorems, FiniteSetTheorems

-----------------------------------------------------------------------------
(* Views *)

\* A filter is only replaced where its view is gone, so what a view stands over
\* and what the run has been through are kept by every step.
ViewsInv == ViewsTypeOK /\ ViewsCurrent

LEMMA WantedIsADefinition ==
  ASSUME ViewsTypeOK, turn \in 1 .. Views
  PROVE  Wanted \in ViewDefinition /\ Wanted.query \in Query
<1>1. Definition[tool] \in [1 .. Views -> ViewDefinition]
  BY DefinitionAssumption DEF ViewsTypeOK
<1>2. Wanted \in ViewDefinition
  BY <1>1 DEF Wanted
<1> QED BY <1>2 DEF ViewDefinition

LEMMA ViewsInitInv == ViewsInit => ViewsInv
<1> SUFFICES ASSUME ViewsInit PROVE ViewsInv
  OBVIOUS
<1>1. ViewsTypeOK
  BY DefinitionAssumption DEF ViewsInit, ViewsTypeOK, Nothing
<1>2. ViewsCurrent
  BY DefinitionAssumption DEF ViewsInit, ViewsCurrent, Nothing
<1> QED BY <1>1, <1>2 DEF ViewsInv

LEMMA ViewsStepInv == ASSUME ViewsInv, ViewsStep PROVE ViewsInv'
<1> USE DefinitionAssumption
<1>0. turn \in 1 .. Views
  BY DEF ViewsStep, KeepView, DeleteView, DeleteFilter, MakeFilter, MakeView
<1>w. Wanted \in ViewDefinition /\ Wanted.query \in Query /\ Wanted = Definition[tool][turn]
  BY <1>0, WantedIsADefinition DEF ViewsInv, Wanted
<1>1. CASE KeepView
  <2>1. ViewsTypeOK'
    BY <1>1 DEF ViewsInv, ViewsTypeOK, KeepView
  <2>2. ViewsCurrent'
    BY <1>1, <1>w DEF ViewsInv, ViewsTypeOK, ViewsCurrent, KeepView
  <2> QED BY <2>1, <2>2 DEF ViewsInv
<1>2. CASE DeleteView
  <2>1. ViewsTypeOK'
    BY <1>2 DEF ViewsInv, ViewsTypeOK, DeleteView
  <2>2. ASSUME NEW v \in 1 .. Views
        PROVE  /\ view'[v] # {} => filter'[v] = {d.query : d \in view'[v]}
               /\ v < turn' => view'[v] = {Definition[tool'][v]}
    <3>1. CASE v = turn
      <4>1. view'[v] = {} /\ turn' = turn
        BY <1>2, <3>1 DEF ViewsInv, ViewsTypeOK, DeleteView
      <4> QED BY <1>0, <3>1, <4>1
    <3>2. CASE v # turn
      <4>1. view'[v] = view[v] /\ filter'[v] = filter[v]
        BY <1>2, <3>2 DEF ViewsInv, ViewsTypeOK, DeleteView
      <4> QED BY <1>2, <4>1 DEF ViewsInv, ViewsCurrent, DeleteView
    <3> QED BY <3>1, <3>2
  <2> QED BY <2>1, <2>2 DEF ViewsInv, ViewsCurrent
<1>3. CASE DeleteFilter
  <2>1. ViewsTypeOK'
    BY <1>3 DEF ViewsInv, ViewsTypeOK, DeleteFilter
  <2>2. ViewsCurrent'
    BY <1>3 DEF ViewsInv, ViewsTypeOK, ViewsCurrent, DeleteFilter
  <2> QED BY <2>1, <2>2 DEF ViewsInv
<1>4. CASE MakeFilter
  <2>1. ViewsTypeOK'
    BY <1>4, <1>w DEF ViewsInv, ViewsTypeOK, MakeFilter
  <2>2. ViewsCurrent'
    BY <1>4 DEF ViewsInv, ViewsTypeOK, ViewsCurrent, MakeFilter
  <2> QED BY <2>1, <2>2 DEF ViewsInv
<1>5. CASE MakeView
  <2>1. ViewsTypeOK'
    BY <1>5, <1>w DEF ViewsInv, ViewsTypeOK, MakeView
  <2>2. ASSUME NEW v \in 1 .. Views
        PROVE  /\ view'[v] # {} => filter'[v] = {d.query : d \in view'[v]}
               /\ v < turn' => view'[v] = {Definition[tool'][v]}
    <3>1. CASE v = turn
      <4>1. view'[v] = {Wanted} /\ filter'[v] = {Wanted.query}
        BY <1>5, <3>1 DEF ViewsInv, ViewsTypeOK, MakeView
      <4>2. {d.query : d \in {Wanted}} = {Wanted.query}
        OBVIOUS
      <4> QED BY <1>5, <1>w, <3>1, <4>1, <4>2 DEF MakeView
    <3>2. CASE v # turn
      <4>1. view'[v] = view[v] /\ filter'[v] = filter[v]
        BY <1>5, <3>2 DEF ViewsInv, ViewsTypeOK, MakeView
      <4>2. v < turn' => v < turn
        BY <1>5, <1>0, <3>2 DEF MakeView
      <4> QED BY <1>5, <4>1, <4>2 DEF ViewsInv, ViewsCurrent, MakeView
    <3> QED BY <3>1, <3>2
  <2> QED BY <2>1, <2>2 DEF ViewsInv, ViewsCurrent
<1> QED BY <1>1, <1>2, <1>3, <1>4, <1>5 DEF ViewsStep

LEMMA ViewsNextInv == ASSUME ViewsInv, [ViewsNext]_viewVars PROVE ViewsInv'
<1> USE DefinitionAssumption
<1>1. CASE \E t \in Tool : ViewsBegin(t)
  <2> PICK t \in Tool : ViewsBegin(t)
    BY <1>1
  <2>1. ViewsTypeOK'
    BY DEF ViewsInv, ViewsTypeOK, ViewsBegin
  <2>2. ViewsCurrent'
    BY DEF ViewsInv, ViewsCurrent, ViewsBegin
  <2> QED BY <2>1, <2>2 DEF ViewsInv
<1>2. CASE ViewsStep
  BY <1>2, ViewsStepInv
<1>3. CASE ViewsStop
  <2>1. ViewsTypeOK'
    BY <1>3 DEF ViewsInv, ViewsTypeOK, ViewsStop
  <2>2. ViewsCurrent'
    BY <1>3 DEF ViewsInv, ViewsCurrent, ViewsStop
  <2> QED BY <2>1, <2>2 DEF ViewsInv
<1>4. CASE HomeGone
  <2>1. ViewsTypeOK'
    BY <1>4 DEF ViewsInv, ViewsTypeOK, HomeGone, Nothing
  <2>2. ViewsCurrent'
    BY <1>4 DEF ViewsCurrent, HomeGone, Nothing
  <2> QED BY <2>1, <2>2 DEF ViewsInv
<1>5. CASE UNCHANGED viewVars
  BY <1>5 DEF ViewsInv, ViewsTypeOK, ViewsCurrent, viewVars
<1> QED BY <1>1, <1>2, <1>3, <1>4, <1>5 DEF ViewsNext

\* Type correctness of views.go's convergence.
THEOREM ViewsTypeCorrect == ViewsSpec => []ViewsTypeOK
<1>1. ViewsInv => ViewsTypeOK
  BY DEF ViewsInv
<1> QED BY ViewsInitInv, ViewsNextInv, <1>1, PTL DEF ViewsSpec

\* However many versions of the tool ran `up`, in whatever order and wherever
\* each stopped in views.go, no view stands over another definition's filter,
\* and a run that got through the phase has left every view as its version
\* defines it.
THEOREM ViewsConverge == ViewsSpec => []ViewsCurrent
<1>1. ViewsInv => ViewsCurrent
  BY DEF ViewsInv
<1> QED BY ViewsInitInv, ViewsNextInv, <1>1, PTL DEF ViewsSpec

-----------------------------------------------------------------------------
(* Accounts *)

\* An agent that was served is not touched again by the verb in hand.
AccountsInv == AccountsTypeOK /\ AgentsCanAct /\ todo \intersect served = {}

LEMMA AccountsInitInv == AccountsInit => AccountsInv
BY DEF AccountsInit, AccountsInv, AccountsTypeOK, AgentsCanAct, Resting

LEMMA AccountsBeginInv ==
  ASSUME AccountsInv, NEW m \in Machine, NEW verb \in {"up", "down"}, NEW agents \in SUBSET AgentName,
         AccountsBegin(m, verb, agents)
  PROVE  AccountsInv'
BY DEF AccountsBegin, AccountsInv, AccountsTypeOK, AgentsCanAct

LEMMA AccountsStepTypeOK ==
  ASSUME AccountsInv, NEW m \in Machine, NEW a \in AgentName,
         \/ CreateAccount(m, a) \/ CreateContext(m, a) \/ AddKey(m, a) \/ SignIn(m, a)
         \/ DeleteContext(m, a) \/ DeleteAccount(m, a)
  PROVE  AccountsTypeOK' /\ (todo \intersect served = {})'
<1> USE DEF AccountsInv
<1>1. CASE CreateAccount(m, a)
  BY <1>1 DEF AccountsTypeOK, CreateAccount
<1>2. CASE CreateContext(m, a)
  BY <1>2 DEF AccountsTypeOK, CreateContext
<1>3. CASE AddKey(m, a)
  BY <1>3 DEF AccountsTypeOK, AddKey
<1>4. CASE SignIn(m, a)
  BY <1>4 DEF AccountsTypeOK, SignIn, Served
<1>5. CASE DeleteContext(m, a)
  BY <1>5 DEF AccountsTypeOK, DeleteContext
<1>6. CASE DeleteAccount(m, a)
  BY <1>6 DEF AccountsTypeOK, DeleteAccount, Served
<1> QED BY <1>1, <1>2, <1>3, <1>4, <1>5, <1>6

LEMMA AccountsStepCanAct ==
  ASSUME AccountsInv, NEW m \in Machine, NEW a \in AgentName,
         \/ CreateAccount(m, a) \/ CreateContext(m, a) \/ AddKey(m, a) \/ SignIn(m, a)
         \/ DeleteContext(m, a) \/ DeleteAccount(m, a),
         NEW s \in served'
  PROVE  /\ work'.verb = "up" => s \in live' /\ context'[work'.machine][s] = {born'[s]}
         /\ work'.verb = "down" => s \notin live' /\ context'[work'.machine][s] = {}
<1> USE DEF AccountsInv
<1>0. work' = work /\ s \in AgentName
  BY AccountsStepTypeOK DEF AccountsTypeOK, CreateAccount, CreateContext, AddKey, SignIn, DeleteContext, DeleteAccount
<1>1. CASE s = a
  \* Only an agent that is being served now is both the one in hand and served.
  <2>1. SignIn(m, a) \/ DeleteAccount(m, a)
    BY <1>1 DEF AccountsTypeOK, CreateAccount, CreateContext, AddKey, DeleteContext
  <2>2. CASE SignIn(m, a)
    BY <1>0, <1>1, <2>2 DEF AccountsTypeOK, SignIn, Up
  <2>3. CASE DeleteAccount(m, a)
    BY <1>0, <1>1, <2>3 DEF AccountsTypeOK, DeleteAccount, Down
  <2> QED BY <2>1, <2>2, <2>3
<1>2. CASE s # a
  <2>1. s \in served /\ born'[s] = born[s] /\ (s \in live' <=> s \in live)
    BY <1>0, <1>2 DEF AccountsTypeOK, CreateAccount, CreateContext, AddKey, SignIn, DeleteContext, DeleteAccount, Served
  <2>2. \A n \in Machine : context'[n][s] = context[n][s]
    <3>1. context' = context \/ \E S : context' = [context EXCEPT ![m][a] = S]
      BY DEF CreateAccount, CreateContext, AddKey, SignIn, DeleteContext, DeleteAccount
    <3> QED BY <1>0, <1>2, <3>1 DEF AccountsTypeOK
  <2>3. work.verb \in {"up", "down"} => work.machine \in Machine
    BY DEF AccountsTypeOK, Resting
  <2> QED BY <1>0, <2>1, <2>2, <2>3 DEF AgentsCanAct
<1> QED BY <1>1, <1>2

LEMMA AccountsNextInv == ASSUME AccountsInv, [AccountsNext]_accountVars PROVE AccountsInv'
<1>1. CASE \E m \in Machine, verb \in {"up", "down"}, agents \in SUBSET AgentName :
             AccountsBegin(m, verb, agents)
  BY <1>1, AccountsBeginInv
<1>2. CASE AccountsStep
  <2> PICK m \in Machine, a \in AgentName :
        \/ CreateAccount(m, a) \/ CreateContext(m, a) \/ AddKey(m, a) \/ SignIn(m, a)
        \/ DeleteContext(m, a) \/ DeleteAccount(m, a)
    BY <1>2 DEF AccountsStep
  <2>1. AccountsTypeOK' /\ (todo \intersect served = {})'
    BY AccountsStepTypeOK
  <2>2. AgentsCanAct'
    BY AccountsStepCanAct DEF AgentsCanAct
  <2> QED BY <2>1, <2>2 DEF AccountsInv
<1>3. CASE AccountsStop
  BY <1>3 DEF AccountsStop, AccountsInv, AccountsTypeOK, AgentsCanAct, Resting
<1>4. CASE UNCHANGED accountVars
  BY <1>4 DEF accountVars, AccountsInv, AccountsTypeOK, AgentsCanAct
<1> QED BY <1>1, <1>2, <1>3, <1>4 DEF AccountsNext

\* Type correctness of manager.go's Up and Down.
THEOREM AccountsTypeCorrect == AccountsSpec => []AccountsTypeOK
<1>1. AccountsInv => AccountsTypeOK
  BY DEF AccountsInv
<1> QED BY AccountsInitInv, AccountsNextInv, <1>1, PTL DEF AccountsSpec

\* Whatever machines ran agents up and agents down before, and wherever they
\* stopped (manager.go): an agent that up has served can act on that machine as
\* the account there is now, and of one that down has served nothing is left
\* in the org or on that machine to act with.
THEOREM ServedAgentsCanAct == AccountsSpec => []AgentsCanAct
<1>1. AccountsInv => AgentsCanAct
  BY DEF AccountsInv
<1> QED BY AccountsInitInv, AccountsNextInv, <1>1, PTL DEF AccountsSpec

-----------------------------------------------------------------------------
(* A demo's life *)

\* The verb in hand runs on a machine, an install stores a draft, and the files
\* of the bundle are of drafts.
LifeInv ==
  /\ at # 0 => job.machine \in Machine
  /\ job.verb = "install" => job.model \in Draft
  /\ \A p \in DOMAIN stored : stored[p] \in Draft \union {Empty}

LEMMA LifeInitInv == LifeInit => LifeInv
BY DEF LifeInit, LifeInv, Idle

LEMMA EndsInv == ASSUME LifeInv, NEW word, Ends(word), UNCHANGED stored PROVE LifeInv'
BY DEF LifeInv, Ends, Idle

LEMMA GoesInv == ASSUME LifeInv, at # 0, Goes, UNCHANGED stored PROVE LifeInv'
<1>1. CASE at = Len(job.steps)
  BY <1>1, EndsInv DEF Goes
<1>2. CASE at # Len(job.steps)
  BY <1>2 DEF Goes, LifeInv
<1> QED BY <1>1, <1>2

LEMMA OutcomeInv == ASSUME LifeInv, at # 0, NEW failed, Outcome(failed), UNCHANGED stored PROVE LifeInv'
<1>1. CASE failed
  BY <1>1, EndsInv DEF Outcome
<1>2. CASE ~failed
  BY <1>2, GoesInv DEF Outcome
<1> QED BY <1>1, <1>2

LEMMA StartInv ==
  ASSUME LifeInv, NEW verb, NEW m \in Machine, NEW steps, NEW model, NEW says,
         Start(verb, m, steps, model, says), verb = "install" => model \in Draft
  PROVE  LifeInv'
BY DEF Start, LifeInv

\* Every file that is stored is the draft's being installed, or as it was, or
\* left empty.
LEMMA StoredIsDrafts ==
  ASSUME LifeInv, NEW v \in Draft, NEW uncreated, NEW unwritten
  PROVE  \A p \in DOMAIN Stored(v, uncreated, unwritten) :
           Stored(v, uncreated, unwritten)[p] \in Draft \union {Empty}
BY DEF LifeInv, Stored

\* A definition that is read back lists agents of the drafts.
LEMMA ReadAgents == ASSUME LifeInv, Defined PROVE Agents \subseteq AgentName
<1> DEFINE f == <<"scenario">>
<1>1. f \in DOMAIN stored /\ Files[f] # Empty
  BY DEF Defined, Readable, Files
<1>2. stored[f] \in Draft /\ Files[f] = Content(Drafts[stored[f]], f)
  BY <1>1 DEF LifeInv, Files
<1>3. Files[f] = Drafts[stored[f]].scenario
  BY <1>2 DEF Content
<1>4. Loaded.scenario = Files[f]
  BY DEF Loaded, FromFiles
<1> QED BY <1>2, <1>3, <1>4, AgentsAssumption DEF Agents, Draft

\* What a step is to the views and to the accounts.
Steps == LifeInv' /\ [ViewsNext]_viewVars /\ [AccountsNext]_accountVars

LEMMA RunStep ==
  ASSUME LifeInv, Defined, NEW model, RunUp(model) \/ RunDown(model) \/ RunReset(model) \/ RunAgents
  PROVE  Steps
<1>1. CASE RunUp(model)
  <2> PICK m \in Machine :
        \E steps, says : Start("up", m, steps, model, says) /\ UNCHANGED accountVars
    BY <1>1, Zenon DEF RunUp
  <2> PICK steps, says : Start("up", m, steps, model, says) /\ UNCHANGED accountVars
    OBVIOUS
  <2>1. LifeInv'
    BY StartInv
  <2> QED BY <2>1 DEF Steps, Start
<1>2. CASE RunDown(model)
  <2> PICK verb \in {"down", "uninstall"} : Start(verb, AnyMachine, Groups, model, verb) /\ UNCHANGED accountVars
    BY <1>2 DEF RunDown
  <2>1. AnyMachine \in Machine
    BY MachineAssumption DEF AnyMachine
  <2>2. LifeInv'
    BY <2>1, StartInv
  <2> QED BY <2>2 DEF Steps, Start
<1>3. CASE RunReset(model)
  <2> PICK m \in Machine : Start("reset", m, Groups \o Phases, model, "up") /\ UNCHANGED accountVars
    BY <1>3 DEF RunReset
  <2>1. LifeInv'
    BY StartInv
  <2> QED BY <2>1 DEF Steps, Start
<1>4. CASE RunAgents
  <2> PICK m \in Machine :
        \/ Start("agents up", m, <<"agents">>, Agents, "none") /\ AccountsBegin(m, "up", Agents)
        \/ Start("agents down", m, <<"agents">>, Agents, "none") /\ AccountsBegin(m, "down", Agents)
    BY <1>4 DEF RunAgents
  <2>1. LifeInv'
    BY StartInv
  <2>2. AccountsNext
    BY ReadAgents DEF AccountsNext
  <2>3. UNCHANGED viewVars
    BY DEF Start
  <2> QED BY <2>1, <2>2, <2>3 DEF Steps
<1> QED BY <1>1, <1>2, <1>3, <1>4

LEMMA InstallStep == ASSUME LifeInv, NEW v \in Draft, Install(v) PROVE Steps
<1>1. AnyMachine \in Machine
  BY MachineAssumption DEF AnyMachine
<1>2. Start("install", AnyMachine, <<"store">>, v, "install") /\ UNCHANGED accountVars
  BY DEF Install
<1>3. LifeInv'
  BY <1>1, <1>2, StartInv
<1> QED BY <1>2, <1>3 DEF Steps, Start

LEMMA StoreStep == ASSUME LifeInv, Store PROVE Steps
<1>1. PICK uncreated, unwritten :
        /\ stored' = Stored(job.model, uncreated, unwritten)
        /\ Outcome(uncreated \union unwritten # {})
  BY DEF Store
<1>2. job.model \in Draft /\ at # 0 /\ UNCHANGED <<viewVars, accountVars>>
  BY DEF Store, LifeInv
<1>3. \A p \in DOMAIN stored' : stored'[p] \in Draft \union {Empty}
  BY <1>1, <1>2, StoredIsDrafts
<1>4. (at # 0 => job.machine \in Machine)' /\ (job.verb = "install" => job.model \in Draft)'
  BY <1>1, <1>2 DEF LifeInv, Outcome, Goes, Ends, Idle
<1> QED BY <1>2, <1>3, <1>4 DEF LifeInv, Steps

LEMMA MakeStep == ASSUME LifeInv, Make \/ Refuse PROVE Steps
<1>1. CASE Make
  <2>1. PICK left : Outcome(left # {})
    BY <1>1 DEF Make
  <2>2. at # 0 /\ UNCHANGED <<stored, viewVars, accountVars>>
    BY <1>1 DEF Make, Doing
  <2>3. LifeInv'
    BY <2>1, <2>2, OutcomeInv
  <2> QED BY <2>2, <2>3 DEF Steps
<1>2. CASE Refuse
  <2>1. LifeInv'
    BY <1>2, EndsInv DEF Refuse
  <2> QED BY <1>2, <2>1 DEF Refuse, Steps
<1> QED BY <1>1, <1>2

LEMMA ViewsStepOfLife == ASSUME LifeInv, ConvergeViews PROVE Steps
<1>1. at # 0 /\ UNCHANGED <<stored, accountVars>>
  BY DEF ConvergeViews, Doing
<1>2. CASE turn = 0 /\ ViewsBegin(ToolOf[job.machine]) /\ UNCHANGED <<job, at, said, events>>
  <2>1. ToolOf[job.machine] \in Tool
    BY <1>1, MachineAssumption DEF LifeInv
  <2>2. ViewsNext
    BY <1>2, <2>1 DEF ViewsNext
  <2>3. LifeInv'
    BY <1>1, <1>2 DEF LifeInv
  <2> QED BY <1>1, <2>2, <2>3 DEF Steps
<1>3. CASE ViewsStep /\ UNCHANGED <<job, at, said, events>>
  <2>1. LifeInv'
    BY <1>1, <1>3 DEF LifeInv
  <2> QED BY <1>1, <1>3, <2>1 DEF Steps, ViewsNext
<1>4. CASE ViewsStop /\ Goes
  <2>1. LifeInv'
    BY <1>1, <1>4, GoesInv
  <2> QED BY <1>1, <1>4, <2>1 DEF Steps, ViewsNext
<1>5. CASE ViewsStop /\ Outcome(TRUE)
  <2>1. LifeInv'
    BY <1>1, <1>5, OutcomeInv
  <2> QED BY <1>1, <1>5, <2>1 DEF Steps, ViewsNext
<1> QED BY <1>2, <1>3, <1>4, <1>5 DEF ConvergeViews

LEMMA TearDownStep == ASSUME LifeInv, TearDown PROVE Steps
<1>1. at # 0 /\ UNCHANGED accountVars /\ (HomeGone \/ UNCHANGED viewVars)
  BY DEF TearDown, Doing
<1>2. stored' = <<>> \/ stored' = stored
  BY DEF TearDown
<1>3. PICK left : Outcome(left # {})
  BY DEF TearDown
<1>4. (at # 0 => job.machine \in Machine)' /\ (job.verb = "install" => job.model \in Draft)'
  BY <1>1, <1>3 DEF LifeInv, Outcome, Goes, Ends, Idle
<1>5. LifeInv'
  BY <1>2, <1>4 DEF LifeInv
<1> QED BY <1>1, <1>5 DEF Steps, ViewsNext

LEMMA AgentsStep == ASSUME LifeInv, ServeAgents PROVE Steps
<1>1. at # 0 /\ UNCHANGED <<stored, viewVars>>
  BY DEF ServeAgents, Doing
<1>2. CASE AccountsStep /\ UNCHANGED <<job, at, said, events>>
  <2>1. LifeInv'
    BY <1>1, <1>2 DEF LifeInv
  <2> QED BY <1>1, <1>2, <2>1 DEF Steps, AccountsNext
<1>3. CASE Goes /\ UNCHANGED accountVars
  <2>1. LifeInv'
    BY <1>1, <1>3, GoesInv
  <2> QED BY <1>1, <1>3, <2>1 DEF Steps
<1>4. CASE AccountsStop /\ Outcome(TRUE)
  <2>1. LifeInv'
    BY <1>1, <1>4, OutcomeInv
  <2> QED BY <1>1, <1>4, <2>1 DEF Steps, AccountsNext
<1> QED BY <1>2, <1>3, <1>4 DEF ServeAgents

LEMMA CrashStep == ASSUME LifeInv, Crash PROVE Steps
<1>1. at # 0 /\ Outcome(TRUE) /\ ViewsStop /\ UNCHANGED stored /\ (AccountsStop \/ UNCHANGED accountVars)
  BY DEF Crash
<1>2. LifeInv'
  BY <1>1, OutcomeInv
<1> QED BY <1>1, <1>2 DEF Steps, ViewsNext, AccountsNext

LEMMA WalkStep == ASSUME LifeInv, WalkStories PROVE Steps
<1>1. at # 0 /\ (Goes \/ Ends("none")) /\ UNCHANGED <<stored, viewVars, accountVars>>
  BY DEF WalkStories, Doing
<1>2. LifeInv'
  BY <1>1, GoesInv, EndsInv
<1> QED BY <1>1, <1>2 DEF Steps

LEMMA LifeStep == ASSUME LifeInv, [LifeNext]_vars PROVE Steps
<1>1. CASE \E v \in Draft : Install(v)
  BY <1>1, InstallStep
<1>2. CASE Defined /\ LET model == Expand(Loaded) IN
              RunUp(model) \/ RunDown(model) \/ RunReset(model) \/ RunAgents
  BY <1>2, RunStep
<1>3. CASE Store
  BY <1>3, StoreStep
<1>4. CASE Make \/ Refuse
  BY <1>4, MakeStep
<1>5. CASE ConvergeViews
  BY <1>5, ViewsStepOfLife
<1>6. CASE TearDown
  BY <1>6, TearDownStep
<1>7. CASE ServeAgents
  BY <1>7, AgentsStep
<1>8. CASE Crash
  BY <1>8, CrashStep
<1>9. CASE UNCHANGED vars
  BY <1>9 DEF vars, lifeVars, LifeInv, Steps
<1> QED BY <1>1, <1>2, <1>3, <1>4, <1>5, <1>6, <1>7, <1>8, <1>9, WalkStep DEF LifeNext

-----------------------------------------------------------------------------
\* The life of a demo does to its views what views.go may do to them run after
\* run: every phase, teardown, failed call and crash is one of its steps.
THEOREM LifeConvergesViews == LifeSpec => ViewsSpec
<1>1. LifeInit => ViewsInit
  BY DEF LifeInit
<1>2. LifeInv /\ [LifeNext]_vars => LifeInv' /\ [ViewsNext]_viewVars
  BY LifeStep DEF Steps
<1> QED BY LifeInitInv, <1>1, <1>2, PTL DEF LifeSpec, ViewsSpec

\* And to its agents' accounts what manager.go may do to them.
THEOREM LifeServesAgents == LifeSpec => AccountsSpec
<1>1. LifeInit => AccountsInit
  BY DEF LifeInit
<1>2. LifeInv /\ [LifeNext]_vars => LifeInv' /\ [AccountsNext]_accountVars
  BY LifeStep DEF Steps
<1> QED BY LifeInitInv, <1>1, <1>2, PTL DEF LifeSpec, AccountsSpec

\* Through any sequence of installs, ups of any phases, downs, resets and
\* uninstalls, from machines with different versions of the tool and cut short
\* anywhere, no view stands over another definition's filter and an up that got
\* through views.go leaves them as its version defines them.
THEOREM LifeKeepsViews == LifeSpec => []ViewsCurrent
BY LifeConvergesViews, ViewsConverge, PTL

\* Through any such sequence, with agents up and agents down on any machines,
\* an agent that was served can act as the account there is (manager.go).
THEOREM LifeKeepsAgents == LifeSpec => []AgentsCanAct
BY LifeServesAgents, ServedAgentsCanAct, PTL

-----------------------------------------------------------------------------
(* What stands in the org *)

Roles == {"demo", "cluster", "root base", "class base", "deployment"}

\* Nothing stands outside a space, and a report is on a Release.
Standing(space, unit, target, releases, reported) ==
  /\ space \in [DOMAIN space -> Roles]
  /\ unit = [u \in DOMAIN unit |-> unit[u]] /\ \A u \in DOMAIN unit : u[1] \in DOMAIN space
  /\ target \subseteq DOMAIN space
  /\ releases = [s \in DOMAIN releases |-> releases[s]] /\ DOMAIN releases \subseteq DOMAIN space
  /\ reported \subseteq DOMAIN releases

OrgOK(o) ==
  /\ o = [space |-> o.space, unit |-> o.unit, target |-> o.target, entity |-> o.entity,
          releases |-> o.releases, reported |-> o.reported]
  /\ Standing(o.space, o.unit, o.target, o.releases, o.reported)

LEMMA OrgOf ==
  ASSUME NEW o, NEW sp, NEW un, NEW ta, NEW en, NEW re, NEW rp, Standing(sp, un, ta, re, rp),
         o = [space |-> sp, unit |-> un, target |-> ta, entity |-> en, releases |-> re, reported |-> rp]
  PROVE  OrgOK(o)
BY DEF OrgOK

\* An org with other parts.
LEMMA OrgWith ==
  ASSUME OrgOK(org)
  PROVE  /\ \A sp : [org EXCEPT !.space = sp] =
               [space |-> sp, unit |-> org.unit, target |-> org.target, entity |-> org.entity,
                releases |-> org.releases, reported |-> org.reported]
         /\ \A sp, ta : [org EXCEPT !.space = sp, !.target = ta] =
               [space |-> sp, unit |-> org.unit, target |-> ta, entity |-> org.entity,
                releases |-> org.releases, reported |-> org.reported]
         /\ \A sp, un : [org EXCEPT !.space = sp, !.unit = un] =
               [space |-> sp, unit |-> un, target |-> org.target, entity |-> org.entity,
                releases |-> org.releases, reported |-> org.reported]
         /\ \A en, sp, un : [org EXCEPT !.entity = en, !.space = sp, !.unit = un] =
               [space |-> sp, unit |-> un, target |-> org.target, entity |-> en,
                releases |-> org.releases, reported |-> org.reported]
         /\ \A en : [org EXCEPT !.entity = en] =
               [space |-> org.space, unit |-> org.unit, target |-> org.target, entity |-> en,
                releases |-> org.releases, reported |-> org.reported]
         /\ \A re, rp : [org EXCEPT !.releases = re, !.reported = rp] =
               [space |-> org.space, unit |-> org.unit, target |-> org.target, entity |-> org.entity,
                releases |-> re, reported |-> rp]
         /\ \A rp : [org EXCEPT !.reported = rp] =
               [space |-> org.space, unit |-> org.unit, target |-> org.target, entity |-> org.entity,
                releases |-> org.releases, reported |-> rp]
<1>1. org = [space |-> org.space, unit |-> org.unit, target |-> org.target, entity |-> org.entity,
             releases |-> org.releases, reported |-> org.reported]
  BY DEF OrgOK
<1>2. ASSUME NEW sp
      PROVE  [org EXCEPT !.space = sp] =
               [space |-> sp, unit |-> org.unit, target |-> org.target, entity |-> org.entity,
                releases |-> org.releases, reported |-> org.reported]
  BY <1>1
<1>3. ASSUME NEW sp, NEW ta
      PROVE  [org EXCEPT !.space = sp, !.target = ta] =
               [space |-> sp, unit |-> org.unit, target |-> ta, entity |-> org.entity,
                releases |-> org.releases, reported |-> org.reported]
  <2> DEFINE p1 == [org EXCEPT !.space = sp]
  <2>1. [org EXCEPT !.space = sp, !.target = ta] = [p1 EXCEPT !.target = ta]
    OBVIOUS
  <2>2. p1 = [space |-> sp, unit |-> org.unit, target |-> org.target, entity |-> org.entity,
                releases |-> org.releases, reported |-> org.reported]
    BY <1>1
  <2> HIDE DEF p1
  <2> QED BY <1>1, <2>1, <2>2
<1>4. ASSUME NEW sp, NEW un
      PROVE  [org EXCEPT !.space = sp, !.unit = un] =
               [space |-> sp, unit |-> un, target |-> org.target, entity |-> org.entity,
                releases |-> org.releases, reported |-> org.reported]
  <2> DEFINE p1 == [org EXCEPT !.space = sp]
  <2>1. [org EXCEPT !.space = sp, !.unit = un] = [p1 EXCEPT !.unit = un]
    OBVIOUS
  <2>2. p1 = [space |-> sp, unit |-> org.unit, target |-> org.target, entity |-> org.entity,
                releases |-> org.releases, reported |-> org.reported]
    BY <1>1
  <2> HIDE DEF p1
  <2> QED BY <1>1, <2>1, <2>2
<1>5. ASSUME NEW en, NEW sp, NEW un
      PROVE  [org EXCEPT !.entity = en, !.space = sp, !.unit = un] =
               [space |-> sp, unit |-> un, target |-> org.target, entity |-> en,
                releases |-> org.releases, reported |-> org.reported]
  <2> DEFINE p1 == [org EXCEPT !.entity = en]
  <2> DEFINE p2 == [p1 EXCEPT !.space = sp]
  <2>1. [org EXCEPT !.entity = en, !.space = sp, !.unit = un] = [p2 EXCEPT !.unit = un]
    OBVIOUS
  <2>2. p1 = [space |-> org.space, unit |-> org.unit, target |-> org.target, entity |-> en,
                releases |-> org.releases, reported |-> org.reported]
    BY <1>1
  <2> HIDE DEF p1
  <2>3. p2 = [space |-> sp, unit |-> org.unit, target |-> org.target, entity |-> en,
                releases |-> org.releases, reported |-> org.reported]
    BY <1>1, <2>2
  <2> HIDE DEF p2
  <2> QED BY <1>1, <2>1, <2>3
<1>6. ASSUME NEW en
      PROVE  [org EXCEPT !.entity = en] =
               [space |-> org.space, unit |-> org.unit, target |-> org.target, entity |-> en,
                releases |-> org.releases, reported |-> org.reported]
  BY <1>1
<1>7. ASSUME NEW re, NEW rp
      PROVE  [org EXCEPT !.releases = re, !.reported = rp] =
               [space |-> org.space, unit |-> org.unit, target |-> org.target, entity |-> org.entity,
                releases |-> re, reported |-> rp]
  <2> DEFINE p1 == [org EXCEPT !.releases = re]
  <2>1. [org EXCEPT !.releases = re, !.reported = rp] = [p1 EXCEPT !.reported = rp]
    OBVIOUS
  <2>2. p1 = [space |-> org.space, unit |-> org.unit, target |-> org.target, entity |-> org.entity,
                releases |-> re, reported |-> org.reported]
    BY <1>1
  <2> HIDE DEF p1
  <2> QED BY <1>1, <2>1, <2>2
<1>8. ASSUME NEW rp
      PROVE  [org EXCEPT !.reported = rp] =
               [space |-> org.space, unit |-> org.unit, target |-> org.target, entity |-> org.entity,
                releases |-> org.releases, reported |-> rp]
  BY <1>1
<1> QED BY <1>2, <1>3, <1>4, <1>5, <1>6, <1>7, <1>8

LEMMA SpaceOK ==
  /\ OrgOK(org) => org.space \in [DOMAIN org.space -> Roles]
  /\ "demo" \in Roles /\ "cluster" \in Roles /\ "root base" \in Roles
  /\ "class base" \in Roles /\ "deployment" \in Roles
BY DEF OrgOK, Standing, Roles

LEMMA EnsuredIs ==
  ASSUME NEW f, f \in [DOMAIN f -> Roles], NEW S, NEW value, value \in Roles
  PROVE  /\ DOMAIN Ensured(f, S, value) = DOMAIN f \union S
         /\ Ensured(f, S, value) \in [DOMAIN Ensured(f, S, value) -> Roles]
         /\ \A s \in DOMAIN f : Ensured(f, S, value)[s] = f[s]
         /\ \A s \in S \ DOMAIN f : Ensured(f, S, value)[s] = value
<1>1. Ensured(f, S, value) = [x \in DOMAIN f \union S |-> IF x \in DOMAIN f THEN f[x] ELSE value]
  BY DEF Ensured, Over
<1> QED BY <1>1

\* What is cloned is a variant's, and bears the name of a unit that is there.
LEMMA ClonesOf ==
  ASSUME NEW units, NEW variants
  PROVE  /\ CloneAll(units, variants) = [w \in DOMAIN CloneAll(units, variants) |-> CloneAll(units, variants)[w]]
         /\ DOMAIN units \subseteq DOMAIN CloneAll(units, variants)
         /\ \A w \in DOMAIN CloneAll(units, variants) : w \in DOMAIN units \/ w[1] \in Slugs(variants)
         /\ \A w \in DOMAIN units : CloneAll(units, variants)[w] = units[w]
<1> DEFINE from(s) == (CHOOSE v \in variants : v.slug = s).from
           every == {v.slug : v \in variants} \X {u[2] : u \in DOMAIN units}
           cloned == {w \in every : <<from(w[1]), w[2]>> \in DOMAIN units}
           f == [w \in cloned |-> units[<<from(w[1]), w[2]>>]]
<1>1. CloneAll(units, variants) = Over(units, f)
  BY DEF CloneAll
<1>2. \A w \in cloned : w[1] \in Slugs(variants)
  BY DEF Slugs
<1>3. DOMAIN f = cloned
  OBVIOUS
<1> HIDE DEF f, cloned
<1>4. Over(units, f) = [x \in DOMAIN units \union DOMAIN f |-> IF x \in DOMAIN units THEN units[x] ELSE f[x]]
  BY DEF Over
<1> QED BY <1>1, <1>2, <1>3, <1>4

LEMMA NoOrgOK == OrgOK(NoOrg)
BY DEF OrgOK, NoOrg, Standing

\* A part of the org with another value; the rest as it was.
LEMMA HomeOK == ASSUME OrgOK(org), NEW m, NEW left PROVE OrgOK(MakeHome(m, left))
<1> DEFINE space == Ensured(org.space, {m.home} \ left, "demo")
<1>1. DOMAIN space = DOMAIN org.space \union ({m.home} \ left) /\ space \in [DOMAIN space -> Roles]
  BY EnsuredIs, SpaceOK
<1>2. MakeHome(m, left) = [space |-> space, unit |-> org.unit, target |-> org.target, entity |-> org.entity,
                           releases |-> org.releases, reported |-> org.reported]
  BY OrgWith DEF MakeHome
<1> HIDE DEF space
<1>3. Standing(space, org.unit, org.target, org.releases, org.reported)
  BY <1>1 DEF OrgOK, Standing
<1> QED BY <1>2, <1>3, OrgOf

LEMMA ClustersOK == ASSUME OrgOK(org), NEW m, NEW left PROVE OrgOK(MakeClusters(m, left))
<1> DEFINE space == Ensured(org.space, ClusterNames(m), "cluster")
           target == org.target \union (ClusterNames(m) \ left)
<1>1. DOMAIN space = DOMAIN org.space \union ClusterNames(m) /\ space \in [DOMAIN space -> Roles]
  BY EnsuredIs, SpaceOK
<1>2. MakeClusters(m, left) = [space |-> space, unit |-> org.unit, target |-> target, entity |-> org.entity,
                               releases |-> org.releases, reported |-> org.reported]
  <2>1. MakeClusters(m, left) = [org EXCEPT !.space = space, !.target = target]
    BY DEF MakeClusters
  <2> HIDE DEF space, target
  <2> QED BY <2>1, OrgWith
<1>3. target \subseteq DOMAIN space
  BY <1>1 DEF OrgOK, Standing
<1> HIDE DEF space, target
<1>4. Standing(space, org.unit, target, org.releases, org.reported)
  BY <1>1, <1>3 DEF OrgOK, Standing
<1> QED BY <1>2, <1>4, OrgOf

\* The root units of components, and what they are rendered from.
LEMMA RenderedIs ==
  ASSUME NEW C
  PROVE  /\ Rendered(C) = [w \in DOMAIN Rendered(C) |-> Rendered(C)[w]]
         /\ \A w : w \in DOMAIN Rendered(C) <=> \E c \in C : \E u \in DOMAIN c.manifest : w = <<c.root, u>>
<1> DEFINE of(c) == {[unit |-> <<c.root, u>>, from |-> c.manifest[u]] : u \in DOMAIN c.manifest}
           data == UNION {of(c) : c \in C}
<1>1. DOMAIN Rendered(C) = {d.unit : d \in data} /\ Rendered(C) = [w \in DOMAIN Rendered(C) |-> Rendered(C)[w]]
  BY DEF Rendered
<1>2. ASSUME NEW w, w \in {d.unit : d \in data} PROVE \E c \in C : \E u \in DOMAIN c.manifest : w = <<c.root, u>>
  <2>1. PICK d \in data : w = d.unit
    BY <1>2
  <2>2. PICK c \in C : d \in of(c)
    OBVIOUS
  <2>3. PICK u \in DOMAIN c.manifest : d = [unit |-> <<c.root, u>>, from |-> c.manifest[u]]
    BY <2>2
  <2> QED BY <2>1, <2>3
<1>3. ASSUME NEW c \in C, NEW u \in DOMAIN c.manifest PROVE <<c.root, u>> \in {d.unit : d \in data}
  <2> DEFINE d == [unit |-> <<c.root, u>>, from |-> c.manifest[u]]
  <2>1. d \in of(c)
    OBVIOUS
  <2>2. of(c) \in {of(e) : e \in C}
    OBVIOUS
  <2> HIDE DEF of
  <2>3. d \in data
    BY <2>1, <2>2
  <2> HIDE DEF data
  <2> QED BY <2>3
<1> HIDE DEF data
<1> QED BY <1>1, <1>2, <1>3

LEMMA BasesOK == ASSUME OrgOK(org), NEW m, NEW left PROVE OrgOK(MakeBases(m, left))
<1> DEFINE done == {c \in Ready(m) : c.name \notin left}
           roots == {c.root : c \in Ready(m)}
           first == Ensured(org.space, roots, "root base")
           space == Ensured(first, Slugs(BasesOf(done)), "class base")
           had == Over(Rendered(Ready(m)), org.unit)
           unit == CloneAll(had, BasesOf(done))
           entity == org.entity \union {c.name : c \in Ready(m)}
<1>1. DOMAIN first = DOMAIN org.space \union roots /\ first \in [DOMAIN first -> Roles]
  BY EnsuredIs, SpaceOK
<1>2. DOMAIN space = DOMAIN first \union Slugs(BasesOf(done)) /\ space \in [DOMAIN space -> Roles]
  <2> HIDE DEF first
  <2> QED BY <1>1, EnsuredIs, SpaceOK
<1>3. ASSUME NEW w \in DOMAIN had PROVE w[1] \in roots \/ w[1] \in DOMAIN org.space
  <2>1. w \in DOMAIN Rendered(Ready(m)) \/ w \in DOMAIN org.unit
    BY DEF Over
  <2>2. CASE w \in DOMAIN org.unit
    BY <2>2 DEF OrgOK, Standing
  <2>3. CASE w \in DOMAIN Rendered(Ready(m))
    <3> PICK c \in Ready(m) : \E u \in DOMAIN c.manifest : w = <<c.root, u>>
      BY <2>3, RenderedIs
    <3> QED OBVIOUS
  <2> QED BY <2>1, <2>2, <2>3
<1>4. unit = [w \in DOMAIN unit |-> unit[w]]
  BY ClonesOf
<1>5. ASSUME NEW w \in DOMAIN unit PROVE w[1] \in DOMAIN space
  <2> HIDE DEF had
  <2>1. w \in DOMAIN had \/ w[1] \in Slugs(BasesOf(done))
    BY ClonesOf
  <2> QED BY <1>1, <1>2, <1>3, <2>1
<1>6. MakeBases(m, left) = [space |-> space, unit |-> unit, target |-> org.target, entity |-> entity,
                            releases |-> org.releases, reported |-> org.reported]
  <2>1. MakeBases(m, left) = [org EXCEPT !.entity = entity, !.space = space, !.unit = unit]
    BY DEF MakeBases
  <2> HIDE DEF entity, space, unit
  <2> QED BY <2>1, OrgWith
<1>7. DOMAIN org.space \subseteq DOMAIN space
  BY <1>1, <1>2
<1> HIDE DEF space, unit, entity
<1>8. Standing(space, unit, org.target, org.releases, org.reported)
  BY <1>2, <1>4, <1>5, <1>7 DEF OrgOK, Standing
<1> QED BY <1>6, <1>8, OrgOf

LEMMA DeploymentsOK == ASSUME OrgOK(org), NEW m, NEW left PROVE OrgOK(MakeDeployments(m, left))
<1> DEFINE made == DeploymentsOf(Based(m))
           some == {d \in made : d.from \notin left}
           space == Ensured(org.space, Slugs(made), "deployment")
           unit == CloneAll(org.unit, some)
<1>1. DOMAIN space = DOMAIN org.space \union Slugs(made) /\ space \in [DOMAIN space -> Roles]
  BY EnsuredIs, SpaceOK
<1>2. Slugs(some) \subseteq Slugs(made)
  BY DEF Slugs
<1>3. unit = [w \in DOMAIN unit |-> unit[w]]
  BY ClonesOf
<1>4. ASSUME NEW w \in DOMAIN unit PROVE w[1] \in DOMAIN space
  <2> HIDE DEF some
  <2>1. w \in DOMAIN org.unit \/ w[1] \in Slugs(some)
    BY ClonesOf
  <2> QED BY <1>1, <1>2, <2>1 DEF OrgOK, Standing
<1>5. MakeDeployments(m, left) = [space |-> space, unit |-> unit, target |-> org.target, entity |-> org.entity,
                                  releases |-> org.releases, reported |-> org.reported]
  <2>1. MakeDeployments(m, left) = [org EXCEPT !.space = space, !.unit = unit]
    BY DEF MakeDeployments
  <2> HIDE DEF space, unit
  <2> QED BY <2>1, OrgWith
<1> HIDE DEF space, unit
<1>6. Standing(space, unit, org.target, org.releases, org.reported)
  BY <1>1, <1>3, <1>4 DEF OrgOK, Standing
<1> QED BY <1>5, <1>6, OrgOf

LEMMA ReleasesOK == ASSUME OrgOK(org), NEW m, NEW left PROVE OrgOK(MakeReleases(m, left))
<1> DEFINE now == Publishable(m) \ left
           f == [s \in now |-> [count |-> Published(s) + 1, has |-> UnitsIn(s)]]
           releases == Over(f, org.releases)
           reported == org.reported \ now
<1>1. now \subseteq DOMAIN org.space
  BY DEF Publishable, Spaces
<1>2. DOMAIN f = now
  OBVIOUS
<1>3. DOMAIN releases = now \union DOMAIN org.releases /\ releases = [s \in DOMAIN releases |-> releases[s]]
  <2> HIDE DEF f, now
  <2> QED BY <1>2 DEF Over
<1>4. MakeReleases(m, left) = [space |-> org.space, unit |-> org.unit, target |-> org.target, entity |-> org.entity,
                               releases |-> releases, reported |-> reported]
  <2>1. MakeReleases(m, left) = [org EXCEPT !.releases = releases, !.reported = reported]
    BY DEF MakeReleases
  <2> HIDE DEF releases, reported
  <2> QED BY <2>1, OrgWith
<1>5. reported \subseteq org.reported
  OBVIOUS
<1> HIDE DEF now, releases, reported
<1>6. Standing(org.space, org.unit, org.target, releases, reported)
  BY <1>1, <1>3, <1>5 DEF OrgOK, Standing
<1> QED BY <1>4, <1>6, OrgOf

LEMMA ReportsOK == ASSUME OrgOK(org), NEW m, NEW left PROVE OrgOK(MakeReports(m, left))
<1> DEFINE reported == org.reported \union (Painted(m) \ left)
<1>1. Painted(m) \subseteq DOMAIN org.releases
  BY DEF Painted
<1>2. MakeReports(m, left) = [space |-> org.space, unit |-> org.unit, target |-> org.target, entity |-> org.entity,
                              releases |-> org.releases, reported |-> reported]
  BY DEF MakeReports, OrgOK
<1>3. Standing(org.space, org.unit, org.target, org.releases, reported)
  BY <1>1 DEF OrgOK, Standing
<1> HIDE DEF reported
<1> QED BY <1>2, <1>3, OrgOf

\* What a walk leaves: Releases of deployments a story walks, and reports.
Walk(walked, told) ==
  /\ org'.space = org.space /\ org'.unit = org.unit /\ org'.target = org.target /\ org'.entity = org.entity
  /\ org'.reported = (org.reported \ walked) \union told
  /\ DOMAIN org'.releases = walked \union DOMAIN org.releases
  /\ \A s \in walked :
       /\ s \in Spaces("deployment") /\ UnitsIn(s) # {} /\ Walkers(job.model, s) # {}
       /\ org'.releases[s].has = UnitsIn(s) /\ \E n \in Nat \ {0} : org'.releases[s].count = Published(s) + n
  /\ \A s \in DOMAIN org.releases \ walked : org'.releases[s] = org.releases[s]
  /\ \/ walked \intersect StorySpaces(job.model) \subseteq told /\ Goes
     \/ Ends("none")

LEMMA WalkIs == ASSUME OrgOK(org), WalkStories PROVE OrgOK(org') /\ \E walked, told : Walk(walked, told)
<1>1. PICK more \in Further(job.model) :
        \E told \in SUBSET (StorySpaces(job.model) \intersect (Walked(more) \union DOMAIN org.releases)) :
          /\ org' = MakeStories(more, told)
          /\ (Walked(more) \intersect StorySpaces(job.model) \subseteq told /\ Goes) \/ Ends("none")
  BY DEF WalkStories
<1>2. PICK told : /\ told \subseteq Walked(more) \union DOMAIN org.releases
                  /\ org' = MakeStories(more, told)
                  /\ (Walked(more) \intersect StorySpaces(job.model) \subseteq told /\ Goes) \/ Ends("none")
  BY <1>1
<1> DEFINE walked == Walked(more)
           f == [s \in walked |-> [count |-> Published(s) + more[s], has |-> UnitsIn(s)]]
           releases == Over(f, org.releases)
           reported == (org.reported \ walked) \union told
<1>3. \A s \in walked : /\ s \in Spaces("deployment") /\ UnitsIn(s) # {} /\ Walkers(job.model, s) # {}
                        /\ more[s] \in Nat \ {0}
  BY DEF Further, Walked
<1>4. /\ DOMAIN f = walked /\ \A s \in walked : f[s].has = UnitsIn(s) /\ f[s].count = Published(s) + more[s]
  OBVIOUS
<1>5. org' = [org EXCEPT !.releases = releases, !.reported = reported]
  BY <1>2 DEF MakeStories
<1> HIDE DEF f, walked
<1>6. /\ DOMAIN releases = walked \union DOMAIN org.releases /\ releases = [s \in DOMAIN releases |-> releases[s]]
      /\ \A s \in walked : releases[s] = f[s]
      /\ \A s \in DOMAIN org.releases \ walked : releases[s] = org.releases[s]
  BY <1>4 DEF Over
<1>7. DOMAIN releases \subseteq DOMAIN org.space /\ reported \subseteq DOMAIN releases
  <2>1. walked \subseteq DOMAIN org.space
    BY <1>3 DEF Spaces
  <2>2. told \subseteq walked \union DOMAIN org.releases
    BY <1>2 DEF walked
  <2> QED BY <1>6, <2>1, <2>2 DEF OrgOK, Standing
<1> HIDE DEF releases, reported
<1>8. org' = [space |-> org.space, unit |-> org.unit, target |-> org.target, entity |-> org.entity,
              releases |-> releases, reported |-> reported]
  BY <1>5, OrgWith
<1>9. OrgOK(org')
  <2>1. Standing(org.space, org.unit, org.target, releases, reported)
    BY <1>6, <1>7 DEF OrgOK, Standing
  <2> QED BY <1>8, <2>1, OrgOf
<1>10. /\ org'.space = org.space /\ org'.unit = org.unit /\ org'.target = org.target /\ org'.entity = org.entity
       /\ org'.releases = releases /\ org'.reported = reported
  BY <1>8
<1>11. (walked \intersect StorySpaces(job.model) \subseteq told /\ Goes) \/ Ends("none")
  BY <1>2 DEF walked
<1>12. Walk(walked, told)
  BY <1>3, <1>4, <1>6, <1>10, <1>11 DEF Walk, reported
<1> QED BY <1>9, <1>12

LEMMA RemovedIs ==
  ASSUME OrgOK(org), NEW group, group # "components", NEW S
  PROVE  Removed(group, S) =
           [space |-> Without(org.space, S), unit |-> Without(org.unit, {u \in DOMAIN org.unit : u[1] \in S}),
            target |-> org.target \ S, entity |-> org.entity,
            releases |-> Without(org.releases, S), reported |-> org.reported \ S]
BY DEF Removed, OrgOK

LEMMA RemovedOK == ASSUME OrgOK(org), NEW group, NEW S PROVE OrgOK(Removed(group, S))
<1>1. CASE group = "components"
  <2> DEFINE entity == org.entity \ S
  <2>1. Removed(group, S) = [space |-> org.space, unit |-> org.unit, target |-> org.target, entity |-> entity,
                             releases |-> org.releases, reported |-> org.reported]
    BY <1>1 DEF Removed, OrgOK
  <2> HIDE DEF entity
  <2> QED BY <2>1, OrgOf DEF OrgOK
<1>2. CASE group # "components"
  <2> DEFINE lost == {u \in DOMAIN org.unit : u[1] \in S}
             space == Without(org.space, S)
             unit == Without(org.unit, lost)
             releases == Without(org.releases, S)
  <2>1. DOMAIN space = DOMAIN org.space \ S /\ space \in [DOMAIN space -> Roles]
    BY DEF Without, OrgOK, Standing
  <2>2. DOMAIN unit = DOMAIN org.unit \ lost /\ unit = [u \in DOMAIN unit |-> unit[u]]
    BY DEF Without
  <2>3. DOMAIN releases = DOMAIN org.releases \ S /\ releases = [s \in DOMAIN releases |-> releases[s]]
    BY DEF Without
  <2>4. \A u \in DOMAIN unit : u[1] \in DOMAIN space
    BY <2>1, <2>2 DEF OrgOK, Standing
  <2>5. Removed(group, S) = [space |-> space, unit |-> unit, target |-> org.target \ S, entity |-> org.entity,
                             releases |-> releases, reported |-> org.reported \ S]
    BY <1>2, RemovedIs
  <2> HIDE DEF space, unit, releases
  <2>6. Standing(space, unit, org.target \ S, releases, org.reported \ S)
    BY <2>1, <2>2, <2>3, <2>4 DEF OrgOK, Standing
  <2> QED BY <2>5, <2>6, OrgOf
<1> QED BY <1>1, <1>2

LEMMA MadeOK ==
  ASSUME OrgOK(org), NEW m, NEW left, NEW phase \in ToSet(Phases) \ {"views", "stories"}
  PROVE  OrgOK(Made(phase, m, left))
<1>1. phase \in {"home", "clusters", "bases", "deployments", "releases", "livestatus", "workflows"}
  BY DEF ToSet, Phases
<1> QED BY <1>1, HomeOK, ClustersOK, BasesOK, DeploymentsOK, ReleasesOK, ReportsOK DEF Made

-----------------------------------------------------------------------------
(* The verb in hand, and what the verbs before it left *)

\* The steps of install, of agents up and down, and of reset.
StoreSteps == <<"store">>
AgentSteps == <<"agents">>
ResetSteps == Groups \o Phases

\* The steps of a verb, and what it has done when it is through with them.
JobOK ==
  /\ job.verb \in {"install", "up", "down", "reset", "uninstall", "agents up", "agents down"}
  /\ job.verb = "install" => job.steps = StoreSteps /\ job.says = "install" /\ job.model \in Installables
  /\ job.verb = "up" => job.says = "none" \/ (job.steps = Phases /\ job.says = "up")
  /\ job.verb \in {"down", "uninstall"} => job.steps = Groups /\ job.says = job.verb
  /\ job.verb = "reset" => job.steps = ResetSteps /\ job.says = "up"
  /\ job.verb \in {"agents up", "agents down"} => job.steps = AgentSteps /\ job.says = "none"
  /\ job.verb \in {"up", "down", "reset", "uninstall"} => job.model = Expand(Loaded)
  /\ job.verb # "install" => Defined
  /\ (job.verb = "up" /\ job.says = "none") \/ at \in 1 .. Len(job.steps)

StoredOK ==
  /\ stored = [p \in DOMAIN stored |-> stored[p]]
  /\ \A p \in DOMAIN stored : stored[p] \in Installables \union {Empty}
  /\ \A p \in DOMAIN stored : stored[p] # Empty => p \in Paths(Drafts[stored[p]])
  /\ \A p \in DOMAIN stored : \E v \in Installables : p \in Paths(Drafts[v])
  /\ installed \in Draft \union {"none", "mixed"}
  /\ stored # <<>> => installed \in Draft \union {"mixed"}

CountsOK ==
  /\ grown \subseteq Draft \union {"mixed"}
  /\ said \in {"none", "install", "up", "down", "uninstall"}
  /\ jobs \in 0 .. MaxJobs /\ events \in 0 .. MaxEvents

\* What holds of a demo's life whatever drafts there are.
LifeKept == (at # 0 => said = "none" /\ JobOK) /\ StoredOK /\ CountsOK /\ OrgOK(org)

LEMMA StepsAre ==
  /\ Len(Groups) = 6 /\ Len(Phases) = 9 /\ Len(ResetSteps) = 15 /\ Len(StoreSteps) = 1 /\ Len(AgentSteps) = 1
  /\ \A i \in 1 .. 15 : ResetSteps[i] = IF i <= 6 THEN Groups[i] ELSE Phases[i - 6]
<1> DEFINE S == {"deployment", "class base", "root base", "components", "cluster", "demo",
                 "home", "clusters", "bases", "deployments", "releases", "livestatus", "views",
                 "workflows", "stories"}
           both == Groups \o Phases
<1>1. Groups \in Seq(S) /\ Phases \in Seq(S)
  BY DEF Groups, Phases
<1>2. Len(Groups) = 6 /\ Len(Phases) = 9
  BY DEF Groups, Phases
<1> HIDE DEF S
<1>3. /\ Len(both) = Len(Groups) + Len(Phases)
      /\ \A i \in 1 .. Len(Groups) + Len(Phases) :
           both[i] = IF i <= Len(Groups) THEN Groups[i] ELSE Phases[i - Len(Groups)]
  BY <1>1, ConcatProperties, Zenon
<1> HIDE DEF both
<1>4. Len(both) = 15 /\ \A i \in 1 .. 15 : both[i] = IF i <= 6 THEN Groups[i] ELSE Phases[i - 6]
  BY <1>2, <1>3
<1>5. Len(StoreSteps) = 1 /\ Len(AgentSteps) = 1
  BY DEF StoreSteps, AgentSteps
<1> QED BY <1>2, <1>4, <1>5 DEF both, ResetSteps

LEMMA StepsLen ==
  /\ Len(Groups) = 6 /\ Len(Phases) = 9 /\ Len(ResetSteps) = 15
  /\ Len(StoreSteps) = 1 /\ Len(AgentSteps) = 1
BY StepsAre

LEMMA KeptInit == LifeInit => LifeKept
BY NoOrgOK, BoundsAssumption DEF LifeInit, LifeKept, StoredOK, CountsOK

\* A definition is read from what is stored.
LEMMA ReadSame == ASSUME UNCHANGED stored PROVE Files' = Files /\ Loaded' = Loaded /\ (Defined' <=> Defined)
<1>1. Files' = Files
  BY DEF Files
<1>2. (stored # <<>>)' <=> stored # <<>>
  OBVIOUS
<1> QED BY <1>1, <1>2 DEF Loaded, Defined

\* Only what a verb does last is said of it.
LEMMA GoesKept ==
  ASSUME at # 0, said = "none", JobOK, Goes, UNCHANGED stored
  PROVE  /\ at' # 0 => said' = "none" /\ JobOK'
         /\ said' \in {"none", "install", "up", "down", "uninstall"}
<1>1. CASE at = Len(job.steps)
  BY <1>1 DEF Goes, Ends, JobOK
<1>2. CASE at # Len(job.steps)
  <2>1. at' = at + 1 /\ job' = job /\ said' = said
    BY <1>2 DEF Goes
  <2>2. (job.verb = "up" /\ job.says = "none") \/ at' \in 1 .. Len(job.steps)
    <3> SUFFICES ASSUME ~(job.verb = "up" /\ job.says = "none") PROVE at' \in 1 .. Len(job.steps)
      OBVIOUS
    <3>1. job.steps \in {StoreSteps, AgentSteps, Phases, Groups, ResetSteps}
      BY DEF JobOK
    <3>2. Len(job.steps) \in Nat
      BY <3>1, StepsLen
    <3>3. at \in 1 .. Len(job.steps)
      BY DEF JobOK
    <3> QED BY <1>2, <2>1, <3>2, <3>3
  <2>3. Loaded' = Loaded /\ (Defined' <=> Defined)
    BY ReadSame
  <2>4. JobOK'
    <3> HIDE DEF Goes
    <3> QED BY <2>1, <2>2, <2>3 DEF JobOK
  <2> QED BY <2>1, <2>4
<1> QED BY <1>1, <1>2

LEMMA OutcomeKept ==
  ASSUME at # 0, said = "none", JobOK, CountsOK, NEW failed, Outcome(failed), failed => events < MaxEvents,
         UNCHANGED stored
  PROVE  /\ at' # 0 => said' = "none" /\ JobOK'
         /\ said' \in {"none", "install", "up", "down", "uninstall"}
         /\ events' \in 0 .. MaxEvents
<1>1. CASE failed
  BY <1>1, BoundsAssumption DEF Outcome, Ends, CountsOK
<1>2. CASE ~failed
  BY <1>2, GoesKept DEF Outcome, CountsOK
<1> QED BY <1>1, <1>2

LEMMA StartKept ==
  ASSUME LifeKept, NEW verb, NEW m, NEW steps, NEW model, NEW says, Start(verb, m, steps, model, says)
  PROVE  /\ at = 0 /\ at' = 1 /\ said' = "none" /\ StoredOK' /\ CountsOK' /\ OrgOK(org')
         /\ job'.verb = verb /\ job'.steps = steps /\ job'.model = model /\ job'.says = says
         /\ Loaded' = Loaded /\ (Defined' <=> Defined)
<1>1. UNCHANGED <<stored, org, installed, grown, events>>
  BY DEF Start
<1>2. StoredOK'
  BY <1>1 DEF LifeKept, StoredOK
<1>3. CountsOK'
  BY BoundsAssumption, <1>1 DEF Start, LifeKept, CountsOK
<1>4. job'.verb = verb /\ job'.steps = steps /\ job'.model = model /\ job'.says = says
  BY DEF Start
<1> QED BY <1>1, <1>2, <1>3, <1>4, ReadSame DEF Start, LifeKept

LEMMA InstallKept == ASSUME LifeKept, NEW v \in Draft, Install(v) PROVE LifeKept'
<1>1. v \in Installables /\ Start("install", AnyMachine, StoreSteps, v, "install")
  BY DEF Install, StoreSteps
<1>2. JobOK'
  <2>1. job'.verb = "install" /\ job'.steps = StoreSteps /\ job'.model = v /\ job'.says = "install" /\ at' = 1
    BY <1>1, StartKept
  <2> QED BY <1>1, <2>1, StepsLen DEF JobOK
<1> QED BY <1>1, <1>2, StartKept DEF LifeKept

LEMMA RunKept ==
  ASSUME LifeKept, at = 0, Defined, NEW model, model = Expand(Loaded),
         RunUp(model) \/ RunDown(model) \/ RunReset(model) \/ RunAgents
  PROVE  LifeKept'
<1>1. CASE RunUp(model)
  <2>1. PICK m \in Machine, phases \in PhaseArgs :
          LET wanted(p) == p \in phases IN
          IF phases = {} THEN Start("up", m, Phases, model, "up")
          ELSE Start("up", m, SelectSeq(Phases, wanted), model, "none")
    BY <1>1 DEF RunUp
  <2>2. CASE phases = {}
    <3>1. Start("up", m, Phases, model, "up")
      BY <2>1, <2>2
    <3>2. /\ job'.verb = "up" /\ job'.steps = Phases /\ job'.model = model /\ job'.says = "up"
        /\ at' = 1 /\ Loaded' = Loaded /\ Defined'
      BY <3>1, StartKept
    <3>3. JobOK'
      BY <3>2, StepsLen DEF JobOK
    <3> QED BY <3>1, <3>3, StartKept DEF LifeKept
  <2>3. CASE phases # {}
    <3>1. \E steps : Start("up", m, steps, model, "none")
      BY <2>1, <2>3, Zenon
    <3>2. PICK steps : Start("up", m, steps, model, "none")
      BY <3>1
    <3>3. /\ job'.verb = "up" /\ job'.steps = steps /\ job'.model = model /\ job'.says = "none"
        /\ at' = 1 /\ Loaded' = Loaded /\ Defined'
      BY <3>2, StartKept
    <3>4. JobOK'
      BY <3>3 DEF JobOK
    <3> QED BY <3>2, <3>4, StartKept DEF LifeKept
  <2> QED BY <2>2, <2>3
<1>2. CASE RunDown(model)
  <2>1. PICK verb \in {"down", "uninstall"} : Start(verb, AnyMachine, Groups, model, verb)
    BY <1>2 DEF RunDown
  <2>2. /\ job'.verb = verb /\ job'.steps = Groups /\ job'.model = model /\ job'.says = verb
        /\ at' = 1 /\ Loaded' = Loaded /\ Defined'
    BY <2>1, StartKept
  <2>3. JobOK'
    <3>1. Len(Groups) = 6
      BY StepsLen
    <3>2. CASE verb = "down"
      BY <2>2, <3>1, <3>2 DEF JobOK
    <3>3. CASE verb = "uninstall"
      BY <2>2, <3>1, <3>3 DEF JobOK
    <3> QED BY <3>2, <3>3
  <2> QED BY <2>1, <2>3, StartKept DEF LifeKept
<1>3. CASE RunReset(model)
  <2>1. PICK m \in Machine : Start("reset", m, ResetSteps, model, "up")
    BY <1>3 DEF RunReset, ResetSteps
  <2>2. /\ job'.verb = "reset" /\ job'.steps = ResetSteps /\ job'.model = model /\ job'.says = "up"
        /\ at' = 1 /\ Loaded' = Loaded /\ Defined'
    BY <2>1, StartKept
  <2>3. JobOK'
    BY <2>2, StepsLen DEF JobOK
  <2> QED BY <2>1, <2>3, StartKept DEF LifeKept
<1>4. CASE RunAgents
  <2>1. \E m : Start("agents up", m, AgentSteps, Agents, "none") \/ Start("agents down", m, AgentSteps, Agents, "none")
    BY <1>4 DEF RunAgents, AgentSteps
  <2>2. CASE \E m : Start("agents up", m, AgentSteps, Agents, "none")
    <3>1. PICK m : Start("agents up", m, AgentSteps, Agents, "none")
      BY <2>2
    <3>2. /\ job'.verb = "agents up" /\ job'.steps = AgentSteps /\ job'.model = Agents /\ job'.says = "none"
          /\ at' = 1 /\ Defined'
      BY <3>1, StartKept
    <3>3. JobOK'
      <4>1. Len(job'.steps) = 1 /\ at' = 1
        BY <3>2, StepsLen
      <4>2. at' \in 1 .. Len(job'.steps)
        BY <4>1
      <4> QED BY <3>2, <4>2 DEF JobOK
    <3> QED BY <3>1, <3>3, StartKept DEF LifeKept
  <2>3. CASE \E m : Start("agents down", m, AgentSteps, Agents, "none")
    <3>1. PICK m : Start("agents down", m, AgentSteps, Agents, "none")
      BY <2>3
    <3>2. /\ job'.verb = "agents down" /\ job'.steps = AgentSteps /\ job'.model = Agents /\ job'.says = "none"
          /\ at' = 1 /\ Defined'
      BY <3>1, StartKept
    <3>3. JobOK'
      <4>1. Len(job'.steps) = 1 /\ at' = 1
        BY <3>2, StepsLen
      <4>2. at' \in 1 .. Len(job'.steps)
        BY <4>1
      <4> QED BY <3>2, <4>2 DEF JobOK
    <3> QED BY <3>1, <3>3, StartKept DEF LifeKept
  <2> QED BY <2>1, <2>2, <2>3
<1> QED BY <1>1, <1>2, <1>3, <1>4

\* A call fails where the bound allows one more to.
LEMMA OneFails == ASSUME NEW items, NEW left \in OneOf(items), left # {} PROVE events < MaxEvents
BY DEF OneOf, MayFail

LEMMA StoredIs ==
  ASSUME StoredOK, NEW v \in Installables, NEW uncreated, NEW unwritten
  PROVE  LET s == Stored(v, uncreated, unwritten) IN
         /\ s = [p \in DOMAIN s |-> s[p]]
         /\ \A p \in DOMAIN s : s[p] \in Installables \union {Empty}
         /\ \A p \in DOMAIN s : s[p] # Empty => p \in Paths(Drafts[s[p]])
         /\ \A p \in DOMAIN s : \E w \in Installables : p \in Paths(Drafts[w])
<1> DEFINE s == Stored(v, uncreated, unwritten)
           given == Paths(Drafts[v])
<1>1. DOMAIN s = (given \ uncreated) \union DOMAIN stored /\ s = [p \in DOMAIN s |-> s[p]]
  BY DEF Stored
<1>2. \A p \in DOMAIN s : (s[p] = v /\ p \in given) \/ s[p] = Empty \/ (p \in DOMAIN stored /\ s[p] = stored[p])
  BY DEF Stored
<1> HIDE DEF s, given
<1>3. \A p \in DOMAIN s : s[p] \in Installables \union {Empty}
  BY <1>1, <1>2 DEF StoredOK
<1>4. \A p \in DOMAIN s : \E w \in Installables : p \in Paths(Drafts[w])
  BY <1>1 DEF StoredOK, given
<1>5. \A p \in DOMAIN s : s[p] # Empty => p \in Paths(Drafts[s[p]])
  BY <1>2 DEF StoredOK, given
<1> QED BY <1>1, <1>3, <1>4, <1>5 DEF s

LEMMA StoreKept == ASSUME LifeKept, Store PROVE LifeKept'
<1>1. PICK uncreated \in OneOf(Paths(Drafts[job.model]) \ DOMAIN stored),
           unwritten \in OneOf(Paths(Drafts[job.model])) :
        /\ {} \in {uncreated, unwritten}
        /\ stored' = Stored(job.model, uncreated, unwritten)
        /\ installed' = IF uncreated \union unwritten = {} THEN job.model ELSE "mixed"
        /\ Outcome(uncreated \union unwritten # {})
  BY DEF Store
<1>2. /\ at # 0 /\ said = "none" /\ JobOK /\ StoredOK /\ CountsOK /\ OrgOK(org)
      /\ job.verb = "install" /\ job.model \in Installables /\ job.says = "install"
      /\ job.steps = StoreSteps /\ at = 1 /\ UNCHANGED <<org, grown, jobs>>
  <2>1. at # 0 /\ job.verb = "install" /\ LifeKept /\ UNCHANGED <<org, grown, jobs>>
    BY DEF Store
  <2>2. job.model \in Installables /\ job.says = "install" /\ job.steps = StoreSteps /\ at \in 1 .. Len(job.steps)
    BY <2>1 DEF LifeKept, JobOK
  <2> QED BY <2>1, <2>2, StepsLen DEF LifeKept
<1>3. StoredOK'
  <2>1. installed' \in Draft \union {"mixed"}
    BY <1>1, <1>2 DEF Installables
  <2> QED BY <1>1, <1>2, <2>1, StoredIs DEF StoredOK
<1>4. at' = 0 /\ said' \in {"none", "install"}
  BY <1>1, <1>2, StepsLen DEF Outcome, Goes, Ends
<1>5. events' \in 0 .. MaxEvents
  <2>1. uncreated \union unwritten # {} => events < MaxEvents
    BY <1>1, OneFails
  <2> QED BY <1>1, <1>2, <2>1, BoundsAssumption DEF Outcome, CountsOK
<1> QED BY <1>2, <1>3, <1>4, <1>5 DEF LifeKept, CountsOK

\* Making and serving is no part of an install or a teardown, nor a teardown of
\* an install or an up that goes through all phases.
LEMMA StepsOf ==
  ASSUME at # 0, JobOK
  PROVE  /\ Doing(ToSet(Phases)) => job.verb \in {"up", "reset"}
         /\ Doing(ToSet(Groups)) => job.verb \in {"down", "uninstall", "reset"} \/ job.says = "none"
<1> DEFINE Making == {"home", "clusters", "bases", "deployments", "releases", "livestatus", "views",
                 "workflows", "stories"}
           Taking == {"deployment", "class base", "root base", "components", "cluster", "demo"}
<1>1. ToSet(Phases) \subseteq Making /\ \A i \in 1 .. 9 : Phases[i] \in Making
  BY DEF ToSet, Phases
<1>2. \A i \in 1 .. 6 : Groups[i] \in Taking
  <2>1. /\ Groups[1] = "deployment" /\ Groups[2] = "class base" /\ Groups[3] = "root base"
        /\ Groups[4] = "components" /\ Groups[5] = "cluster" /\ Groups[6] = "demo"
    BY DEF Groups
  <2>2. \A i \in 1 .. 6 : i = 1 \/ i = 2 \/ i = 3 \/ i = 4 \/ i = 5 \/ i = 6
    OBVIOUS
  <2>3. Groups[1] \in Taking /\ Groups[2] \in Taking /\ Groups[3] \in Taking
    BY <2>1
  <2>4. Groups[4] \in Taking /\ Groups[5] \in Taking /\ Groups[6] \in Taking
    BY <2>1
  <2> HIDE DEF Taking
  <2> QED BY <2>2, <2>3, <2>4
<1>3. ToSet(Groups) \subseteq Taking
  <2>1. DOMAIN Groups = 1 .. 6
    BY DEF Groups
  <2> QED BY <1>2, <2>1 DEF ToSet
<1>4. \A x \in Taking : x \notin Making /\ x \notin {"store", "agents"}
  OBVIOUS
<1>5. "store" \notin Making /\ "agents" \notin Making
  OBVIOUS
<1> HIDE DEF Making, Taking
<1>6. CASE job.verb = "install"
  <2>1. job.steps = StoreSteps /\ at \in 1 .. Len(job.steps)
    BY <1>6 DEF JobOK
  <2>2. job.steps[at] = "store"
    BY <2>1, StepsLen DEF StoreSteps
  <2> QED BY <1>1, <1>3, <1>4, <1>5, <2>2 DEF Doing
<1>7. CASE job.verb \in {"down", "uninstall"}
  <2>1. job.steps = Groups /\ at \in 1 .. 6
    BY <1>7, StepsLen DEF JobOK
  <2> QED BY <1>1, <1>2, <1>4, <1>7, <2>1 DEF Doing
<1>8. CASE job.verb \in {"agents up", "agents down"}
  <2>1. job.steps = AgentSteps /\ at \in 1 .. Len(job.steps)
    BY <1>8 DEF JobOK
  <2>2. job.steps[at] = "agents"
    BY <2>1, StepsLen DEF AgentSteps
  <2> QED BY <1>1, <1>3, <1>4, <1>5, <2>2 DEF Doing
<1>9. CASE job.verb = "up"
  <2>1. CASE job.says = "none"
    BY <1>9, <2>1
  <2>2. CASE job.says # "none"
    <3>1. job.steps = Phases /\ at \in 1 .. 9
      BY <1>9, <2>2, StepsLen DEF JobOK
    <3> QED BY <1>1, <1>3, <1>4, <1>9, <3>1 DEF Doing
  <2> QED BY <2>1, <2>2
<1> QED BY <1>6, <1>7, <1>8, <1>9 DEF JobOK

LEMMA MakeKept == ASSUME LifeKept, Make PROVE LifeKept'
<1>1. PICK left \in OneOf(Items(job.steps[at], job.model)) :
        org' = Made(job.steps[at], job.model, left) /\ Outcome(left # {})
  BY DEF Make
<1>2. /\ at # 0 /\ said = "none" /\ JobOK /\ StoredOK /\ CountsOK /\ OrgOK(org)
      /\ job.steps[at] \in ToSet(Phases) \ {"views", "stories"} /\ grown' = grown \union {installed}
      /\ UNCHANGED <<stored, installed, jobs>>
  BY DEF Make, Doing, LifeKept
<1>3. OrgOK(org')
  BY <1>1, <1>2, MadeOK
<1>4. left # {} => events < MaxEvents
  BY OneFails
<1>5. /\ at' # 0 => said' = "none" /\ JobOK'
      /\ said' \in {"none", "install", "up", "down", "uninstall"} /\ events' \in 0 .. MaxEvents
  BY <1>1, <1>2, <1>4, OutcomeKept
<1>6. installed \in Draft \union {"mixed"}
  <2>1. job.verb \in {"up", "reset"}
    BY <1>2, StepsOf DEF Doing
  <2> QED BY <1>2, <2>1 DEF JobOK, Defined, StoredOK
<1>7. StoredOK'
  BY <1>2 DEF StoredOK
<1> QED BY <1>2, <1>3, <1>5, <1>6, <1>7 DEF LifeKept, CountsOK

LEMMA RefuseKept == ASSUME LifeKept, Refuse PROVE LifeKept'
<1>1. at' = 0 /\ said' = "none" /\ UNCHANGED <<stored, org, installed, grown, jobs, events>>
  BY DEF Refuse, Ends
<1> QED BY <1>1 DEF LifeKept, StoredOK, CountsOK

\* A step that only goes on, or fails, leaves what the others left.
LEMMA OutcomeOnly ==
  ASSUME LifeKept, at # 0, NEW failed, Outcome(failed), failed => events < MaxEvents,
         UNCHANGED <<stored, org, installed, grown, jobs>>
  PROVE  LifeKept'
<1>1. /\ at' # 0 => said' = "none" /\ JobOK'
      /\ said' \in {"none", "install", "up", "down", "uninstall"} /\ events' \in 0 .. MaxEvents
  BY OutcomeKept DEF LifeKept
<1>2. StoredOK' /\ OrgOK(org')
  BY DEF LifeKept, StoredOK
<1> QED BY <1>1, <1>2 DEF LifeKept, CountsOK

LEMMA StepOnly ==
  ASSUME LifeKept, at # 0, UNCHANGED <<stored, org, installed, grown, jobs, job, at, said, events>>
  PROVE  LifeKept'
<1>1. Loaded' = Loaded /\ (Defined' <=> Defined)
  BY ReadSame
<1>2. JobOK'
  BY <1>1 DEF LifeKept, JobOK
<1>3. StoredOK' /\ OrgOK(org')
  BY DEF LifeKept, StoredOK
<1> QED BY <1>2, <1>3 DEF LifeKept, CountsOK

LEMMA ViewsKept == ASSUME LifeKept, ConvergeViews PROVE LifeKept'
<1>1. at # 0 /\ UNCHANGED <<stored, org, installed, grown, jobs>>
  BY DEF ConvergeViews, Doing
<1>2. CASE UNCHANGED <<job, at, said, events>>
  BY <1>1, <1>2, StepOnly
<1>3. CASE Goes /\ UNCHANGED events
  <2>1. Outcome(FALSE)
    BY <1>3 DEF Outcome
  <2> QED BY <1>1, <2>1, OutcomeOnly
<1>4. CASE MayFail /\ Outcome(TRUE)
  BY <1>1, <1>4, OutcomeOnly DEF MayFail
<1> QED BY <1>2, <1>3, <1>4 DEF ConvergeViews

LEMMA AgentsKept == ASSUME LifeKept, ServeAgents PROVE LifeKept'
<1>1. at # 0 /\ UNCHANGED <<stored, org, installed, grown, jobs>>
  BY DEF ServeAgents, Doing
<1>2. CASE UNCHANGED <<job, at, said, events>>
  BY <1>1, <1>2, StepOnly
<1>3. CASE Goes /\ UNCHANGED events
  <2>1. Outcome(FALSE)
    BY <1>3 DEF Outcome
  <2> QED BY <1>1, <2>1, OutcomeOnly
<1>4. CASE MayFail /\ Outcome(TRUE)
  BY <1>1, <1>4, OutcomeOnly DEF MayFail
<1> QED BY <1>2, <1>3, <1>4 DEF ServeAgents

LEMMA CrashKept == ASSUME LifeKept, Crash PROVE LifeKept'
<1>1. at # 0 /\ events < MaxEvents /\ Outcome(TRUE) /\ UNCHANGED <<stored, org, installed, grown, jobs>>
  BY DEF Crash
<1> QED BY <1>1, OutcomeOnly

LEMMA WalkDoing == ASSUME WalkStories PROVE at # 0 /\ job.steps[at] = "stories" /\ Doing(ToSet(Phases))
<1>1. "stories" \in ToSet(Phases)
  BY DEF ToSet, Phases
<1> QED BY <1>1 DEF WalkStories, Doing

LEMMA WalkKept == ASSUME LifeKept, WalkStories PROVE LifeKept'
<1>1. /\ at # 0 /\ said = "none" /\ JobOK /\ StoredOK /\ CountsOK /\ OrgOK(org) /\ Doing(ToSet(Phases))
      /\ grown' = grown \union {installed} /\ UNCHANGED <<stored, installed, jobs, events>>
  BY WalkDoing DEF WalkStories, LifeKept
<1>2. Goes \/ Ends("none")
  BY DEF WalkStories
<1>3. OrgOK(org')
  BY <1>1, WalkIs
<1>4. /\ at' # 0 => said' = "none" /\ JobOK'
      /\ said' \in {"none", "install", "up", "down", "uninstall"}
  <2>1. CASE Goes
    BY <1>1, <2>1, GoesKept
  <2>2. CASE Ends("none")
    BY <2>2 DEF Ends
  <2> QED BY <1>2, <2>1, <2>2
<1>5. installed \in Draft \union {"mixed"}
  <2>1. job.verb \in {"up", "reset"}
    BY <1>1, StepsOf
  <2> QED BY <1>1, <2>1 DEF JobOK, Defined, StoredOK
<1>6. StoredOK'
  BY <1>1 DEF StoredOK
<1> QED BY <1>1, <1>3, <1>4, <1>5, <1>6 DEF LifeKept, CountsOK

LEMMA TearDownKept == ASSUME LifeKept, TearDown PROVE LifeKept'
<1> DEFINE group == job.steps[at]
           defined == IF group = "demo" /\ job.verb = "uninstall" THEN {"definition"} ELSE {}
<1>1. PICK left \in OneOf(Batch(group, job.model) \union defined) :
        /\ org' = Removed(group, Batch(group, job.model) \ left)
        /\ stored' = IF defined \ left # {} THEN <<>> ELSE stored
        /\ installed' = IF defined \ left # {} THEN "none" ELSE installed
        /\ Outcome(left # {})
  BY DEF TearDown
<1>2. /\ at # 0 /\ said = "none" /\ JobOK /\ StoredOK /\ CountsOK /\ OrgOK(org)
      /\ grown' \in {{}, grown} /\ UNCHANGED jobs
  BY DEF TearDown, Doing, LifeKept
<1>3. OrgOK(org')
  BY <1>1, <1>2, RemovedOK
<1>4. left # {} => events < MaxEvents
  BY OneFails
<1>5. StoredOK'
  BY <1>1, <1>2 DEF StoredOK
<1>6. CASE defined \ left = {}
  <2>1. UNCHANGED stored
    BY <1>1, <1>6
  <2>2. /\ at' # 0 => said' = "none" /\ JobOK'
        /\ said' \in {"none", "install", "up", "down", "uninstall"} /\ events' \in 0 .. MaxEvents
    BY <1>1, <1>2, <1>4, <2>1, OutcomeKept
  <2> QED BY <1>2, <1>3, <1>5, <2>2 DEF LifeKept, CountsOK
<1>7. CASE defined \ left # {}
  \* The definition goes with the last group.
  <2>1. group = "demo" /\ job.verb = "uninstall"
    BY <1>7
  <2>2. job.steps = Groups /\ at \in 1 .. 6 /\ job.says = "uninstall"
    BY <1>2, <2>1, StepsLen DEF JobOK
  <2>3. at = 6
    <3>1. /\ Groups[1] # "demo" /\ Groups[2] # "demo" /\ Groups[3] # "demo"
          /\ Groups[4] # "demo" /\ Groups[5] # "demo"
      BY DEF Groups
    <3>2. \A i \in 1 .. 6 : i = 1 \/ i = 2 \/ i = 3 \/ i = 4 \/ i = 5 \/ i = 6
      OBVIOUS
    <3>3. Groups[at] = "demo"
      BY <2>1, <2>2
    <3> QED BY <2>2, <3>1, <3>2, <3>3
  <2>4. at' = 0 /\ said' \in {"none", "uninstall"}
    BY <1>1, <2>2, <2>3, StepsLen DEF Outcome, Goes, Ends
  <2>5. events' \in 0 .. MaxEvents
    BY <1>1, <1>2, <1>4, BoundsAssumption DEF Outcome, CountsOK
  <2> QED BY <1>2, <1>3, <1>5, <2>4, <2>5 DEF LifeKept, CountsOK
<1> QED BY <1>6, <1>7

LEMMA KeptStep == LifeKept /\ [LifeNext]_vars => LifeKept'
<1> SUFFICES ASSUME LifeKept, [LifeNext]_vars PROVE LifeKept'
  OBVIOUS
<1>1. CASE \E v \in Draft : Install(v)
  BY <1>1, InstallKept
<1>2. CASE at = 0 /\ Defined /\ LET model == Expand(Loaded) IN
              RunUp(model) \/ RunDown(model) \/ RunReset(model) \/ RunAgents
  BY <1>2, RunKept
<1>3. CASE UNCHANGED vars
  <2>1. UNCHANGED <<stored, org, installed, grown, jobs, job, at, said, events>>
    BY <1>3 DEF vars, lifeVars
  <2>2. CASE at # 0
    BY <2>1, <2>2, StepOnly
  <2>3. CASE at = 0
    BY <2>1, <2>3 DEF LifeKept, StoredOK, CountsOK
  <2> QED BY <2>2, <2>3
<1> QED BY <1>1, <1>2, <1>3, StoreKept, MakeKept, RefuseKept, ViewsKept, WalkKept, TearDownKept, AgentsKept, CrashKept
       DEF LifeNext

\* Through any sequence of verbs, cut short anywhere (src/cmd): the bundle's
\* files are of drafts that install accepts, nothing stands outside a space or
\* is reported without a Release, and what the org was grown by is known.
THEOREM LifeTypeCorrect == LifeSpec => []LifeTypeOK
<1>1. LifeKept => /\ stored \in UNION {[P -> Draft \union {Empty}] : P \in {DOMAIN stored}}
                  /\ DOMAIN stored \subseteq UNION {Paths(Drafts[v]) : v \in DOMAIN Plans}
  BY DEF LifeKept, StoredOK, Plans, Installables
<1>2. LifeKept => {u[1] : u \in DOMAIN org.unit} \union org.target \union DOMAIN org.releases \union org.reported
                    \subseteq DOMAIN org.space
  BY DEF LifeKept, OrgOK, Standing
<1>3. LifeKept /\ ViewsTypeOK /\ AccountsTypeOK => LifeTypeOK
  BY <1>1, <1>2 DEF LifeKept, StoredOK, CountsOK, OrgOK, Standing, LifeTypeOK
<1>4. LifeSpec => []ViewsTypeOK
  BY LifeConvergesViews, ViewsTypeCorrect, PTL
<1>5. LifeSpec => []AccountsTypeOK
  BY LifeServesAgents, AccountsTypeCorrect, PTL
<1> QED BY KeptInit, KeptStep, <1>3, <1>4, <1>5, PTL DEF LifeSpec
-----------------------------------------------------------------------------
(* Teardown *)

\* The home space a scenario names, and the slugs it gives to deployments and
\* to all other spaces.
Home(s) == s.name \o "-platform"
DeploymentSlugs(s) == {Variant(c.name, k.name) : c \in ToSet(AllComponents(s)), k \in Clusters(s)}
OtherSlugs(s) ==
  Named(ClusterList(s)) \union {RootSpace(c.name) : c \in ToSet(AllComponents(s))}
    \union {Variant(c.name, k.class) : c \in ToSet(AllComponents(s)), k \in Clusters(s)}

\* No draft gives another space the slug of a home space; the code does not look.
HomesApart ==
  \A v, w \in Installables :
    Home(Drafts[v].scenario) \notin DeploymentSlugs(Drafts[w].scenario) \union OtherSlugs(Drafts[w].scenario)

LEMMA ExpandIs ==
  ASSUME NEW b
  PROVE  /\ Expand(b).home = Home(b.scenario)
         /\ Expand(b).clusters = Clusters(b.scenario)
         /\ \A m \in Expand(b).components : \E c \in ToSet(AllComponents(b.scenario)) : m = Component(b, c)
         /\ Expand(b).components = {Component(b, c) : c \in ToSet(AllComponents(b.scenario))}
<1> DEFINE s == b.scenario
           models == {Component(b, c) : c \in ToSet(AllComponents(s))}
           unreleased == Unreleased(s, UNION {{d.slug : d \in m.deployments} : m \in models})
           stories == [i \in DOMAIN s.changeOrders |->
                        [component |-> s.changeOrders[i].component, bases |-> StageBases(s, s.changeOrders[i])]]
           totals == Totals(Clusters(s), models, unreleased)
<1>1. Expand(b) = [home |-> Home(s), clusters |-> Clusters(s), components |-> models,
                   unreleased |-> unreleased, stories |-> stories, totals |-> totals]
  BY DEF Expand, Home
<1>2. \A m \in models : \E c \in ToSet(AllComponents(s)) : m = Component(b, c)
  OBVIOUS
<1> HIDE DEF unreleased, stories, totals
<1>3. Expand(b).components = models /\ Expand(b).home = Home(s) /\ Expand(b).clusters = Clusters(s)
  <2> HIDE DEF models
  <2> QED BY <1>1
<1> QED BY <1>2, <1>3

\* All spaces of a plan but its home have slugs of its scenario.
LEMMA PlanSlugs ==
  ASSUME NEW b, NEW C, C \subseteq Expand(b).components
  PROVE  /\ ClusterNames(Expand(b)) \subseteq OtherSlugs(b.scenario)
         /\ {c.root : c \in C} \subseteq OtherSlugs(b.scenario)
         /\ Slugs(BasesOf(C)) \subseteq OtherSlugs(b.scenario)
         /\ Slugs(DeploymentsOf(C)) \subseteq DeploymentSlugs(b.scenario)
<1> DEFINE s == b.scenario
<1>1. ASSUME NEW c \in ToSet(AllComponents(s))
      PROVE  /\ RootSpace(c.name) \in OtherSlugs(s)
             /\ \A k \in Clusters(s) : Variant(c.name, k.class) \in OtherSlugs(s)
             /\ \A k \in Clusters(s) : Variant(c.name, k.name) \in DeploymentSlugs(s)
  BY DEF OtherSlugs, DeploymentSlugs
<1>2. ClusterNames(Expand(b)) \subseteq OtherSlugs(s)
  <2>1. ClusterNames(Expand(b)) = {k.name : k \in Clusters(s)}
    BY ExpandIs DEF ClusterNames
  <2>2. {k.name : k \in Clusters(s)} = Named(ClusterList(s))
    BY DEF Clusters, ToSet, Named
  <2> QED BY <2>1, <2>2 DEF OtherSlugs
<1>3. ASSUME NEW m \in C
      PROVE  /\ m.root \in OtherSlugs(s)
             /\ \A d \in m.bases : d.slug \in OtherSlugs(s)
             /\ \A d \in m.deployments : d.slug \in DeploymentSlugs(s)
  <2>1. PICK c \in ToSet(AllComponents(s)) : m = Component(b, c)
    BY ExpandIs
  <2> DEFINE on == {k \in Clusters(s) : PlacedOn(c.placement, k)}
  <2>2. /\ m.root = RootSpace(c.name)
        /\ m.bases = {[slug |-> Variant(c.name, k.class), from |-> RootSpace(c.name)] : k \in on}
        /\ m.deployments = {[slug |-> Variant(c.name, k.name), from |-> Variant(c.name, k.class)] : k \in on}
    BY <2>1 DEF Component
  <2>3. on \subseteq Clusters(s)
    OBVIOUS
  <2> HIDE DEF on
  <2> QED BY <1>1, <2>2, <2>3
<1>4. Slugs(BasesOf(C)) \subseteq OtherSlugs(s)
  <2> SUFFICES ASSUME NEW d \in BasesOf(C) PROVE d.slug \in OtherSlugs(s)
    BY DEF Slugs
  <2>1. PICK c \in C : d \in c.bases
    BY DEF BasesOf
  <2> QED BY <1>3, <2>1
<1>5. Slugs(DeploymentsOf(C)) \subseteq DeploymentSlugs(s)
  <2> SUFFICES ASSUME NEW d \in DeploymentsOf(C) PROVE d.slug \in DeploymentSlugs(s)
    BY DEF Slugs
  <2>1. PICK c \in C : d \in c.deployments
    BY DEF DeploymentsOf
  <2> QED BY <1>3, <2>1
<1> QED BY <1>2, <1>3, <1>4, <1>5

\* What a verb loads has the scenario of a draft install accepted.
LEMMA LoadedIs ==
  ASSUME StoredOK, Defined
  PROVE  \E v \in Installables : Loaded.scenario = Drafts[v].scenario
<1> DEFINE path == <<"scenario">>
<1>1. path \in DOMAIN Files /\ Files[path] # Empty
  BY DEF Defined, Readable
<1>2. path \in DOMAIN stored
  BY <1>1 DEF Files
<1>3. Loaded.scenario = Files[path]
  BY DEF Loaded, FromFiles
<1>4. Files[path] = IF stored[path] = Empty THEN Empty ELSE Content(Drafts[stored[path]], path)
  BY <1>2 DEF Files
<1>5. \A v : Content(Drafts[v], path) = Drafts[v].scenario
  BY DEF Content
<1> HIDE DEF path
<1> QED BY <1>1, <1>2, <1>3, <1>4, <1>5 DEF StoredOK

\* The spaces a plan asks for besides its home and its deployments.
OthersOf(m) == ClusterNames(m) \union {c.root : c \in m.components} \union Slugs(BasesOf(m.components))

\* Making takes no space, changes the role of none, and adds the plan's only.
Added(space, m) ==
  /\ DOMAIN org.space \subseteq DOMAIN space /\ \A s \in DOMAIN org.space : space[s] = org.space[s]
  /\ \A s \in DOMAIN space \ DOMAIN org.space :
       \/ s = m.home /\ space[s] = "demo"
       \/ s \in Slugs(DeploymentsOf(m.components)) /\ space[s] = "deployment"
       \/ s \in OthersOf(m)

LEMMA EachMakes ==
  ASSUME OrgOK(org), NEW m, NEW left
  PROVE  /\ Added(MakeHome(m, left).space, m) /\ Added(MakeClusters(m, left).space, m)
         /\ Added(MakeBases(m, left).space, m) /\ Added(MakeDeployments(m, left).space, m)
         /\ Added(MakeReleases(m, left).space, m) /\ Added(MakeReports(m, left).space, m)
<1>1. Added(MakeHome(m, left).space, m)
  <2> DEFINE space == Ensured(org.space, {m.home} \ left, "demo")
  <2>1. MakeHome(m, left).space = space
    BY OrgWith DEF MakeHome
  <2>2. /\ DOMAIN space = DOMAIN org.space \union ({m.home} \ left)
        /\ \A s \in DOMAIN org.space : space[s] = org.space[s]
        /\ \A s \in ({m.home} \ left) \ DOMAIN org.space : space[s] = "demo"
    BY DEF Ensured, Over
  <2> HIDE DEF space
  <2>3. Added(space, m)
    BY <2>2 DEF Added
  <2> QED BY <2>1, <2>3
<1>2. Added(MakeClusters(m, left).space, m)
  <2> DEFINE space == Ensured(org.space, ClusterNames(m), "cluster")
             target == org.target \union (ClusterNames(m) \ left)
  <2>1. MakeClusters(m, left) = [org EXCEPT !.space = space, !.target = target]
    BY DEF MakeClusters
  <2>2. /\ DOMAIN space = DOMAIN org.space \union ClusterNames(m)
        /\ \A s \in DOMAIN org.space : space[s] = org.space[s]
    BY DEF Ensured, Over
  <2> HIDE DEF space, target
  <2>4. Added(space, m)
    BY <2>2 DEF Added, OthersOf
  <2>3. MakeClusters(m, left).space = space
    BY <2>1, OrgWith
  <2> QED BY <2>3, <2>4
<1>3. Added(MakeBases(m, left).space, m)
  <2> DEFINE done == {c \in Ready(m) : c.name \notin left}
             roots == {c.root : c \in Ready(m)}
             first == Ensured(org.space, roots, "root base")
             space == Ensured(first, Slugs(BasesOf(done)), "class base")
             unit == CloneAll(Over(Rendered(Ready(m)), org.unit), BasesOf(done))
             entity == org.entity \union {c.name : c \in Ready(m)}
  <2>1. MakeBases(m, left) = [org EXCEPT !.entity = entity, !.space = space, !.unit = unit]
    BY DEF MakeBases
  <2>2. /\ DOMAIN first = DOMAIN org.space \union roots
        /\ \A s \in DOMAIN org.space : first[s] = org.space[s]
    BY DEF Ensured, Over
  <2> HIDE DEF first
  <2>3. /\ DOMAIN space = DOMAIN first \union Slugs(BasesOf(done))
        /\ \A s \in DOMAIN first : space[s] = first[s]
    BY DEF Ensured, Over
  <2>4. roots \subseteq OthersOf(m) /\ Slugs(BasesOf(done)) \subseteq OthersOf(m)
    BY DEF OthersOf, Ready, Slugs, BasesOf
  <2> HIDE DEF space, unit, entity, roots, done
  <2>5. Added(space, m)
    BY <2>2, <2>3, <2>4 DEF Added
  <2>6. MakeBases(m, left).space = space
    BY <2>1, OrgWith
  <2> QED BY <2>5, <2>6
<1>4. Added(MakeDeployments(m, left).space, m)
  <2> DEFINE made == DeploymentsOf(Based(m))
             space == Ensured(org.space, Slugs(made), "deployment")
             unit == CloneAll(org.unit, {d \in made : d.from \notin left})
  <2>1. MakeDeployments(m, left) = [org EXCEPT !.space = space, !.unit = unit]
    BY DEF MakeDeployments
  <2>2. Slugs(made) \subseteq Slugs(DeploymentsOf(m.components))
    BY DEF Based, Ready, Slugs, DeploymentsOf
  <2> HIDE DEF made
  <2>3. /\ DOMAIN space = DOMAIN org.space \union Slugs(made)
        /\ \A s \in DOMAIN org.space : space[s] = org.space[s]
        /\ \A s \in Slugs(made) \ DOMAIN org.space : space[s] = "deployment"
    BY DEF Ensured, Over
  <2> HIDE DEF space, unit
  <2>4. Added(space, m)
    BY <2>2, <2>3 DEF Added
  <2>5. MakeDeployments(m, left).space = space
    BY <2>1, OrgWith
  <2> QED BY <2>4, <2>5
<1>5. Added(MakeReleases(m, left).space, m)
  <2> DEFINE now == Publishable(m) \ left
             releases == Over([s \in now |-> [count |-> Published(s) + 1, has |-> UnitsIn(s)]], org.releases)
             reported == org.reported \ now
  <2>1. MakeReleases(m, left) = [org EXCEPT !.releases = releases, !.reported = reported]
    BY DEF MakeReleases
  <2> HIDE DEF releases, reported
  <2>2. MakeReleases(m, left).space = org.space
    BY <2>1, OrgWith
  <2> QED BY <2>2 DEF Added
<1>6. Added(MakeReports(m, left).space, m)
  <2> DEFINE reported == org.reported \union (Painted(m) \ left)
  <2>1. MakeReports(m, left) = [org EXCEPT !.reported = reported]
    BY DEF MakeReports
  <2> HIDE DEF reported
  <2>2. MakeReports(m, left).space = org.space
    BY <2>1, OrgWith
  <2> QED BY <2>2 DEF Added
<1> QED BY <1>1, <1>2, <1>3, <1>4, <1>5, <1>6

LEMMA MadeSpaces ==
  ASSUME OrgOK(org), NEW m, NEW left, NEW phase \in ToSet(Phases) \ {"views", "stories"}
  PROVE  Added(Made(phase, m, left).space, m)
<1>1. phase \in {"home", "clusters", "bases", "deployments", "releases", "livestatus", "workflows"}
  BY DEF ToSet, Phases
<1>2. Added(org.space, m)
  BY DEF Added
<1> QED BY <1>1, <1>2, EachMakes DEF Made

\* The groups a teardown is past are gone.
Group(o, group) == IF group = "components" THEN o.entity ELSE {s \in DOMAIN o.space : o.space[s] = group}
TakenDown ==
  at # 0 /\ job.verb \in {"down", "uninstall"} => \A i \in 1 .. at - 1 : Group(org, Groups[i]) = {}
EndsDown ==
  /\ said \in {"down", "uninstall"} => org = NoOrg
  /\ said = "down" => Defined
  /\ said = "uninstall" => stored = <<>>

\* Views are of a home space.
HomesAre ==
  \A v \in Installables :
    Home(Drafts[v].scenario) \in DOMAIN org.space => org.space[Home(Drafts[v].scenario)] = "demo"
ViewsAtHome == Spaces("demo") = {} => view = Nothing /\ filter = Nothing

LEMMA GroupsAre ==
  /\ Groups[1] = "deployment" /\ Groups[2] = "class base" /\ Groups[3] = "root base"
  /\ Groups[4] = "components" /\ Groups[5] = "cluster" /\ Groups[6] = "demo"
  /\ \A i \in 1 .. 6 : i = 1 \/ i = 2 \/ i = 3 \/ i = 4 \/ i = 5 \/ i = 6
  /\ DOMAIN Groups = 1 .. 6
<1>1. \A i \in 1 .. 6 : i = 1 \/ i = 2 \/ i = 3 \/ i = 4 \/ i = 5 \/ i = 6
  OBVIOUS
<1> QED BY <1>1 DEF Groups

\* A verb goes on, ends, or is where it was.
Proceeds == Goes \/ Ends("none") \/ UNCHANGED <<job, at, said>>

LEMMA OutcomeProceeds == ASSUME NEW failed, Outcome(failed) PROVE Proceeds
BY DEF Outcome, Proceeds

\* Of a verb that is no teardown nothing is said of one.
LEMMA NoTeardown ==
  ASSUME at # 0, said = "none", JobOK, job.verb \notin {"down", "uninstall"},
         Proceeds
  PROVE  (at' # 0 => job' = job) /\ said' \notin {"down", "uninstall"}
<1>1. job.says \in {"none", "install", "up"}
  BY DEF JobOK
<1> QED BY <1>1 DEF Proceeds, Goes, Ends

\* A teardown's steps are its groups.
LEMMA DownSteps ==
  ASSUME at # 0, JobOK, job.verb \in {"down", "uninstall"}
  PROVE  /\ job.steps = Groups /\ job.says = job.verb /\ at \in 1 .. 6
         /\ ~Doing(ToSet(Phases)) /\ ~Doing({"agents"})
<1>1. job.steps = Groups /\ job.says = job.verb /\ at \in 1 .. 6
  BY StepsLen DEF JobOK
<1>2. ~Doing(ToSet(Phases))
  <2>1. job.verb \notin {"up", "reset"}
    OBVIOUS
  <2> QED BY <2>1, StepsOf
<1>3. ~Doing({"agents"})
  <2>1. \A i \in 1 .. 6 : Groups[i] # "agents"
    <3>1. /\ Groups[1] # "agents" /\ Groups[2] # "agents" /\ Groups[3] # "agents"
          /\ Groups[4] # "agents" /\ Groups[5] # "agents" /\ Groups[6] # "agents"
      BY DEF Groups
    <3>2. \A i \in 1 .. 6 : i = 1 \/ i = 2 \/ i = 3 \/ i = 4 \/ i = 5 \/ i = 6
      OBVIOUS
    <3> QED BY <3>1, <3>2
  <2> QED BY <1>1, <2>1 DEF Doing
<1> QED BY <1>1, <1>2, <1>3

LEMMA NothingLeft ==
  ASSUME NEW o, OrgOK(o), \A i \in 1 .. 6 : Group(o, Groups[i]) = {}
  PROVE  o = NoOrg
<1>1. /\ Group(o, "deployment") = {} /\ Group(o, "class base") = {}
      /\ Group(o, "root base") = {} /\ Group(o, "components") = {}
      /\ Group(o, "cluster") = {} /\ Group(o, "demo") = {}
  <2>1. /\ Group(o, Groups[1]) = {} /\ Group(o, Groups[2]) = {}
        /\ Group(o, Groups[3]) = {} /\ Group(o, Groups[4]) = {}
        /\ Group(o, Groups[5]) = {} /\ Group(o, Groups[6]) = {}
    OBVIOUS
  <2> QED BY <2>1, GroupsAre
<1>2. o.entity = {} /\ \A role \in Roles : {s \in DOMAIN o.space : o.space[s] = role} = {}
  BY <1>1 DEF Group, Roles
<1>3. DOMAIN o.space = {}
  <2> SUFFICES ASSUME NEW s \in DOMAIN o.space PROVE FALSE
    OBVIOUS
  <2>1. o.space[s] \in Roles
    BY DEF OrgOK, Standing
  <2> QED BY <1>2, <2>1
<1>4. /\ o.space = [s \in DOMAIN o.space |-> o.space[s]] /\ o.unit = [u \in DOMAIN o.unit |-> o.unit[u]]
      /\ o.releases = [s \in DOMAIN o.releases |-> o.releases[s]]
      /\ DOMAIN o.unit = {} /\ DOMAIN o.releases = {} /\ o.target = {} /\ o.reported = {}
  BY <1>3 DEF OrgOK, Standing
<1>5. o.space = <<>> /\ o.unit = <<>> /\ o.releases = <<>>
  BY <1>3, <1>4
<1> QED BY <1>2, <1>4, <1>5 DEF OrgOK, NoOrg

\* A group taken whole is gone, and none that was gone comes back.
LEMMA GroupGone ==
  ASSUME OrgOK(org), NEW group, NEW S, org' = Removed(group, S)
  PROVE  /\ \A other : Group(org, other) = {} => Group(org', other) = {}
         /\ S = Group(org, group) => Group(org', group) = {}
<1>1. CASE group = "components"
  <2>1. org'.entity = org.entity \ S /\ org'.space = org.space
    BY <1>1 DEF Removed, OrgOK
  <2> QED BY <1>1, <2>1 DEF Group
<1>2. CASE group # "components"
  <2>1. org'.entity = org.entity /\ org'.space = Without(org.space, S)
    <3> DEFINE unit == Without(org.unit, {u \in DOMAIN org.unit : u[1] \in S})
               space == Without(org.space, S)
               releases == Without(org.releases, S)
    <3>1. org' = [space |-> space, unit |-> unit, target |-> org.target \ S, entity |-> org.entity,
                  releases |-> releases, reported |-> org.reported \ S]
      BY <1>2, RemovedIs
    <3> HIDE DEF space, unit, releases
    <3>2. org'.entity = org.entity /\ org'.space = space
      BY <3>1
    <3> QED BY <3>2 DEF space
  <2>2. /\ DOMAIN org'.space = DOMAIN org.space \ S
        /\ \A s \in DOMAIN org.space \ S : org'.space[s] = org.space[s]
    BY <2>1 DEF Without
  <2>3. \A role : {s \in DOMAIN org'.space : org'.space[s] = role} = {s \in DOMAIN org.space : org.space[s] = role} \ S
    BY <2>2
  <2> QED BY <1>2, <2>1, <2>3 DEF Group
<1> QED BY <1>1, <1>2

\* What a teardown was through with, it is through with.
LEMMA DownKept == ASSUME LifeKept, TakenDown, TearDown PROVE TakenDown' /\ EndsDown'
<1> DEFINE group == job.steps[at]
           defined == IF group = "demo" /\ job.verb = "uninstall" THEN {"definition"} ELSE {}
<1>1. PICK left \in OneOf(Batch(group, job.model) \union defined) :
        /\ org' = Removed(group, Batch(group, job.model) \ left)
        /\ stored' = IF defined \ left # {} THEN <<>> ELSE stored
        /\ Outcome(left # {})
  BY DEF TearDown
<1>2. at # 0 /\ said = "none" /\ JobOK /\ OrgOK(org)
  BY DEF TearDown, Doing, LifeKept
<1>3. CASE job.verb \notin {"down", "uninstall"}
  <2>1. (at' # 0 => job' = job) /\ said' \notin {"down", "uninstall"}
    BY <1>1, <1>2, <1>3, NoTeardown, OutcomeProceeds
  <2> QED BY <1>3, <2>1 DEF TakenDown, EndsDown
<1>4. CASE job.verb \in {"down", "uninstall"} /\ left # {}
  BY <1>1, <1>4 DEF Outcome, Ends, TakenDown, EndsDown
<1>5. CASE job.verb \in {"down", "uninstall"} /\ left = {}
  <2>1. job.steps = Groups /\ job.says = job.verb /\ at \in 1 .. 6 /\ Len(job.steps) = 6
    BY <1>2, <1>5, DownSteps, StepsLen
  <2>2. org' = Removed(Groups[at], Group(org, Groups[at]))
    BY <1>1, <1>5, <2>1 DEF Batch, Group, Spaces
  <2>3. /\ \A other : Group(org, other) = {} => Group(org', other) = {}
        /\ Group(org', Groups[at]) = {}
    <3> HIDE DEF group
    <3> QED BY <1>2, <2>2, GroupGone
  <2>4. \A i \in 1 .. at : Group(org', Groups[i]) = {}
    <3>1. ASSUME NEW i \in 1 .. at, i # at PROVE Group(org', Groups[i]) = {}
      <4>1. i \in 1 .. at - 1
        BY <2>1, <3>1
      <4>2. Group(org, Groups[i]) = {}
        BY <1>2, <1>5, <4>1 DEF TakenDown
      <4> QED BY <2>3, <4>2
    <3> QED BY <2>3, <3>1
  <2>5. Goes
    BY <1>1, <1>5 DEF Outcome
  <2>6. CASE at # 6
    <3>1. at' = at + 1 /\ said' = "none" /\ job' = job
      BY <1>2, <2>1, <2>5, <2>6 DEF Goes
    <3>2. 1 .. at' - 1 = 1 .. at
      BY <2>1, <3>1
    <3>3. TakenDown'
      BY <2>4, <3>2 DEF TakenDown
    <3>4. EndsDown'
      BY <3>1 DEF EndsDown
    <3> QED BY <3>3, <3>4
  <2>7. CASE at = 6
    <3>1. at' = 0 /\ said' = job.verb
      BY <2>1, <2>5, <2>7 DEF Goes, Ends
    <3>2. OrgOK(org')
      BY <1>2, <2>2, RemovedOK
    <3>3. org' = NoOrg
      BY <2>4, <2>7, <3>2, NothingLeft
    <3>4. CASE job.verb = "down"
      <4>1. defined = {}
        BY <3>4
      <4>2. UNCHANGED stored
        BY <1>1, <4>1
      <4>3. Defined'
        BY <1>2, <1>5, <3>4, <4>2, ReadSame DEF JobOK
      <4> QED BY <3>1, <3>3, <3>4, <4>3 DEF TakenDown, EndsDown
    <3>5. CASE job.verb = "uninstall"
      <4>1. defined = {"definition"}
        BY <2>1, <2>7, <3>5, GroupsAre
      <4>2. stored' = <<>>
        BY <1>1, <1>5, <4>1
      <4> QED BY <3>1, <3>3, <3>5, <4>2 DEF TakenDown, EndsDown
    <3> QED BY <1>5, <3>4, <3>5
  <2> QED BY <2>6, <2>7
<1> QED BY <1>3, <1>4, <1>5

\* No other step brings back a group or says that one is gone.
LEMMA TakenStep ==
  ASSUME LifeKept, TakenDown, EndsDown, [LifeNext]_vars
  PROVE  TakenDown' /\ EndsDown'
<1>1. ASSUME at' = 1, said' = "none" PROVE TakenDown' /\ EndsDown'
  BY <1>1 DEF TakenDown, EndsDown
<1>2. ASSUME at' = 0, said' \notin {"down", "uninstall"} PROVE TakenDown' /\ EndsDown'
  BY <1>2 DEF TakenDown, EndsDown
<1>3. ASSUME at # 0, job.verb \notin {"down", "uninstall"}, Proceeds
      PROVE  TakenDown' /\ EndsDown'
  <2>1. (at' # 0 => job' = job) /\ said' \notin {"down", "uninstall"}
    BY <1>3, NoTeardown DEF LifeKept
  <2> QED BY <1>3, <2>1 DEF TakenDown, EndsDown
<1>4. CASE \E v \in Draft : Install(v)
  BY <1>1, <1>4 DEF Install, Start
<1>5. CASE at = 0 /\ Defined /\ LET model == Expand(Loaded) IN
             RunUp(model) \/ RunDown(model) \/ RunReset(model) \/ RunAgents
  <2>1. CASE RunUp(Expand(Loaded))
    BY <1>1, <2>1 DEF RunUp, Start
  <2>2. CASE RunDown(Expand(Loaded))
    BY <1>1, <2>2 DEF RunDown, Start
  <2>3. CASE RunReset(Expand(Loaded))
    BY <1>1, <2>3 DEF RunReset, Start
  <2>4. CASE RunAgents
    BY <1>1, <2>4 DEF RunAgents, Start
  <2> QED BY <1>5, <2>1, <2>2, <2>3, <2>4
<1>6. CASE Store
  <2>1. at # 0 /\ job.verb = "install" /\ Proceeds
    BY <1>6, OutcomeProceeds DEF Store
  <2> QED BY <1>3, <2>1
<1>7. CASE Make
  <2>1. at # 0 /\ Doing(ToSet(Phases)) /\ Proceeds
    BY <1>7, OutcomeProceeds DEF Make, Doing
  <2>2. job.verb \notin {"down", "uninstall"}
    BY <2>1, DownSteps DEF LifeKept
  <2> QED BY <1>3, <2>1, <2>2
<1>8. CASE Refuse
  BY <1>2, <1>8 DEF Refuse, Ends
<1>9. CASE ConvergeViews
  <2>1. "views" \in ToSet(Phases)
    BY DEF ToSet, Phases
  <2>2. at # 0 /\ Doing(ToSet(Phases)) /\ Proceeds
    BY <1>9, <2>1, OutcomeProceeds DEF ConvergeViews, Doing, Proceeds
  <2>3. job.verb \notin {"down", "uninstall"}
    BY <2>2, DownSteps DEF LifeKept
  <2> QED BY <1>3, <2>2, <2>3
<1>10. CASE ServeAgents
  <2>1. at # 0 /\ Doing({"agents"}) /\ Proceeds
    BY <1>10, OutcomeProceeds DEF ServeAgents, Doing, Proceeds
  <2>2. job.verb \notin {"down", "uninstall"}
    BY <2>1, DownSteps DEF LifeKept
  <2> QED BY <1>3, <2>1, <2>2
<1>11. CASE Crash
  BY <1>2, <1>11 DEF Crash, Outcome, Ends
<1>12. CASE UNCHANGED vars
  <2>1. UNCHANGED <<stored, org, job, at, said>>
    BY <1>12 DEF vars, lifeVars
  <2>2. Defined' <=> Defined
    BY <2>1, ReadSame
  <2> QED BY <2>1, <2>2 DEF TakenDown, EndsDown, Group
<1>13. CASE WalkStories
  <2>1. at # 0 /\ Doing(ToSet(Phases)) /\ Proceeds
    BY <1>13, WalkDoing DEF WalkStories, Proceeds
  <2>2. job.verb \notin {"down", "uninstall"}
    BY <2>1, DownSteps DEF LifeKept
  <2> QED BY <1>3, <2>1, <2>2
<1> QED BY <1>4, <1>5, <1>6, <1>7, <1>8, <1>9, <1>10, <1>11, <1>12, <1>13, DownKept DEF LifeNext

\* Where the org has no home space it has no views.
LEMMA ViewsStay ==
  ASSUME HomesAre, ViewsAtHome, UNCHANGED <<org, view, filter>>
  PROVE  HomesAre' /\ ViewsAtHome'
BY DEF HomesAre, ViewsAtHome, Spaces

LEMMA HomeOfPlan ==
  ASSUME LifeKept, at # 0, job.verb \in {"up", "reset"}
  PROVE  \E v \in Installables : /\ job.model.home = Home(Drafts[v].scenario)
                                 /\ OthersOf(job.model) \subseteq OtherSlugs(Drafts[v].scenario)
                                 /\ Slugs(DeploymentsOf(job.model.components)) \subseteq DeploymentSlugs(Drafts[v].scenario)
<1>1. Defined /\ job.model = Expand(Loaded) /\ StoredOK
  BY DEF LifeKept, JobOK
<1>2. PICK v \in Installables : Loaded.scenario = Drafts[v].scenario
  BY <1>1, LoadedIs
<1>3. job.model.home = Home(Drafts[v].scenario)
  BY <1>1, <1>2, ExpandIs
<1>4. /\ OthersOf(Expand(Loaded)) \subseteq OtherSlugs(Loaded.scenario)
      /\ Slugs(DeploymentsOf(Expand(Loaded).components)) \subseteq DeploymentSlugs(Loaded.scenario)
  BY PlanSlugs DEF OthersOf
<1> QED BY <1>1, <1>2, <1>3, <1>4

LEMMA HomesMade ==
  ASSUME HomesApart, LifeKept, HomesAre, ViewsAtHome, Make
  PROVE  HomesAre' /\ ViewsAtHome'
<1>1. PICK left : org' = Made(job.steps[at], job.model, left)
  BY DEF Make
<1>2. at # 0 /\ job.steps[at] \in ToSet(Phases) \ {"views", "stories"} /\ OrgOK(org) /\ UNCHANGED <<view, filter>>
  BY DEF Make, Doing, LifeKept, viewVars
<1>3. job.verb \in {"up", "reset"}
  BY <1>2, StepsOf DEF Doing, LifeKept
<1>4. PICK w \in Installables : /\ job.model.home = Home(Drafts[w].scenario)
                                /\ OthersOf(job.model) \subseteq OtherSlugs(Drafts[w].scenario)
                                /\ Slugs(DeploymentsOf(job.model.components)) \subseteq DeploymentSlugs(Drafts[w].scenario)
  BY <1>2, <1>3, HomeOfPlan
<1>5. Added(org'.space, job.model)
  BY <1>1, <1>2, MadeSpaces
<1>6. ASSUME NEW v \in Installables, Home(Drafts[v].scenario) \in DOMAIN org'.space
      PROVE  org'.space[Home(Drafts[v].scenario)] = "demo"
  <2>1. Home(Drafts[v].scenario) \notin OthersOf(job.model) \union Slugs(DeploymentsOf(job.model.components))
    BY <1>4 DEF HomesApart
  <2> QED BY <1>5, <1>6, <2>1 DEF Added, HomesAre
<1>7. ViewsAtHome'
  <2>1. \A s \in Spaces("demo") : s \in Spaces("demo")'
    BY <1>5 DEF Added, Spaces
  <2> QED BY <1>2, <2>1 DEF ViewsAtHome
<1> QED BY <1>6, <1>7 DEF HomesAre

LEMMA ViewsMade ==
  ASSUME LifeKept, HomesAre, ViewsAtHome, ConvergeViews
  PROVE  HomesAre' /\ ViewsAtHome'
<1>1. at # 0 /\ Doing({"views"}) /\ job.model.home \in DOMAIN org.space /\ UNCHANGED org
  BY DEF ConvergeViews, Doing, MayRun
<1>2. "views" \in ToSet(Phases)
  BY DEF ToSet, Phases
<1>3. job.verb \in {"up", "reset"}
  BY <1>1, <1>2, StepsOf DEF Doing, LifeKept
<1>4. job.model.home \in Spaces("demo")
  BY <1>1, <1>3, HomeOfPlan DEF HomesAre, Spaces
<1> QED BY <1>1, <1>4 DEF HomesAre, ViewsAtHome, Spaces

LEMMA HomesTaken ==
  ASSUME LifeKept, HomesAre, ViewsAtHome, TearDown
  PROVE  HomesAre' /\ ViewsAtHome'
<1> DEFINE group == job.steps[at]
           defined == IF group = "demo" /\ job.verb = "uninstall" THEN {"definition"} ELSE {}
<1>1. PICK left \in OneOf(Batch(group, job.model) \union defined) :
        /\ org' = Removed(group, Batch(group, job.model) \ left)
        /\ IF group = "demo" /\ Batch(group, job.model) \ left # {} THEN HomeGone ELSE UNCHANGED viewVars
  BY DEF TearDown
<1> DEFINE gone == Batch(group, job.model) \ left
<1>2. OrgOK(org)
  BY DEF LifeKept
<1>3. CASE group = "components"
  <2>1. org'.space = org.space
    BY <1>1, <1>2, <1>3 DEF Removed, OrgOK
  <2>2. UNCHANGED <<view, filter>>
    BY <1>1, <1>3 DEF viewVars
  <2> QED BY <2>1, <2>2 DEF HomesAre, ViewsAtHome, Spaces
<1>4. CASE group # "components"
  <2>1. /\ DOMAIN org'.space = DOMAIN org.space \ gone
        /\ \A s \in DOMAIN org.space \ gone : org'.space[s] = org.space[s]
    <3>1. org'.space = Without(org.space, gone)
      <4> HIDE DEF group, gone
      <4>1. org' = Removed(group, gone)
        BY <1>1 DEF gone
      <4> DEFINE unit == Without(org.unit, {u \in DOMAIN org.unit : u[1] \in gone})
                 space == Without(org.space, gone)
                 releases == Without(org.releases, gone)
      <4>2. org' = [space |-> space, unit |-> unit, target |-> org.target \ gone, entity |-> org.entity,
                    releases |-> releases, reported |-> org.reported \ gone]
        BY <1>2, <1>4, <4>1, RemovedIs
      <4> HIDE DEF space, unit, releases
      <4>3. org'.space = space
        BY <4>2
      <4> QED BY <4>3 DEF space
    <3> QED BY <3>1 DEF Without
  <2>2. HomesAre'
    BY <2>1 DEF HomesAre
  <2>3. CASE group = "demo" /\ gone # {}
    BY <1>1, <2>2, <2>3 DEF HomeGone, ViewsAtHome, Nothing
  <2>4. CASE group = "demo" /\ gone = {}
    BY <1>1, <2>1, <2>2, <2>4 DEF ViewsAtHome, Spaces, viewVars
  <2>5. CASE group # "demo"
    <3>1. \A s \in gone : org.space[s] # "demo"
      BY <1>4, <2>5 DEF Batch, Spaces
    <3>2. \A s \in Spaces("demo") : s \in Spaces("demo")'
      BY <2>1, <3>1 DEF Spaces
    <3>3. UNCHANGED <<view, filter>>
      BY <1>1, <2>5 DEF viewVars
    <3> QED BY <2>2, <3>2, <3>3 DEF ViewsAtHome
  <2> QED BY <2>3, <2>4, <2>5
<1> QED BY <1>3, <1>4

LEMMA HomesStep ==
  ASSUME HomesApart, LifeKept, HomesAre, ViewsAtHome, [LifeNext]_vars
  PROVE  HomesAre' /\ ViewsAtHome'
<1>1. CASE \E v \in Draft : Install(v)
  BY <1>1, ViewsStay DEF Install, Start, viewVars
<1>2. CASE at = 0 /\ Defined /\ LET model == Expand(Loaded) IN
             RunUp(model) \/ RunDown(model) \/ RunReset(model) \/ RunAgents
  <2>1. CASE RunUp(Expand(Loaded))
    BY <2>1, ViewsStay DEF RunUp, Start, viewVars
  <2>2. CASE RunDown(Expand(Loaded))
    BY <2>2, ViewsStay DEF RunDown, Start, viewVars
  <2>3. CASE RunReset(Expand(Loaded))
    BY <2>3, ViewsStay DEF RunReset, Start, viewVars
  <2>4. CASE RunAgents
    BY <2>4, ViewsStay DEF RunAgents, Start, viewVars
  <2> QED BY <1>2, <2>1, <2>2, <2>3, <2>4
<1>3. CASE Store \/ Refuse \/ ServeAgents \/ Crash \/ UNCHANGED vars
  <2>1. UNCHANGED <<org, view, filter>>
    BY <1>3 DEF Store, Refuse, ServeAgents, Crash, ViewsStop, vars, lifeVars, viewVars
  <2> QED BY <2>1, ViewsStay
<1>4. CASE WalkStories
  <2>1. org'.space = org.space
    BY <1>4, WalkIs DEF Walk, LifeKept
  <2>2. UNCHANGED <<view, filter>>
    BY <1>4 DEF WalkStories, viewVars
  <2> QED BY <2>1, <2>2 DEF HomesAre, ViewsAtHome, Spaces
<1> QED BY <1>1, <1>2, <1>3, <1>4, HomesMade, ViewsMade, HomesTaken DEF LifeNext

\* "Only entities carrying the label are touched" and "nothing of the demo
\* remains in the org" (cmd/down.go, cmd/uninstall.go): however the org was
\* grown, by whichever definitions, and wherever verbs were cut short, a
\* teardown that got through has taken all there was, and uninstall the
\* definition with it.
THEOREM DownEmptiesTheOrg ==
  LifeSpec => [](/\ said \in {"down", "uninstall"} => org = NoOrg
                 /\ said = "down" => Defined
                 /\ said = "uninstall" => stored = <<>>)
<1>1. LifeInit => TakenDown /\ EndsDown
  BY DEF LifeInit, TakenDown, EndsDown
<1> QED BY <1>1, KeptInit, KeptStep, TakenStep, PTL DEF LifeSpec, EndsDown

\* The same with the home space's views, where no draft gives another space
\* the slug of a home space.
THEOREM DownTakesEverything == ASSUME HomesApart PROVE LifeSpec => []DownTakesAll
<1>1. LifeInit => TakenDown /\ EndsDown /\ HomesAre /\ ViewsAtHome
  BY DEF LifeInit, TakenDown, EndsDown, HomesAre, ViewsAtHome, NoOrg, ViewsInit
<1>2. LifeKept /\ HomesAre /\ ViewsAtHome /\ [LifeNext]_vars => HomesAre' /\ ViewsAtHome'
  BY HomesStep
<1>3. EndsDown /\ ViewsAtHome => DownTakesAll
  BY DEF EndsDown, ViewsAtHome, DownTakesAll, Spaces, NoOrg
<1> QED BY <1>1, <1>2, <1>3, KeptInit, KeptStep, TakenStep, PTL DEF LifeSpec

-----------------------------------------------------------------------------
(* Install *)

\* The files of a bundle are stored as they are.
HasAll(v) ==
  \A p \in Paths(Drafts[v]) : p \in DOMAIN stored /\ Files[p] = Content(Drafts[v], p)
EndsWhole == said = "install" => installed \in Installables /\ HasAll(installed)

\* A path to one of a component's files.
ScenarioPath == <<"scenario">>
SpecPath(d) == <<d, "component">>
FilePath(d, file) == <<d, file>>
ExternalPath(kind) == <<"external", kind>>

LEMMA PathsAre ==
  /\ \A d : SpecPath(d) # ScenarioPath /\ SpecPath(d)[1] = d /\ SpecPath(d)[2] = "component"
  /\ \A d, f : FilePath(d, f) # ScenarioPath /\ FilePath(d, f)[1] = d /\ FilePath(d, f)[2] = f
  /\ \A k : ExternalPath(k) # ScenarioPath /\ ExternalPath(k)[2] = k
BY DEF ScenarioPath, SpecPath, FilePath, ExternalPath

LEMMA PathsOf ==
  ASSUME NEW b
  PROVE  /\ ScenarioPath \in Paths(b)
         /\ \A c \in ToSet(AllComponents(b.scenario)) :
              /\ SpecPath(c.dir) \in Paths(b)
              /\ \A u \in ToSet(b.specs[c.dir].units) : FilePath(c.dir, u.file) \in Paths(b)
              /\ \A e \in ToSet(c.external) : ExternalPath(e.kind) \in Paths(b)
<1> DEFINE of(c) == {<<c.dir, "component">>} \union {<<c.dir, u.file>> : u \in ToSet(b.specs[c.dir].units)}
                      \union {<<"external", e.kind>> : e \in ToSet(c.external)}
<1>1. Paths(b) = {<<"scenario">>} \union UNION {of(c) : c \in ToSet(AllComponents(b.scenario))}
  BY DEF Paths
<1>2. ASSUME NEW c \in ToSet(AllComponents(b.scenario))
      PROVE  /\ SpecPath(c.dir) \in of(c)
             /\ \A u \in ToSet(b.specs[c.dir].units) : FilePath(c.dir, u.file) \in of(c)
             /\ \A e \in ToSet(c.external) : ExternalPath(e.kind) \in of(c)
  BY DEF SpecPath, FilePath, ExternalPath
<1>3. ScenarioPath \in Paths(b)
  BY <1>1 DEF ScenarioPath
<1>4. \A c \in ToSet(AllComponents(b.scenario)) : of(c) \subseteq Paths(b)
  BY <1>1
<1> HIDE DEF of
<1> QED BY <1>2, <1>3, <1>4

LEMMA ContentOf ==
  ASSUME NEW b
  PROVE  /\ Content(b, ScenarioPath) = b.scenario
         /\ \A d : Content(b, SpecPath(d)) = b.specs[d]
<1>1. Content(b, ScenarioPath) = b.scenario
  BY DEF Content, ScenarioPath
<1>2. ASSUME NEW d PROVE Content(b, SpecPath(d)) = b.specs[d]
  BY DEF Content, SpecPath
<1> QED BY <1>1, <1>2

\* What LoadFromFiles makes of the files.
LEMMA ReadIs ==
  ASSUME NEW files
  PROVE  /\ FromFiles(files).scenario = files[ScenarioPath]
         /\ \A d : SpecPath(d) \in DOMAIN files /\ files[SpecPath(d)] # Empty =>
              d \in DOMAIN FromFiles(files).specs /\ FromFiles(files).specs[d] = files[SpecPath(d)]
         /\ \A p : p \in DOMAIN FromFiles(files).files <=>
                     p \in DOMAIN files /\ p # ScenarioPath /\ p[2] # "component"
<1> DEFINE specs == {p \in DOMAIN files : p # ScenarioPath /\ p[2] = "component" /\ files[p] # Empty}
           dirs == {p[1] : p \in specs}
           parsed == [d \in dirs |-> files[SpecPath(d)]]
           plain == {q \in DOMAIN files : q # ScenarioPath /\ q[2] # "component"}
           rest == [p \in plain |-> files[p]]
<1>1. FromFiles(files) = [scenario |-> files[ScenarioPath], specs |-> parsed, files |-> rest]
  BY DEF FromFiles, ScenarioPath, SpecPath
<1>2. ASSUME NEW d, SpecPath(d) \in DOMAIN files, files[SpecPath(d)] # Empty
      PROVE  d \in DOMAIN parsed /\ parsed[d] = files[SpecPath(d)]
  <2>1. SpecPath(d) \in specs
    BY <1>2, PathsAre
  <2>2. d \in dirs
    BY <2>1, PathsAre
  <2> QED BY <2>2
<1>3. DOMAIN rest = plain
  OBVIOUS
<1>4. FromFiles(files).specs = parsed /\ FromFiles(files).files = rest /\ FromFiles(files).scenario = files[ScenarioPath]
  <2> HIDE DEF parsed, rest
  <2> QED BY <1>1
<1> HIDE DEF parsed, rest
<1> QED BY <1>2, <1>3, <1>4

\* What install accepts is there when it is loaded back: nothing in it is empty,
\* and every manifest was stored.
LEMMA ReadBack ==
  ASSUME NEW v \in Installables, HasAll(v)
  PROVE  /\ Loaded.scenario = Drafts[v].scenario
         /\ \A c \in ToSet(AllComponents(Drafts[v].scenario)) :
              /\ c.dir \in DOMAIN Loaded.specs /\ Loaded.specs[c.dir] = Drafts[v].specs[c.dir]
              /\ \A u \in ToSet(Drafts[v].specs[c.dir].units) :
                   /\ FilePath(c.dir, u.file) \in DOMAIN Loaded.files
                   /\ FilePath(c.dir, u.file) \in DOMAIN Drafts[v].files
              /\ \A e \in ToSet(c.external) :
                   e.kind # "component" => ExternalPath(e.kind) \in DOMAIN Loaded.files
<1> DEFINE b == Drafts[v]
<1>1. v \in Draft /\ Storable(b) /\ Accepted(b)
  BY DEF Installables, Installable
<1>2. \A p \in Paths(b) : p \in DOMAIN Files /\ Files[p] = Content(b, p)
  BY DEF HasAll, Files
<1>3. Loaded.scenario = b.scenario
  BY <1>2, PathsOf, ContentOf, ReadIs DEF Loaded
<1>4. ASSUME NEW c \in ToSet(AllComponents(b.scenario))
      PROVE  c.dir \in DOMAIN b.specs
  BY <1>1 DEF Accepted
<1>5. ASSUME NEW c \in ToSet(AllComponents(b.scenario))
      PROVE  c.dir \in DOMAIN Loaded.specs /\ Loaded.specs[c.dir] = b.specs[c.dir]
  <2>1. SpecPath(c.dir) \in DOMAIN Files /\ Files[SpecPath(c.dir)] = b.specs[c.dir]
    BY <1>2, PathsOf, ContentOf
  <2>2. b.specs[c.dir] # Empty
    BY <1>1, <1>4, FilesAssumption DEF Draft, Range
  <2> QED BY <2>1, <2>2, ReadIs DEF Loaded
<1>6. ASSUME NEW c \in ToSet(AllComponents(b.scenario)), NEW u \in ToSet(b.specs[c.dir].units)
      PROVE  FilePath(c.dir, u.file) \in DOMAIN Loaded.files /\ FilePath(c.dir, u.file) \in DOMAIN b.files
  <2>1. u.file # "component"
    BY <1>1, <1>4, FilesAssumption DEF Draft
  <2>2. FilePath(c.dir, u.file) \in Paths(b)
    BY PathsOf
  <2>3. FilePath(c.dir, u.file) \in DOMAIN Loaded.files
    <3> DEFINE p == FilePath(c.dir, u.file)
    <3>1. p \in DOMAIN Files /\ p # ScenarioPath /\ p[2] = u.file
      BY <1>2, <2>2, PathsAre
    <3> HIDE DEF p
    <3>2. p \in DOMAIN FromFiles(Files).files
      BY <2>1, <3>1, ReadIs
    <3> QED BY <3>2 DEF p, Loaded
  <2>4. FilePath(c.dir, u.file) \in DOMAIN b.files \union {ScenarioPath} \union {SpecPath(d) : d \in DOMAIN b.specs}
    BY <1>1, <2>2 DEF Storable, ScenarioPath, SpecPath
  <2> QED BY <2>1, <2>3, <2>4, PathsAre
<1>7. ASSUME NEW c \in ToSet(AllComponents(b.scenario)), NEW e \in ToSet(c.external), e.kind # "component"
      PROVE  ExternalPath(e.kind) \in DOMAIN Loaded.files
  <2> DEFINE p == ExternalPath(e.kind)
  <2>1. p \in Paths(b)
    BY PathsOf
  <2>2. p \in DOMAIN Files /\ p # ScenarioPath /\ p[2] = e.kind
    BY <1>2, <2>1, PathsAre
  <2> HIDE DEF p
  <2>3. p \in DOMAIN FromFiles(Files).files
    BY <1>7, <2>2, ReadIs
  <2> QED BY <2>3 DEF p, Loaded
<1> QED BY <1>3, <1>5, <1>6, <1>7

\* So it is accepted again, and expands to the same plan.
LEMMA LoadedBack ==
  ASSUME NEW v \in Installables, HasAll(v)
  PROVE  Defined /\ Expand(Loaded) = Plans[v]
<1> DEFINE b == Drafts[v]
           s == b.scenario
<1>1. v \in Draft /\ Accepted(b) /\ Expandable(s)
  BY DEF Installables, Installable
<1>2. Loaded.scenario = s
  BY ReadBack
<1>3. stored # <<>> /\ ScenarioPath \in DOMAIN Files /\ Files[ScenarioPath] # Empty
  <2>1. ScenarioPath \in DOMAIN stored /\ Files[ScenarioPath] = s
    BY PathsOf, ContentOf DEF HasAll
  <2>2. s # Empty
    BY <1>1, FilesAssumption DEF Draft
  <2> QED BY <2>1, <2>2 DEF Files
<1>4. Accepted(Loaded)
  <2>1. /\ AgentsAccepted(s) /\ DimensionsAccepted(s) /\ ComponentsAccepted(s) /\ StoryAccepted(s)
        /\ \A c \in ToSet(AllComponents(s)) : UnitsAccepted(b.specs[c.dir], c)
    BY <1>1 DEF Accepted
  <2>2. ASSUME NEW c \in ToSet(AllComponents(s)), NEW e \in ToSet(c.external)
        PROVE  <<"external", e.kind>> \in DOMAIN Loaded.files
    <3>1. e.kind \in {"rds", "bucket", "queue", "cache"}
      BY <2>1 DEF ComponentsAccepted
    <3>2. e.kind # "component"
      BY <3>1
    <3> QED BY <3>2, ReadBack DEF ExternalPath
  <2>3. \A c \in ToSet(AllComponents(s)) : c.dir \in DOMAIN Loaded.specs /\ Loaded.specs[c.dir] = b.specs[c.dir]
    BY ReadBack
  <2> QED BY <1>2, <2>1, <2>2, <2>3 DEF Accepted
<1>5. Defined
  BY <1>1, <1>2, <1>3, <1>4, Zenon DEF Defined, Readable, Loaded, ScenarioPath
<1>6. ASSUME NEW c \in ToSet(AllComponents(s)) PROVE Component(Loaded, c) = Component(b, c)
  <2>1. Loaded.specs[c.dir] = b.specs[c.dir]
    BY ReadBack
  <2>2. \A u \in ToSet(b.specs[c.dir].units) :
          <<c.dir, u.file>> \in DOMAIN Loaded.files /\ <<c.dir, u.file>> \in DOMAIN b.files
    BY ReadBack DEF FilePath
  <2> QED BY <1>2, <2>1, <2>2 DEF Component
<1>7. Expand(Loaded) = Expand(b)
  <2>1. {Component(Loaded, c) : c \in ToSet(AllComponents(s))} = {Component(b, c) : c \in ToSet(AllComponents(s))}
    BY <1>6
  <2> QED BY <1>2, <2>1 DEF Expand
<1> QED BY <1>5, <1>7 DEF Plans

\* Every file that was there with another content, or with none, is uploaded.
LEMMA StoreAll ==
  ASSUME NEW v \in Installables, stored' = Stored(v, {}, {})
  PROVE  HasAll(v)'
<1>1. v # Empty
  BY AgentsAssumption DEF Installables, Draft
<1>2. ASSUME NEW p \in Paths(Drafts[v]) PROVE p \in DOMAIN stored' /\ Files'[p] = Content(Drafts[v], p)
  <2> DEFINE same == p \in DOMAIN stored /\ Files[p] = Content(Drafts[v], p)
  <2>1. p \in DOMAIN stored' /\ stored'[p] = IF ~same THEN v ELSE stored[p]
    BY DEF Stored
  <2>2. Files'[p] = IF stored'[p] = Empty THEN Empty ELSE Content(Drafts[stored'[p]], p)
    BY <2>1 DEF Files
  <2>3. CASE same
    BY <2>1, <2>2, <2>3 DEF Files
  <2>4. CASE ~same
    BY <1>1, <2>1, <2>2, <2>4
  <2> QED BY <2>1, <2>3, <2>4
<1> QED BY <1>2 DEF HasAll

\* An install only stores.
LEMMA InstallStores ==
  ASSUME at # 0, JobOK, Doing(ToSet(Phases)) \/ Doing(ToSet(Groups)) \/ Doing({"agents"})
  PROVE  job.verb # "install"
<1> SUFFICES ASSUME job.verb = "install" PROVE FALSE
  OBVIOUS
<1>1. job.steps = StoreSteps /\ at \in 1 .. Len(job.steps)
  BY DEF JobOK
<1>2. job.steps[at] = "store"
  BY <1>1, StepsLen DEF StoreSteps
<1>3. job.says = "install" /\ ~Doing({"agents"})
  BY <1>2 DEF Doing, JobOK
<1> QED BY <1>3, StepsOf

LEMMA WholeStep ==
  ASSUME LifeKept, EndsWhole, [LifeNext]_vars PROVE EndsWhole'
<1>1. ASSUME said' # "install" PROVE EndsWhole'
  BY <1>1 DEF EndsWhole
<1>2. CASE Store
  <2>1. PICK uncreated, unwritten :
          /\ stored' = Stored(job.model, uncreated, unwritten)
          /\ installed' = IF uncreated \union unwritten = {} THEN job.model ELSE "mixed"
          /\ Outcome(uncreated \union unwritten # {})
    BY <1>2 DEF Store
  <2>2. CASE uncreated \union unwritten = {}
    <3>1. uncreated = {} /\ unwritten = {}
      BY <2>2
    <3>2. job.model \in Installables
      BY <1>2 DEF Store, LifeKept, JobOK
    <3> QED BY <2>1, <3>1, <3>2, StoreAll DEF EndsWhole
  <2>3. CASE uncreated \union unwritten # {}
    BY <1>1, <2>1, <2>3 DEF Outcome, Ends
  <2> QED BY <2>2, <2>3
<1>3. ASSUME at # 0, job.verb # "install", Proceeds
      PROVE  EndsWhole'
  <2>1. job.says # "install" /\ said = "none"
    BY <1>3 DEF LifeKept, JobOK
  <2> QED BY <1>1, <1>3, <2>1 DEF Proceeds, Goes, Ends
<1>4. CASE \E v \in Draft : Install(v)
  BY <1>1, <1>4 DEF Install, Start
<1>5. CASE at = 0 /\ Defined /\ LET model == Expand(Loaded) IN
             RunUp(model) \/ RunDown(model) \/ RunReset(model) \/ RunAgents
  <2>1. CASE RunUp(Expand(Loaded))
    BY <1>1, <2>1 DEF RunUp, Start
  <2>2. CASE RunDown(Expand(Loaded))
    BY <1>1, <2>2 DEF RunDown, Start
  <2>3. CASE RunReset(Expand(Loaded))
    BY <1>1, <2>3 DEF RunReset, Start
  <2>4. CASE RunAgents
    BY <1>1, <2>4 DEF RunAgents, Start
  <2> QED BY <1>5, <2>1, <2>2, <2>3, <2>4
<1>6. CASE Make \/ ConvergeViews \/ WalkStories \/ TearDown \/ ServeAgents
  <2>1. at # 0 /\ Proceeds
    BY <1>6, OutcomeProceeds DEF Make, ConvergeViews, WalkStories, TearDown, ServeAgents, Doing, Proceeds
  <2>2. Doing(ToSet(Phases)) \/ Doing(ToSet(Groups)) \/ Doing({"agents"})
    <3>1. "views" \in ToSet(Phases)
      BY DEF ToSet, Phases
    <3> QED BY <1>6, <3>1, WalkDoing DEF Make, ConvergeViews, TearDown, ServeAgents, Doing
  <2>3. job.verb # "install"
    BY <2>1, <2>2, InstallStores DEF LifeKept
  <2> QED BY <1>3, <2>1, <2>3
<1>7. CASE Refuse \/ Crash
  BY <1>1, <1>7 DEF Refuse, Crash, Outcome, Ends
<1>8. CASE UNCHANGED vars
  <2>1. UNCHANGED <<stored, said, installed>>
    BY <1>8 DEF vars, lifeVars
  <2> QED BY <2>1, ReadSame DEF EndsWhole, HasAll
<1> QED BY <1>2, <1>4, <1>5, <1>6, <1>7, <1>8 DEF LifeNext

\* "every other verb reads them back from there" (cmd/install.go): however
\* definitions were installed one over another and cut short, what verbs load
\* after an install that got through is what was installed, file by file, and
\* it is accepted again and expands to the plan that install checked.
THEOREM InstallsWhole == LifeSpec => []InstalledIsWhole
<1>1. LifeInit => EndsWhole
  BY DEF LifeInit, EndsWhole
<1>2. EndsWhole => InstalledIsWhole
  BY LoadedBack DEF EndsWhole, InstalledIsWhole, HasAll
<1> QED BY <1>1, <1>2, KeptInit, KeptStep, WholeStep, PTL DEF LifeSpec

-----------------------------------------------------------------------------
(* Up *)

\* No draft gives a deployment the slug of another kind of space, nor two
\* variants one slug; the code does not look.
DeploymentsApart ==
  \A v, w \in Installables :
    DeploymentSlugs(Drafts[v].scenario)
      \intersect (OtherSlugs(Drafts[w].scenario) \union {Home(Drafts[w].scenario)}) = {}
VariantsApart ==
  \A v \in Installables :
    LET s == Drafts[v].scenario IN
    \A c, d \in ToSet(AllComponents(s)), k, l \in Clusters(s) :
      /\ Variant(c.name, k.class) = Variant(d.name, l.class) => c.name = d.name
      /\ Variant(c.name, k.name) = Variant(d.name, l.name) => c.name = d.name /\ k.class = l.class

\* What stands of a plan when its first phases are through.
HomeBuilt(m, o) == m.home \in DOMAIN o.space
ClustersBuilt(m, o) == ClusterNames(m) \subseteq DOMAIN o.space \intersect o.target
BasesBuilt(m, o) ==
  /\ {c.name : c \in Ready(m)} \subseteq o.entity
  /\ \A c \in Ready(m) :
       /\ {c.root} \union Slugs(c.bases) \subseteq DOMAIN o.space
       /\ \A s \in {c.root} \union Slugs(c.bases), u \in DOMAIN c.manifest : <<s, u>> \in DOMAIN o.unit
DeploymentsBuilt(m, o) ==
  \A c \in Ready(m) :
    /\ Slugs(c.deployments) \subseteq DOMAIN o.space
    /\ \A s \in Slugs(c.deployments), u \in DOMAIN c.manifest : <<s, u>> \in DOMAIN o.unit
ReleasesBuilt(m, o) == ReleasesWanted(m) \subseteq DOMAIN o.releases
ReportsBuilt(m, o) ==
  Slugs(DeploymentsOf({c \in Ready(m) : c.painted})) \intersect DOMAIN o.releases \subseteq o.reported

Grown(o, p) ==
  /\ DOMAIN o.space \subseteq DOMAIN p.space /\ o.target \subseteq p.target /\ o.entity \subseteq p.entity
  /\ DOMAIN o.unit \subseteq DOMAIN p.unit /\ DOMAIN o.releases \subseteq DOMAIN p.releases

LEMMA GrownKeeps ==
  ASSUME NEW o, NEW p, Grown(o, p), NEW m
  PROVE  /\ HomeBuilt(m, o) => HomeBuilt(m, p)
         /\ ClustersBuilt(m, o) => ClustersBuilt(m, p)
         /\ BasesBuilt(m, o) => BasesBuilt(m, p)
         /\ DeploymentsBuilt(m, o) => DeploymentsBuilt(m, p)
         /\ ReleasesBuilt(m, o) => ReleasesBuilt(m, p)
<1>1. HomeBuilt(m, o) => HomeBuilt(m, p)
  BY DEF HomeBuilt, Grown
<1>2. ClustersBuilt(m, o) => ClustersBuilt(m, p)
  BY DEF ClustersBuilt, Grown
<1>3. BasesBuilt(m, o) => BasesBuilt(m, p)
  BY DEF BasesBuilt, Grown
<1>4. DeploymentsBuilt(m, o) => DeploymentsBuilt(m, p)
  BY DEF DeploymentsBuilt, Grown
<1>5. ReleasesBuilt(m, o) => ReleasesBuilt(m, p)
  BY DEF ReleasesBuilt, Grown
<1> QED BY <1>1, <1>2, <1>3, <1>4, <1>5

\* A plan whose variants are told apart by their slugs, and say what they are
\* cloned from.
Cloneable(m) ==
  /\ \A x, y \in BasesOf(m.components) : x.slug = y.slug => x = y
  /\ \A x, y \in DeploymentsOf(m.components) : x.slug = y.slug => x = y
  /\ \A c \in m.components :
       /\ \A d \in c.bases : d.from = c.root
       /\ \A d \in c.deployments : d.from \in Slugs(c.bases)

LEMMA LoadedCloneable ==
  ASSUME NEW b, NEW v \in Installables, b.scenario = Drafts[v].scenario, VariantsApart
  PROVE  Cloneable(Expand(b))
<1> DEFINE s == b.scenario
           on(c) == {k \in Clusters(s) : PlacedOn(c.placement, k)}
           base(c, k) == [slug |-> Variant(c.name, k.class), from |-> RootSpace(c.name)]
           deployment(c, k) == [slug |-> Variant(c.name, k.name), from |-> Variant(c.name, k.class)]
<1>1. ASSUME NEW m \in Expand(b).components
      PROVE  \E c \in ToSet(AllComponents(s)) :
               /\ m.root = RootSpace(c.name)
               /\ m.bases = {base(c, k) : k \in on(c)}
               /\ m.deployments = {deployment(c, k) : k \in on(c)}
  <2>1. PICK c \in ToSet(AllComponents(s)) : m = Component(b, c)
    BY ExpandIs, Zenon
  <2>2. /\ m.root = RootSpace(c.name)
        /\ m.bases = {base(c, k) : k \in on(c)}
        /\ m.deployments = {deployment(c, k) : k \in on(c)}
    BY <2>1 DEF Component
  <2> QED BY <2>2
<1>2. ASSUME NEW x \in BasesOf(Expand(b).components)
      PROVE  \E c \in ToSet(AllComponents(s)), k \in Clusters(s) : x = base(c, k)
  <2>1. PICK m \in Expand(b).components : x \in m.bases
    BY DEF BasesOf
  <2>2. PICK c \in ToSet(AllComponents(s)) : m.bases = {base(c, k) : k \in on(c)}
    BY <1>1
  <2>3. PICK k \in on(c) : x = base(c, k)
    BY <2>1, <2>2
  <2> QED BY <2>3
<1>3. ASSUME NEW x \in DeploymentsOf(Expand(b).components)
      PROVE  \E c \in ToSet(AllComponents(s)), k \in Clusters(s) : x = deployment(c, k)
  <2>1. PICK m \in Expand(b).components : x \in m.deployments
    BY DEF DeploymentsOf
  <2>2. PICK c \in ToSet(AllComponents(s)) : m.deployments = {deployment(c, k) : k \in on(c)}
    BY <1>1
  <2>3. PICK k \in on(c) : x = deployment(c, k)
    BY <2>1, <2>2
  <2> QED BY <2>3
<1>4. ASSUME NEW c \in ToSet(AllComponents(s)), NEW d \in ToSet(AllComponents(s)),
             NEW k \in Clusters(s), NEW l \in Clusters(s)
      PROVE  /\ Variant(c.name, k.class) = Variant(d.name, l.class) => c.name = d.name
             /\ Variant(c.name, k.name) = Variant(d.name, l.name) => c.name = d.name /\ k.class = l.class
  BY DEF VariantsApart
<1>5. ASSUME NEW x \in BasesOf(Expand(b).components), NEW y \in BasesOf(Expand(b).components), x.slug = y.slug
      PROVE  x = y
  <2>1. PICK c \in ToSet(AllComponents(s)), k \in Clusters(s) : x = base(c, k)
    BY <1>2
  <2>2. PICK d \in ToSet(AllComponents(s)), l \in Clusters(s) : y = base(d, l)
    BY <1>2
  <2>3. Variant(c.name, k.class) = Variant(d.name, l.class)
    BY <1>5, <2>1, <2>2
  <2>4. c.name = d.name
    BY <1>4, <2>3
  <2> QED BY <2>1, <2>2, <2>3, <2>4
<1>6. ASSUME NEW x \in DeploymentsOf(Expand(b).components), NEW y \in DeploymentsOf(Expand(b).components),
             x.slug = y.slug
      PROVE  x = y
  <2>1. PICK c \in ToSet(AllComponents(s)), k \in Clusters(s) : x = deployment(c, k)
    BY <1>3
  <2>2. PICK d \in ToSet(AllComponents(s)), l \in Clusters(s) : y = deployment(d, l)
    BY <1>3
  <2>3. Variant(c.name, k.name) = Variant(d.name, l.name)
    BY <1>6, <2>1, <2>2
  <2>4. c.name = d.name /\ k.class = l.class
    BY <1>4, <2>3
  <2> QED BY <2>1, <2>2, <2>3, <2>4
<1>7. ASSUME NEW m \in Expand(b).components
      PROVE  (\A d \in m.bases : d.from = m.root) /\ \A d \in m.deployments : d.from \in Slugs(m.bases)
  <2>1. PICK c \in ToSet(AllComponents(s)) : /\ m.root = RootSpace(c.name)
                                             /\ m.bases = {base(c, k) : k \in on(c)}
                                             /\ m.deployments = {deployment(c, k) : k \in on(c)}
    BY <1>1
  <2>2. \A d \in m.bases : d.from = m.root
    BY <2>1
  <2>3. ASSUME NEW d \in m.deployments PROVE d.from \in Slugs(m.bases)
    <3>1. PICK k \in on(c) : d = deployment(c, k)
      BY <2>1
    <3>2. base(c, k) \in m.bases
      BY <2>1
    <3> QED BY <3>1, <3>2 DEF Slugs
  <2> QED BY <2>2, <2>3
<1> QED BY <1>5, <1>6, <1>7 DEF Cloneable

\* A variant gets every unit of what it is cloned from.
LEMMA ClonesAll ==
  ASSUME NEW units, NEW variants, \A x, y \in variants : x.slug = y.slug => x = y,
         NEW v \in variants, NEW u, <<v.from, u>> \in DOMAIN units
  PROVE  <<v.slug, u>> \in DOMAIN CloneAll(units, variants)
<1> DEFINE from(s) == (CHOOSE x \in variants : x.slug = s).from
           names == {w[2] : w \in DOMAIN units}
           every == {x.slug : x \in variants} \X names
           cloned == {w \in every : <<from(w[1]), w[2]>> \in DOMAIN units}
           f == [w \in cloned |-> units[<<from(w[1]), w[2]>>]]
           clone == <<v.slug, u>>
<1>1. CloneAll(units, variants) = Over(units, f)
  BY DEF CloneAll
<1>2. from(v.slug) = v.from
  <2>1. (CHOOSE x \in variants : x.slug = v.slug) = v
    OBVIOUS
  <2> QED BY <2>1
<1>3. u \in names
  <2>1. <<v.from, u>>[2] = u
    OBVIOUS
  <2> QED BY <2>1
<1>4. clone \in every /\ clone[1] = v.slug /\ clone[2] = u
  <2> HIDE DEF names
  <2> QED BY <1>3
<1>5. clone \in cloned
  <2> HIDE DEF every, from
  <2> QED BY <1>2, <1>4
<1>6. clone \in DOMAIN f
  <2> HIDE DEF cloned
  <2> QED BY <1>5
<1> HIDE DEF f, clone
<1>7. clone \in DOMAIN Over(units, f)
  BY <1>6 DEF Over
<1> QED BY <1>1, <1>7 DEF clone

LEMMA HomeMade ==
  ASSUME OrgOK(org), NEW m, NEW left
  PROVE  /\ Grown(org, MakeHome(m, left))
         /\ HomeBuilt(m, MakeHome(m, {}))
<1>1. ASSUME NEW some
      PROVE  /\ Grown(org, MakeHome(m, some))
             /\ DOMAIN MakeHome(m, some).space = DOMAIN org.space \union ({m.home} \ some)
  <2> DEFINE space == Ensured(org.space, {m.home} \ some, "demo")
  <2>1. MakeHome(m, some) = [space |-> space, unit |-> org.unit, target |-> org.target, entity |-> org.entity,
                             releases |-> org.releases, reported |-> org.reported]
    BY OrgWith DEF MakeHome
  <2>2. DOMAIN space = DOMAIN org.space \union ({m.home} \ some)
    BY DEF Ensured, Over
  <2> HIDE DEF space
  <2> QED BY <2>1, <2>2 DEF Grown
<1> QED BY <1>1 DEF HomeBuilt

LEMMA ClustersMade ==
  ASSUME OrgOK(org), NEW m, NEW left
  PROVE  /\ Grown(org, MakeClusters(m, left))
         /\ ClustersBuilt(m, MakeClusters(m, {}))
<1>1. ASSUME NEW some
      PROVE  /\ Grown(org, MakeClusters(m, some))
             /\ DOMAIN MakeClusters(m, some).space = DOMAIN org.space \union ClusterNames(m)
             /\ MakeClusters(m, some).target = org.target \union (ClusterNames(m) \ some)
  <2> DEFINE space == Ensured(org.space, ClusterNames(m), "cluster")
             target == org.target \union (ClusterNames(m) \ some)
  <2>1. MakeClusters(m, some) = [org EXCEPT !.space = space, !.target = target]
    BY DEF MakeClusters
  <2>2. DOMAIN space = DOMAIN org.space \union ClusterNames(m)
    BY DEF Ensured, Over
  <2> HIDE DEF space
  <2>3. target = org.target \union (ClusterNames(m) \ some)
    OBVIOUS
  <2> HIDE DEF target
  <2>4. MakeClusters(m, some) = [space |-> space, unit |-> org.unit, target |-> target, entity |-> org.entity,
                                 releases |-> org.releases, reported |-> org.reported]
    BY <2>1, OrgWith
  <2> QED BY <2>2, <2>3, <2>4 DEF Grown
<1>2. ClusterNames(m) \ {} = ClusterNames(m)
  OBVIOUS
<1> QED BY <1>1, <1>2 DEF ClustersBuilt

LEMMA BasesMade ==
  ASSUME OrgOK(org), NEW m, NEW left
  PROVE  /\ Grown(org, MakeBases(m, left))
         /\ Cloneable(m) => BasesBuilt(m, MakeBases(m, {}))
<1> DEFINE roots == {c.root : c \in Ready(m)}
           names == {c.name : c \in Ready(m)}
           done(some) == {c \in Ready(m) : c.name \notin some}
           had == Over(Rendered(Ready(m)), org.unit)
<1>1. ASSUME NEW some
      PROVE  /\ Grown(org, MakeBases(m, some))
             /\ DOMAIN MakeBases(m, some).space = DOMAIN org.space \union roots \union Slugs(BasesOf(done(some)))
             /\ MakeBases(m, some).unit = CloneAll(had, BasesOf(done(some)))
             /\ MakeBases(m, some).entity = org.entity \union names
  <2> DEFINE first == Ensured(org.space, roots, "root base")
             space == Ensured(first, Slugs(BasesOf(done(some))), "class base")
             unit == CloneAll(had, BasesOf(done(some)))
             entity == org.entity \union names
  <2>1. MakeBases(m, some) = [org EXCEPT !.entity = entity, !.space = space, !.unit = unit]
    BY DEF MakeBases
  <2>2. DOMAIN first = DOMAIN org.space \union roots
    BY DEF Ensured, Over
  <2> HIDE DEF first
  <2>3. DOMAIN space = DOMAIN first \union Slugs(BasesOf(done(some)))
    BY DEF Ensured, Over
  <2> HIDE DEF space
  <2>4. DOMAIN org.unit \subseteq DOMAIN had
    BY DEF Over
  <2>5. DOMAIN had \subseteq DOMAIN unit
    <3> HIDE DEF had, done
    <3> QED BY ClonesOf
  <2>6. unit = CloneAll(had, BasesOf(done(some))) /\ entity = org.entity \union names
    OBVIOUS
  <2> HIDE DEF unit, entity, had, done, roots, names
  <2>7. MakeBases(m, some) = [space |-> space, unit |-> unit, target |-> org.target, entity |-> entity,
                              releases |-> org.releases, reported |-> org.reported]
    BY <2>1, OrgWith
  <2>8. DOMAIN space = DOMAIN org.space \union roots \union Slugs(BasesOf(done(some)))
    BY <2>2, <2>3
  <2>9. Grown(org, MakeBases(m, some))
    BY <2>4, <2>5, <2>6, <2>7, <2>8 DEF Grown
  <2> QED BY <2>6, <2>7, <2>8, <2>9
<1>2. done({}) = Ready(m)
  OBVIOUS
<1> DEFINE o == MakeBases(m, {})
<1>3. /\ DOMAIN o.space = DOMAIN org.space \union roots \union Slugs(BasesOf(Ready(m)))
      /\ o.unit = CloneAll(had, BasesOf(Ready(m))) /\ o.entity = org.entity \union names
  BY <1>1, <1>2
<1> HIDE DEF o
<1>4. ASSUME Cloneable(m), NEW c \in Ready(m)
      PROVE  /\ {c.root} \union Slugs(c.bases) \subseteq DOMAIN o.space
             /\ \A s \in {c.root} \union Slugs(c.bases), u \in DOMAIN c.manifest : <<s, u>> \in DOMAIN o.unit
  <2>1. c.root \in roots /\ Slugs(c.bases) \subseteq Slugs(BasesOf(Ready(m)))
    BY DEF Slugs, BasesOf
  <2>2. ASSUME NEW u \in DOMAIN c.manifest PROVE <<c.root, u>> \in DOMAIN had /\ <<c.root, u>> \in DOMAIN o.unit
    <3>1. <<c.root, u>> \in DOMAIN Rendered(Ready(m))
      BY RenderedIs
    <3>2. <<c.root, u>> \in DOMAIN had
      BY <3>1 DEF Over
    <3> HIDE DEF had
    <3> QED BY <1>3, <3>2, ClonesOf
  <2>3. ASSUME NEW u \in DOMAIN c.manifest, NEW d \in c.bases PROVE <<d.slug, u>> \in DOMAIN o.unit
    <3>1. d.from = c.root
      BY <1>4 DEF Cloneable, Ready
    <3>2. <<d.from, u>> \in DOMAIN had
      BY <2>2, <3>1
    <3>3. d \in BasesOf(Ready(m))
      BY DEF BasesOf
    <3>4. \A x, y \in BasesOf(Ready(m)) : x.slug = y.slug => x = y
      BY <1>4 DEF Cloneable, BasesOf, Ready
    <3> HIDE DEF had
    <3>5. <<d.slug, u>> \in DOMAIN CloneAll(had, BasesOf(Ready(m)))
      BY <3>2, <3>3, <3>4, ClonesAll
    <3> QED BY <1>3, <3>5
  <2>4. ASSUME NEW s \in {c.root} \union Slugs(c.bases), NEW u \in DOMAIN c.manifest PROVE <<s, u>> \in DOMAIN o.unit
    <3>1. CASE s = c.root
      BY <2>2, <3>1
    <3>2. CASE s \in Slugs(c.bases)
      <4> PICK d \in c.bases : s = d.slug
        BY <3>2 DEF Slugs
      <4> QED BY <2>3
    <3> QED BY <3>1, <3>2
  <2> QED BY <1>3, <2>1, <2>4
<1>5. Cloneable(m) => BasesBuilt(m, o)
  BY <1>3, <1>4 DEF BasesBuilt
<1> QED BY <1>1, <1>5 DEF o

\* Once the bases stand, all components that are ready are based.
LEMMA DeploymentsMade ==
  ASSUME OrgOK(org), NEW m, NEW left
  PROVE  /\ Grown(org, MakeDeployments(m, left))
         /\ Cloneable(m) /\ BasesBuilt(m, org) => DeploymentsBuilt(m, MakeDeployments(m, {}))
<1> DEFINE made == DeploymentsOf(Based(m))
           some(lost) == {d \in made : d.from \notin lost}
<1>1. ASSUME NEW lost
      PROVE  /\ Grown(org, MakeDeployments(m, lost))
             /\ DOMAIN MakeDeployments(m, lost).space = DOMAIN org.space \union Slugs(made)
             /\ MakeDeployments(m, lost).unit = CloneAll(org.unit, some(lost))
  <2> DEFINE space == Ensured(org.space, Slugs(made), "deployment")
             unit == CloneAll(org.unit, some(lost))
  <2>1. MakeDeployments(m, lost) = [org EXCEPT !.space = space, !.unit = unit]
    BY DEF MakeDeployments
  <2>2. DOMAIN space = DOMAIN org.space \union Slugs(made)
    BY DEF Ensured, Over
  <2>3. unit = CloneAll(org.unit, some(lost)) /\ DOMAIN org.unit \subseteq DOMAIN unit
    <3> HIDE DEF some
    <3> QED BY ClonesOf
  <2> HIDE DEF space, unit, some, made
  <2>4. MakeDeployments(m, lost) = [space |-> space, unit |-> unit, target |-> org.target, entity |-> org.entity,
                                    releases |-> org.releases, reported |-> org.reported]
    BY <2>1, OrgWith
  <2> QED BY <2>2, <2>3, <2>4 DEF Grown
<1>2. some({}) = made
  OBVIOUS
<1> DEFINE o == MakeDeployments(m, {})
<1>3. DOMAIN o.space = DOMAIN org.space \union Slugs(made) /\ o.unit = CloneAll(org.unit, made)
  BY <1>1, <1>2
<1> HIDE DEF o
<1>4. ASSUME Cloneable(m), BasesBuilt(m, org), NEW c \in Ready(m)
      PROVE  /\ Slugs(c.deployments) \subseteq DOMAIN o.space
             /\ \A s \in Slugs(c.deployments), u \in DOMAIN c.manifest : <<s, u>> \in DOMAIN o.unit
  <2>1. c \in Based(m)
    BY <1>4 DEF Based, BasesBuilt
  <2>2. \A d \in c.deployments : d \in made
    BY <2>1 DEF DeploymentsOf
  <2>3. Slugs(c.deployments) \subseteq DOMAIN o.space
    BY <1>3, <2>2 DEF Slugs
  <2>4. ASSUME NEW d \in c.deployments, NEW u \in DOMAIN c.manifest PROVE <<d.slug, u>> \in DOMAIN o.unit
    <3>1. d.from \in Slugs(c.bases)
      BY <1>4 DEF Cloneable, Ready
    <3>2. <<d.from, u>> \in DOMAIN org.unit
      BY <1>4, <3>1 DEF BasesBuilt
    <3>3. d \in made
      BY <2>2
    <3>4. \A x, y \in made : x.slug = y.slug => x = y
      BY <1>4 DEF Cloneable, DeploymentsOf, Based, Ready
    <3> HIDE DEF made
    <3>5. <<d.slug, u>> \in DOMAIN CloneAll(org.unit, made)
      BY <3>2, <3>3, <3>4, ClonesAll
    <3> QED BY <1>3, <3>5
  <2>5. ASSUME NEW s \in Slugs(c.deployments), NEW u \in DOMAIN c.manifest PROVE <<s, u>> \in DOMAIN o.unit
    <3> PICK d \in c.deployments : s = d.slug
      BY DEF Slugs
    <3> QED BY <2>4
  <2> QED BY <2>3, <2>5
<1>5. Cloneable(m) /\ BasesBuilt(m, org) => DeploymentsBuilt(m, o)
  BY <1>4 DEF DeploymentsBuilt
<1> QED BY <1>1, <1>5 DEF o

LEMMA ReleasesMade ==
  ASSUME OrgOK(org), NEW m, NEW left
  PROVE  /\ Grown(org, MakeReleases(m, left))
         /\ (/\ DeploymentsBuilt(m, org) /\ \A c \in Ready(m) : DOMAIN c.manifest # {}
             /\ \A s \in Slugs(DeploymentsOf(Ready(m))) : org.space[s] = "deployment")
              => ReleasesBuilt(m, MakeReleases(m, {}))
<1>1. ASSUME NEW some
      PROVE  /\ Grown(org, MakeReleases(m, some))
             /\ DOMAIN MakeReleases(m, some).releases = DOMAIN org.releases \union (Publishable(m) \ some)
  <2> DEFINE now == Publishable(m) \ some
             f == [s \in now |-> [count |-> Published(s) + 1, has |-> UnitsIn(s)]]
             releases == Over(f, org.releases)
             reported == org.reported \ now
  <2>1. MakeReleases(m, some) = [org EXCEPT !.releases = releases, !.reported = reported]
    BY DEF MakeReleases
  <2>2. DOMAIN f = now
    OBVIOUS
  <2> HIDE DEF f
  <2>3. DOMAIN releases = now \union DOMAIN org.releases
    BY <2>2 DEF Over
  <2> HIDE DEF releases, reported
  <2>4. MakeReleases(m, some) = [space |-> org.space, unit |-> org.unit, target |-> org.target, entity |-> org.entity,
                                 releases |-> releases, reported |-> reported]
    BY <2>1, OrgWith
  <2> QED BY <2>3, <2>4 DEF Grown
<1>2. ASSUME DeploymentsBuilt(m, org), \A c \in Ready(m) : DOMAIN c.manifest # {},
             \A s \in Slugs(DeploymentsOf(Ready(m))) : org.space[s] = "deployment",
             NEW s \in ReleasesWanted(m)
      PROVE  s \in DOMAIN org.releases \union Publishable(m)
  <2>1. s \in Slugs(DeploymentsOf(Ready(m))) /\ s \notin m.unreleased
    BY DEF ReleasesWanted
  <2>2. PICK c \in Ready(m) : s \in Slugs(c.deployments)
    BY <2>1 DEF Slugs, DeploymentsOf
  <2>3. PICK u \in DOMAIN c.manifest : TRUE
    BY <1>2
  <2>4. <<s, u>> \in DOMAIN org.unit /\ s \in DOMAIN org.space
    BY <1>2, <2>2 DEF DeploymentsBuilt
  <2>5. UnitsIn(s) # {}
    <3>1. <<s, u>>[1] = s
      OBVIOUS
    <3>2. <<s, u>> \in UnitsIn(s)
      BY <2>4, <3>1 DEF UnitsIn
    <3> QED BY <3>2
  <2>6. s \in Spaces("deployment")
    BY <1>2, <2>1, <2>4 DEF Spaces
  <2> QED BY <2>1, <2>5, <2>6 DEF Publishable
<1> QED BY <1>1, <1>2 DEF ReleasesBuilt

LEMMA ReportsMade ==
  ASSUME OrgOK(org), NEW m, NEW left
  PROVE  /\ Grown(org, MakeReports(m, left))
         /\ ReportsBuilt(m, MakeReports(m, {}))
<1>1. ASSUME NEW some
      PROVE  MakeReports(m, some) =
               [space |-> org.space, unit |-> org.unit, target |-> org.target, entity |-> org.entity,
                releases |-> org.releases, reported |-> org.reported \union (Painted(m) \ some)]
  <2> DEFINE reported == org.reported \union (Painted(m) \ some)
  <2>1. MakeReports(m, some) = [org EXCEPT !.reported = reported]
    BY DEF MakeReports
  <2> HIDE DEF reported
  <2>2. MakeReports(m, some) =
               [space |-> org.space, unit |-> org.unit, target |-> org.target, entity |-> org.entity,
                releases |-> org.releases, reported |-> reported]
    BY <2>1, OrgWith
  <2> QED BY <2>2 DEF reported
<1>2. Grown(org, MakeReports(m, left))
  BY <1>1 DEF Grown
<1>3. MakeReports(m, {}).releases = org.releases /\ Painted(m) \subseteq MakeReports(m, {}).reported
  BY <1>1
<1> QED BY <1>2, <1>3 DEF ReportsBuilt, Painted

LEMMA PathCases ==
  ASSUME NEW b, NEW p \in Paths(b), p # ScenarioPath
  PROVE  \E c \in ToSet(AllComponents(b.scenario)) :
           \/ p = SpecPath(c.dir)
           \/ \E u \in ToSet(b.specs[c.dir].units) : p = FilePath(c.dir, u.file)
           \/ \E e \in ToSet(c.external) : p = ExternalPath(e.kind)
<1> DEFINE of(c) == {<<c.dir, "component">>} \union {<<c.dir, u.file>> : u \in ToSet(b.specs[c.dir].units)}
                      \union {<<"external", e.kind>> : e \in ToSet(c.external)}
<1>1. Paths(b) = {<<"scenario">>} \union UNION {of(c) : c \in ToSet(AllComponents(b.scenario))}
  BY DEF Paths
<1>2. PICK c \in ToSet(AllComponents(b.scenario)) : p \in of(c)
  <2> HIDE DEF of
  <2> QED BY <1>1 DEF ScenarioPath
<1> QED BY <1>2 DEF SpecPath, FilePath, ExternalPath

\* A component.yaml that is stored is the one of a draft that has that directory.
LEMMA SpecStored ==
  ASSUME NEW v \in Installables, NEW p \in Paths(Drafts[v]), p # ScenarioPath, p[2] = "component"
  PROVE  p = SpecPath(p[1]) /\ p[1] \in DOMAIN Drafts[v].specs
<1> DEFINE b == Drafts[v]
<1>1. v \in Draft /\ Accepted(b)
  BY DEF Installables, Installable
<1>2. PICK c \in ToSet(AllComponents(b.scenario)) :
           \/ p = SpecPath(c.dir)
           \/ \E u \in ToSet(b.specs[c.dir].units) : p = FilePath(c.dir, u.file)
           \/ \E e \in ToSet(c.external) : p = ExternalPath(e.kind)
  BY PathCases
<1>3. c.dir \in DOMAIN b.specs
  BY <1>1 DEF Accepted
<1>4. \A u \in ToSet(b.specs[c.dir].units) : u.file # "component"
  BY <1>1, <1>3, FilesAssumption DEF Draft
<1>5. \A e \in ToSet(c.external) : e.kind # "component"
  <2> SUFFICES ASSUME NEW e \in ToSet(c.external) PROVE e.kind # "component"
    OBVIOUS
  <2>1. e.kind \in {"rds", "bucket", "queue", "cache"}
    BY <1>1 DEF Accepted, ComponentsAccepted
  <2> QED BY <2>1
<1>6. p = SpecPath(c.dir)
  BY <1>2, <1>4, <1>5, PathsAre
<1> QED BY <1>3, <1>6, PathsAre

\* What is read back of a component is a component.yaml that Load accepts.
LEMMA LoadedSpecs ==
  ASSUME StoredOK, Defined, NEW c \in ToSet(AllComponents(Loaded.scenario))
  PROVE  LET units == Loaded.specs[c.dir].units IN
         /\ UnitsAccepted(Loaded.specs[c.dir], c)
         /\ units \in Seq(ToSet(units)) /\ units # <<>>
<1>2. c.dir \in DOMAIN Loaded.specs /\ UnitsAccepted(Loaded.specs[c.dir], c)
  BY DEF Defined, Readable, Accepted, Loaded
<1> DEFINE d == c.dir
           specs == {p \in DOMAIN Files : p # <<"scenario">> /\ p[2] = "component" /\ Files[p] # Empty}
<1>3. /\ DOMAIN Loaded.specs = {p[1] : p \in specs}
      /\ \A e \in DOMAIN Loaded.specs : Loaded.specs[e] = Files[<<e, "component">>]
  <2> DEFINE parsed == [e \in {p[1] : p \in specs} |-> Files[<<e, "component">>]]
             plain == [p \in {q \in DOMAIN Files : q # <<"scenario">> /\ q[2] # "component"} |-> Files[p]]
  <2>1. Loaded = [scenario |-> Files[<<"scenario">>], specs |-> parsed, files |-> plain]
    BY DEF Loaded, FromFiles
  <2>2. DOMAIN parsed = {p[1] : p \in specs} /\ \A e \in DOMAIN parsed : parsed[e] = Files[<<e, "component">>]
    OBVIOUS
  <2> HIDE DEF parsed, plain, specs
  <2> QED BY <2>1, <2>2
<1>4. PICK p \in specs : d = p[1]
  BY <1>2, <1>3
<1>5. p \in DOMAIN stored /\ p # ScenarioPath /\ p[2] = "component" /\ Files[p] # Empty
  BY DEF Files, ScenarioPath
<1>6. /\ stored[p] \in Installables /\ p \in Paths(Drafts[stored[p]])
      /\ Files[p] = Content(Drafts[stored[p]], p)
  BY <1>5 DEF StoredOK, Files
<1> DEFINE b == Drafts[stored[p]]
<1>7. p = SpecPath(d) /\ d \in DOMAIN b.specs
  BY <1>4, <1>5, <1>6, SpecStored
<1>8. Loaded.specs[d] = b.specs[d]
  BY <1>2, <1>3, <1>6, <1>7, ContentOf DEF SpecPath
<1> DEFINE units == b.specs[d].units
<1>9. units \in Seq(ToSet(units)) /\ units # <<>>
  <2>1. stored[p] \in DOMAIN Drafts
    BY <1>6 DEF Installables, Draft
  <2>2. units # <<>>
    BY <1>2, <1>8 DEF UnitsAccepted
  <2>3. units \in Seq(ToSet(units))
    BY <1>7, <2>1, FilesAssumption
  <2> QED BY <2>2, <2>3
<1> QED BY <1>2, <1>8, <1>9

\* Load refuses a component without units.
LEMMA ManifestsThere ==
  ASSUME StoredOK, Defined, NEW m \in Expand(Loaded).components
  PROVE  DOMAIN m.manifest # {}
<1>1. PICK c \in ToSet(AllComponents(Loaded.scenario)) : m = Component(Loaded, c)
  BY ExpandIs
<1> DEFINE units == Loaded.specs[c.dir].units
<1>2. units \in Seq(ToSet(units)) /\ units # <<>>
  BY LoadedSpecs
<1>3. Named(units) # {}
  <2> HIDE DEF units
  <2>1. 1 \in DOMAIN units
    BY <1>2
  <2> QED BY <2>1 DEF Named
<1>4. DOMAIN m.manifest = Named(units) \union Named(c.external)
  <2>1. DOMAIN Component(Loaded, c).manifest = Named(Loaded.specs[c.dir].units) \union Named(c.external)
    BY DEF Component
  <2> QED BY <1>1, <2>1
<1> QED BY <1>3, <1>4

\* The first n phases of up are through, and what they made stands.
Built(n, m, o) ==
  /\ n >= 1 => HomeBuilt(m, o)
  /\ n >= 2 => ClustersBuilt(m, o)
  /\ n >= 3 => BasesBuilt(m, o)
  /\ n >= 4 => DeploymentsBuilt(m, o)
  /\ n >= 5 => ReleasesBuilt(m, o)
  /\ n >= 6 => ReportsBuilt(m, o)
Through == IF job.verb = "up" THEN at - 1 ELSE at - 7
ViewsBuilt ==
  /\ view = [v \in 1 .. Views |-> {Definition[tool][v]}]
  /\ filter = [v \in 1 .. Views |-> {Definition[tool][v].query}]
Builds == at # 0 /\ job.says = "up" => Built(Through, job.model, org) /\ (Through >= 7 => ViewsBuilt)
DeploymentsAre ==
  \A v \in Installables :
    \A s \in DeploymentSlugs(Drafts[v].scenario) \intersect DOMAIN org.space : org.space[s] = "deployment"

\* All of the plan is there, but for counts and data.
BuiltWhole == Defined /\ Built(6, Expand(Loaded), org) /\ ViewsBuilt
EndsBuilt == said = "up" => BuiltWhole

LEMMA StepNames ==
  /\ \A i \in 1 .. 9 : Phases[i] \in ToSet(Phases)
  /\ \A i \in 1 .. 6 : Groups[i] \in ToSet(Groups)
  /\ \A x \in ToSet(Phases) : x \notin ToSet(Groups) /\ x # "agents"
  /\ \A x \in ToSet(Groups) : x # "agents"
<1>1. /\ \A i \in 1 .. 9 : Phases[i] \in ToSet(Phases)
      /\ \A i \in 1 .. 6 : Groups[i] \in ToSet(Groups)
  <2>1. DOMAIN Groups = 1 .. 6 /\ DOMAIN Phases = 1 .. 9
    BY DEF Groups, Phases
  <2> QED BY <2>1 DEF ToSet
<1>2. ToSet(Phases) = {"home", "clusters", "bases", "deployments", "releases", "livestatus", "views",
                 "workflows", "stories"}
  BY DEF ToSet, Phases
<1>3. ToSet(Groups) \subseteq {"deployment", "class base", "root base", "components", "cluster", "demo"}
  <2> SUFFICES ASSUME NEW i \in DOMAIN Groups
               PROVE  Groups[i] \in {"deployment", "class base", "root base", "components", "cluster", "demo"}
    BY DEF ToSet
  <2> QED BY GroupsAre
<1>4. \A x \in ToSet(Phases) : x \notin ToSet(Groups) /\ x # "agents"
  BY <1>2, <1>3
<1>5. \A x \in ToSet(Groups) : x # "agents"
  BY <1>3
<1> QED BY <1>1, <1>4, <1>5

\* Where an up or a reset is.
LEMMA WhereUpIs ==
  ASSUME at # 0, JobOK, job.says = "up"
  PROVE  /\ job.verb \in {"up", "reset"} /\ at \in Nat /\ Through \in Int /\ Through <= 8
         /\ Through < 0 => Doing(ToSet(Groups)) /\ ~Doing(ToSet(Phases))
         /\ Through >= 0 => ~Doing(ToSet(Groups)) /\ job.steps[at] = Phases[Through + 1]
         /\ ~Doing({"agents"})
         /\ at = Len(job.steps) <=> Through = 8
<1>1. CASE job.verb = "up"
  <2>1. job.steps = Phases /\ at \in 1 .. 9 /\ Len(job.steps) = 9
    BY <1>1, StepsLen DEF JobOK
  <2>2. Through = at - 1
    BY <1>1 DEF Through
  <2>3. job.steps[at] = Phases[Through + 1] /\ job.steps[at] \in ToSet(Phases)
    BY <2>1, <2>2, StepNames
  <2>4. ~Doing(ToSet(Groups)) /\ ~Doing({"agents"})
    BY <2>3, StepNames DEF Doing
  <2>5. Through \in 0 .. 8 /\ (at = Len(job.steps) <=> Through = 8)
    BY <2>1, <2>2
  <2> QED BY <1>1, <2>1, <2>3, <2>4, <2>5
<1>2. CASE job.verb = "reset"
  <2>1. job.steps = ResetSteps /\ at \in 1 .. 15 /\ Len(job.steps) = 15
    BY <1>2, StepsLen DEF JobOK
  <2>2. Through = at - 7
    BY <1>2 DEF Through
  <2>3. CASE at <= 6
    <3>1. job.steps[at] = Groups[at]
      BY <2>1, <2>3, StepsAre
    <3>2. job.steps[at] \in ToSet(Groups)
      BY <2>1, <2>3, <3>1, StepNames
    <3>3. Doing(ToSet(Groups)) /\ ~Doing(ToSet(Phases)) /\ ~Doing({"agents"})
      BY <3>2, StepNames DEF Doing
    <3>4. Through \in Int /\ Through < 0 /\ at \in Nat /\ at # Len(job.steps)
      BY <2>1, <2>2, <2>3
    <3> QED BY <1>2, <3>3, <3>4
  <2>4. CASE at > 6
    <3>1. job.steps[at] = Phases[at - 6] /\ at - 6 \in 1 .. 9
      BY <2>1, <2>4, StepsAre
    <3>2. job.steps[at] = Phases[Through + 1] /\ job.steps[at] \in ToSet(Phases)
      <4>1. Through + 1 = at - 6
        BY <2>1, <2>2
      <4> QED BY <3>1, <4>1, StepNames
    <3>3. ~Doing(ToSet(Groups)) /\ ~Doing({"agents"})
      BY <3>2, StepNames DEF Doing
    <3>4. Through \in 0 .. 8 /\ at \in Nat /\ (at = Len(job.steps) <=> Through = 8)
      BY <2>1, <2>2, <2>4
    <3> QED BY <1>2, <3>2, <3>3, <3>4
  <2> QED BY <2>1, <2>3, <2>4
<1>3. job.verb \in {"up", "reset"}
  BY DEF JobOK
<1> QED BY <1>1, <1>2, <1>3

\* A phase that failed in nothing has made what it is there for.
LEMMA PhaseBuilds ==
  ASSUME OrgOK(org), NEW m, Cloneable(m), \A c \in m.components : DOMAIN c.manifest # {},
         \A s \in Slugs(DeploymentsOf(m.components)) \intersect DOMAIN org.space : org.space[s] = "deployment",
         NEW n \in 0 .. 5, Built(n, m, org), NEW o, o = Made(Phases[n + 1], m, {})
  PROVE  Built(n + 1, m, o)
<1>1. CASE n = 0
  <2>1. o = MakeHome(m, {})
    BY <1>1 DEF Made, Phases
  <2>2. HomeBuilt(m, o)
    BY <2>1, HomeMade
  <2> QED BY <1>1, <2>2 DEF Built
<1>2. CASE n = 1
  <2>1. o = MakeClusters(m, {})
    BY <1>2 DEF Made, Phases
  <2>2. Grown(org, o) /\ ClustersBuilt(m, o)
    BY <2>1, ClustersMade
  <2>3. HomeBuilt(m, org)
    BY <1>2 DEF Built
  <2> QED BY <1>2, <2>2, <2>3, GrownKeeps DEF Built
<1>3. CASE n = 2
  <2>1. o = MakeBases(m, {})
    BY <1>3 DEF Made, Phases
  <2>2. Grown(org, o) /\ BasesBuilt(m, o)
    BY <2>1, BasesMade
  <2>3. HomeBuilt(m, org) /\ ClustersBuilt(m, org)
    BY <1>3 DEF Built
  <2> QED BY <1>3, <2>2, <2>3, GrownKeeps DEF Built
<1>4. CASE n = 3
  <2>1. o = MakeDeployments(m, {})
    BY <1>4 DEF Made, Phases
  <2>3. HomeBuilt(m, org) /\ ClustersBuilt(m, org) /\ BasesBuilt(m, org)
    BY <1>4 DEF Built
  <2>2. Grown(org, o) /\ DeploymentsBuilt(m, o)
    BY <2>1, <2>3, DeploymentsMade
  <2> QED BY <1>4, <2>2, <2>3, GrownKeeps DEF Built
<1>5. CASE n = 4
  <2>1. o = MakeReleases(m, {})
    BY <1>5 DEF Made, Phases
  <2>2. HomeBuilt(m, org) /\ ClustersBuilt(m, org) /\ BasesBuilt(m, org) /\ DeploymentsBuilt(m, org)
    BY <1>5 DEF Built
  <2>3. \A s \in Slugs(DeploymentsOf(Ready(m))) : org.space[s] = "deployment"
    <3> SUFFICES ASSUME NEW s \in Slugs(DeploymentsOf(Ready(m))) PROVE org.space[s] = "deployment"
      OBVIOUS
    <3>1. PICK c \in Ready(m) : s \in Slugs(c.deployments)
      BY DEF Slugs, DeploymentsOf
    <3>2. s \in DOMAIN org.space
      BY <2>2, <3>1 DEF DeploymentsBuilt
    <3>3. s \in Slugs(DeploymentsOf(m.components))
      BY DEF Slugs, DeploymentsOf, Ready
    <3> QED BY <3>2, <3>3
  <2>4. \A c \in Ready(m) : DOMAIN c.manifest # {}
    BY DEF Ready
  <2>5. Grown(org, o) /\ ReleasesBuilt(m, o)
    BY <2>1, <2>2, <2>3, <2>4, ReleasesMade
  <2> QED BY <1>5, <2>2, <2>5, GrownKeeps DEF Built
<1>6. CASE n = 5
  <2>1. o = MakeReports(m, {})
    BY <1>6 DEF Made, Phases
  <2>2. /\ HomeBuilt(m, org) /\ ClustersBuilt(m, org) /\ BasesBuilt(m, org)
        /\ DeploymentsBuilt(m, org) /\ ReleasesBuilt(m, org)
    BY <1>6 DEF Built
  <2>3. Grown(org, o) /\ ReportsBuilt(m, o)
    BY <2>1, ReportsMade
  <2> QED BY <1>6, <2>2, <2>3, GrownKeeps DEF Built
<1> QED BY <1>1, <1>2, <1>3, <1>4, <1>5, <1>6

LEMMA DeploymentsMadeAs ==
  ASSUME DeploymentsApart, LifeKept, DeploymentsAre, Make
  PROVE  DeploymentsAre'
<1>1. PICK left : org' = Made(job.steps[at], job.model, left)
  BY DEF Make
<1>2. at # 0 /\ job.steps[at] \in ToSet(Phases) \ {"views", "stories"} /\ OrgOK(org)
  BY DEF Make, Doing, LifeKept
<1>3. job.verb \in {"up", "reset"}
  BY <1>2, StepsOf DEF Doing, LifeKept
<1>4. PICK w \in Installables : /\ job.model.home = Home(Drafts[w].scenario)
                                /\ OthersOf(job.model) \subseteq OtherSlugs(Drafts[w].scenario)
  BY <1>2, <1>3, HomeOfPlan
<1>5. Added(org'.space, job.model)
  BY <1>1, <1>2, MadeSpaces
<1>6. ASSUME NEW v \in Installables, NEW s \in DeploymentSlugs(Drafts[v].scenario), s \in DOMAIN org'.space
      PROVE  org'.space[s] = "deployment"
  <2>1. s \notin OthersOf(job.model) /\ s # job.model.home
    BY <1>4 DEF DeploymentsApart
  <2> QED BY <1>5, <1>6, <2>1 DEF Added, DeploymentsAre
<1> QED BY <1>6 DEF DeploymentsAre

LEMMA DeploymentsTaken ==
  ASSUME LifeKept, DeploymentsAre, TearDown
  PROVE  DeploymentsAre'
<1> DEFINE group == job.steps[at]
<1>1. PICK gone : org' = Removed(group, gone)
  BY DEF TearDown
<1>2. OrgOK(org)
  BY DEF LifeKept
<1>3. CASE group = "components"
  <2>1. org'.space = org.space
    BY <1>1, <1>2, <1>3 DEF Removed, OrgOK
  <2> QED BY <2>1 DEF DeploymentsAre
<1>4. CASE group # "components"
  <2> HIDE DEF group
  <2> DEFINE unit == Without(org.unit, {u \in DOMAIN org.unit : u[1] \in gone})
             space == Without(org.space, gone)
             releases == Without(org.releases, gone)
  <2>1. org' = [space |-> space, unit |-> unit, target |-> org.target \ gone, entity |-> org.entity,
                releases |-> releases, reported |-> org.reported \ gone]
    BY <1>1, <1>2, <1>4, RemovedIs
  <2>2. DOMAIN space = DOMAIN org.space \ gone /\ \A s \in DOMAIN space : space[s] = org.space[s]
    BY DEF Without
  <2> HIDE DEF space, unit, releases
  <2>3. org'.space = space
    BY <2>1
  <2> QED BY <2>2, <2>3 DEF DeploymentsAre
<1> QED BY <1>3, <1>4

LEMMA DeploymentsStep ==
  ASSUME DeploymentsApart, LifeKept, DeploymentsAre, [LifeNext]_vars
  PROVE  DeploymentsAre'
<1>1. ASSUME UNCHANGED org PROVE DeploymentsAre'
  BY <1>1 DEF DeploymentsAre
<1>2. CASE \E v \in Draft : Install(v)
  BY <1>1, <1>2 DEF Install, Start
<1>3. CASE at = 0 /\ Defined /\ LET model == Expand(Loaded) IN
             RunUp(model) \/ RunDown(model) \/ RunReset(model) \/ RunAgents
  <2>1. CASE RunUp(Expand(Loaded))
    BY <1>1, <2>1 DEF RunUp, Start
  <2>2. CASE RunDown(Expand(Loaded))
    BY <1>1, <2>2 DEF RunDown, Start
  <2>3. CASE RunReset(Expand(Loaded))
    BY <1>1, <2>3 DEF RunReset, Start
  <2>4. CASE RunAgents
    BY <1>1, <2>4 DEF RunAgents, Start
  <2> QED BY <1>3, <2>1, <2>2, <2>3, <2>4
<1>4. CASE Store \/ Refuse \/ ConvergeViews \/ ServeAgents \/ Crash \/ UNCHANGED vars
  BY <1>1, <1>4 DEF Store, Refuse, ConvergeViews, ServeAgents, Crash, vars, lifeVars
<1>5. CASE WalkStories
  <2>1. org'.space = org.space
    BY <1>5, WalkIs DEF Walk, LifeKept
  <2> QED BY <2>1 DEF DeploymentsAre
<1> QED BY <1>2, <1>3, <1>4, <1>5, DeploymentsMadeAs, DeploymentsTaken DEF LifeNext

LEMMA MakeBuilds ==
  ASSUME VariantsApart, LifeKept, Builds, DeploymentsAre, Make, job.says = "up"
  PROVE  Builds' /\ said' # "up"
<1>1. PICK left : org' = Made(job.steps[at], job.model, left) /\ Outcome(left # {})
  BY DEF Make
<1>2. /\ at # 0 /\ said = "none" /\ JobOK /\ OrgOK(org) /\ StoredOK /\ Doing(ToSet(Phases))
      /\ job.steps[at] \notin {"views", "stories"} /\ UNCHANGED <<view, filter, tool>>
  BY DEF Make, Doing, LifeKept, viewVars
<1>3. /\ job.verb \in {"up", "reset"} /\ at \in Nat /\ Through \in 0 .. 8 /\ job.steps[at] = Phases[Through + 1]
      /\ at = Len(job.steps) <=> Through = 8
  BY <1>2, WhereUpIs
<1>4. Through \in 0 .. 5 \/ Through = 7
  <2>1. Phases[7] = "views" /\ Phases[9] = "stories"
    BY DEF Phases
  <2> QED BY <1>2, <1>3, <2>1
<1>5. CASE left # {}
  BY <1>1, <1>5 DEF Outcome, Ends, Builds
<1>6. CASE left = {}
  <2>1. at' = at + 1 /\ job' = job /\ said' = "none"
    <3>1. Goes
      BY <1>1, <1>6 DEF Outcome
    <3> QED BY <1>2, <1>3, <1>4, <3>1 DEF Goes
  <2>2. Defined /\ job.model = Expand(Loaded)
    BY <1>2, <1>3 DEF JobOK
  <2>3. Cloneable(job.model)
    <3>1. PICK v \in Installables : Loaded.scenario = Drafts[v].scenario
      BY <1>2, <2>2, LoadedIs
    <3> QED BY <2>2, <3>1, LoadedCloneable
  <2>4. \A c \in job.model.components : DOMAIN c.manifest # {}
    BY <1>2, <2>2, ManifestsThere
  <2>5. \A s \in Slugs(DeploymentsOf(job.model.components)) \intersect DOMAIN org.space : org.space[s] = "deployment"
    BY <1>2, <1>3, HomeOfPlan DEF DeploymentsAre
  <2>6. Built(Through, job.model, org)
    BY <1>2 DEF Builds
  <2>7. org' = Made(Phases[Through + 1], job.model, {})
    BY <1>1, <1>3, <1>6
  <2>8. Built(Through + 1, job.model, org')
    <3> HIDE DEF Through
    <3>1. CASE Through \in 0 .. 5
      BY <1>2, <3>1, <2>3, <2>4, <2>5, <2>6, <2>7, PhaseBuilds
    <3>2. CASE Through = 7
      <4>1. org' = org
        BY <2>7, <3>2 DEF Made, Phases
      <4> QED BY <2>6, <3>2, <4>1 DEF Built
    <3> QED BY <1>4, <3>1, <3>2
  <2>9. Through' = Through + 1
    BY <1>3, <2>1 DEF Through
  <2>10. Through >= 6 => ViewsBuilt'
    BY <1>2, <1>4 DEF Builds, ViewsBuilt
  <2>11. Through' >= 7 => ViewsBuilt'
    <3> HIDE DEF Through
    <3> QED BY <1>4, <2>9, <2>10
  <2> QED BY <2>1, <2>8, <2>9, <2>11 DEF Builds
<1> QED BY <1>5, <1>6

LEMMA ViewsBuild ==
  ASSUME LifeKept, Builds, ConvergeViews, job.says = "up", ViewsCurrent, ViewsTypeOK
  PROVE  Builds' /\ said' # "up"
<1>1. at # 0 /\ said = "none" /\ JobOK /\ Doing({"views"}) /\ UNCHANGED <<org, stored>>
  BY DEF ConvergeViews, Doing, LifeKept
<1>2. /\ job.verb \in {"up", "reset"} /\ at \in Nat /\ Through = 6 /\ at # Len(job.steps)
  <2>1. "views" \in ToSet(Phases)
    BY DEF ToSet, Phases
  <2>2. Doing(ToSet(Phases)) /\ job.steps[at] = "views"
    BY <1>1, <2>1 DEF Doing
  <2>3. /\ job.verb \in {"up", "reset"} /\ at \in Nat /\ Through \in 0 .. 8 /\ job.steps[at] = Phases[Through + 1]
        /\ at = Len(job.steps) <=> Through = 8
    BY <1>1, <2>2, WhereUpIs
  <2>4. /\ Phases[1] # "views" /\ Phases[2] # "views" /\ Phases[3] # "views"
        /\ Phases[4] # "views" /\ Phases[5] # "views" /\ Phases[6] # "views"
        /\ Phases[8] # "views" /\ Phases[9] # "views"
    BY DEF Phases
  <2>5. \A i \in 0 .. 8 : i = 0 \/ i = 1 \/ i = 2 \/ i = 3 \/ i = 4 \/ i = 5 \/ i = 6 \/ i = 7 \/ i = 8
    OBVIOUS
  <2> HIDE DEF Through
  <2> QED BY <2>2, <2>3, <2>4, <2>5
<1>3. CASE UNCHANGED <<job, at, said, events>>
  <2>1. UNCHANGED <<Through, job, at, said, org>>
    BY <1>1, <1>3 DEF Through
  <2>2. Through' = 6
    BY <1>2, <2>1
  <2> QED BY <1>1, <2>1, <2>2 DEF Builds
<1>4. CASE turn > Views /\ ViewsStop /\ Goes
  <2>1. at' = at + 1 /\ job' = job /\ said' = "none"
    BY <1>1, <1>2, <1>4 DEF Goes
  <2>2. Through' = 7
    BY <1>2, <2>1 DEF Through
  <2>3. Built(7, job.model, org)
    BY <1>1, <1>2 DEF Builds, Built
  <2>4. view' = view /\ filter' = filter /\ tool' = tool
    BY <1>4 DEF ViewsStop
  <2>5. view = [v \in 1 .. Views |-> {Definition[tool][v]}]
    <3>1. \A v \in 1 .. Views : view[v] = {Definition[tool][v]}
      BY <1>4, DefinitionAssumption DEF ViewsCurrent, ViewsTypeOK
    <3> QED BY <3>1 DEF ViewsTypeOK
  <2>6. filter = [v \in 1 .. Views |-> {Definition[tool][v].query}]
    <3>1. ASSUME NEW v \in 1 .. Views PROVE filter[v] = {Definition[tool][v].query}
      <4>1. view[v] = {Definition[tool][v]}
        BY <2>5
      <4>2. filter[v] = {d.query : d \in view[v]}
        BY <4>1 DEF ViewsCurrent
      <4> QED BY <4>1, <4>2
    <3> QED BY <3>1 DEF ViewsTypeOK
  <2>7. ViewsBuilt'
    BY <2>4, <2>5, <2>6 DEF ViewsBuilt
  <2>8. Built(7, job.model, org)'
    BY <1>1, <2>1, <2>3
  <2> QED BY <2>1, <2>2, <2>7, <2>8 DEF Builds
<1>5. CASE Outcome(TRUE)
  BY <1>5 DEF Outcome, Ends, Builds
<1> QED BY <1>3, <1>4, <1>5 DEF ConvergeViews

\* A deployment keeps its Component and its class from draft to draft; the code
\* does not look: a story publishes by the labels a deployment was cloned with,
\* and reports by the definition.
StagesKept == \A d, e \in Deployed : d.slug = e.slug => d.from = e.from

LEMMA LoadedDeployed == ASSUME StoredOK, Defined PROVE DeploymentsOf(Expand(Loaded).components) \subseteq Deployed
<1> SUFFICES ASSUME NEW d \in DeploymentsOf(Expand(Loaded).components) PROVE d \in Deployed
  OBVIOUS
<1>1. PICK v \in Installables : Loaded.scenario = Drafts[v].scenario
  BY LoadedIs
<1>2. PICK n \in Expand(Loaded).components : d \in n.deployments
  BY DEF DeploymentsOf
<1>3. PICK c \in ToSet(AllComponents(Loaded.scenario)) : n = Component(Loaded, c)
  BY ExpandIs, Zenon
<1>4. Component(Loaded, c).deployments = Component(Drafts[v], c).deployments
  BY <1>1 DEF Component
<1>5. Component(Drafts[v], c) \in Expand(Drafts[v]).components
  BY <1>1, <1>3, ExpandIs
<1>6. Plans[v] = Expand(Drafts[v])
  BY DEF Plans
<1> QED BY <1>2, <1>3, <1>4, <1>5, <1>6 DEF Deployed, DeploymentsOf

\* What a walk publishes of a plan, it reports on.
LEMMA WalkedToldOf ==
  ASSUME StagesKept, NEW m, DeploymentsOf(Ready(m)) \subseteq Deployed,
         NEW s \in Slugs(DeploymentsOf(Ready(m))), Walkers(m, s) # {}
  PROVE  s \in StorySpaces(m)
<1>1. PICK i \in DOMAIN m.stories : s \in Labelled(m.stories[i].bases)
  BY DEF Walkers
<1>2. PICK d \in Deployed : d.slug = s /\ d.from \in m.stories[i].bases
  BY <1>1 DEF Labelled
<1>3. PICK e \in DeploymentsOf(Ready(m)) : e.slug = s
  BY DEF Slugs
<1>4. e.from = d.from
  BY <1>2, <1>3 DEF StagesKept
<1>5. e.from \in StoryBases(m)
  BY <1>2, <1>4 DEF StoryBases
<1> QED BY <1>3, <1>5 DEF StorySpaces

LEMMA StoriesBuild ==
  ASSUME StagesKept, LifeKept, Builds, WalkStories, job.says = "up"
  PROVE  Builds' /\ EndsBuilt'
<1>1. at # 0 /\ said = "none" /\ JobOK /\ StoredOK /\ OrgOK(org) /\ job.steps[at] = "stories" /\ Doing(ToSet(Phases))
  BY WalkDoing DEF LifeKept
<1>2. PICK walked, told : Walk(walked, told)
  BY <1>1, WalkIs
<1>3. job.verb \in {"up", "reset"} /\ Through = 8 /\ at = Len(job.steps)
  <2>1. /\ job.verb \in {"up", "reset"} /\ Through \in 0 .. 8 /\ job.steps[at] = Phases[Through + 1]
        /\ at = Len(job.steps) <=> Through = 8
    BY <1>1, WhereUpIs
  <2>2. /\ Phases[1] # "stories" /\ Phases[2] # "stories" /\ Phases[3] # "stories" /\ Phases[4] # "stories"
        /\ Phases[5] # "stories" /\ Phases[6] # "stories" /\ Phases[7] # "stories" /\ Phases[8] # "stories"
    BY DEF Phases
  <2>3. \A i \in 0 .. 8 : i = 0 \/ i = 1 \/ i = 2 \/ i = 3 \/ i = 4 \/ i = 5 \/ i = 6 \/ i = 7 \/ i = 8
    OBVIOUS
  <2> HIDE DEF Through
  <2> QED BY <1>1, <2>1, <2>2, <2>3
<1>4. CASE Ends("none")
  BY <1>4 DEF Ends, Builds, EndsBuilt
<1>5. CASE walked \intersect StorySpaces(job.model) \subseteq told /\ Goes
  <2> DEFINE m == job.model
  <2>1. Defined /\ m = Expand(Loaded)
    BY <1>1, <1>3 DEF JobOK
  <2>2. Built(6, m, org) /\ ViewsBuilt
    BY <1>1, <1>3 DEF Builds, Built
  <2>3. Grown(org, org')
    BY <1>2 DEF Walk, Grown
  <2>4. DeploymentsOf(Ready(m)) \subseteq Deployed
    <3>1. DeploymentsOf(m.components) \subseteq Deployed
      BY <1>1, <2>1, LoadedDeployed
    <3> QED BY <3>1 DEF DeploymentsOf, Ready
  <2> HIDE DEF m
  <2>5. ReportsBuilt(m, org')
    <3> SUFFICES ASSUME NEW s \in Slugs(DeploymentsOf({c \in Ready(m) : c.painted})), s \in DOMAIN org'.releases
                 PROVE  s \in org'.reported
      BY DEF ReportsBuilt
    <3>1. org'.reported = (org.reported \ walked) \union told /\ DOMAIN org'.releases = walked \union DOMAIN org.releases
      BY <1>2 DEF Walk
    <3>2. CASE s \in walked
      <4>1. Walkers(m, s) # {}
        BY <1>2, <3>2 DEF Walk, m
      <4>2. s \in Slugs(DeploymentsOf(Ready(m)))
        BY DEF Slugs, DeploymentsOf
      <4>3. s \in StorySpaces(m)
        BY <2>4, <4>1, <4>2, WalkedToldOf
      <4> QED BY <1>5, <3>1, <3>2, <4>3 DEF m
    <3>3. CASE s \notin walked
      <4>1. s \in org.reported
        BY <2>2, <3>1, <3>3 DEF Built, ReportsBuilt
      <4> QED BY <3>1, <3>3, <4>1
    <3> QED BY <3>2, <3>3
  <2>6. Built(6, m, org')
    BY <2>2, <2>3, <2>5, GrownKeeps DEF Built
  <2>7. UNCHANGED <<stored, view, filter, tool>>
    BY DEF WalkStories, viewVars
  <2>8. BuiltWhole'
    <3>1. Defined' /\ Expand(Loaded)' = m
      BY <2>1, <2>7, ReadSame
    <3>2. ViewsBuilt'
      BY <2>2, <2>7 DEF ViewsBuilt
    <3>3. Built(6, Expand(Loaded), org)'
      BY <2>6, <3>1
    <3> QED BY <3>1, <3>2, <3>3 DEF BuiltWhole
  <2>9. at' = 0
    BY <1>3, <1>5 DEF Goes, Ends
  <2> QED BY <2>8, <2>9 DEF Builds, EndsBuilt
<1> QED BY <1>2, <1>4, <1>5 DEF Walk

LEMMA TakesBeforeBuilding ==
  ASSUME LifeKept, Builds, TearDown, job.says = "up"
  PROVE  Builds' /\ said' # "up"
<1>1. PICK failed : Outcome(failed)
  BY DEF TearDown
<1>2. at # 0 /\ said = "none" /\ JobOK /\ Doing(ToSet(Groups))
  BY DEF TearDown, Doing, LifeKept
<1>3. /\ job.verb \in {"up", "reset"} /\ at \in Nat /\ Through \in Int /\ Through < 0
      /\ at # Len(job.steps)
  BY <1>2, WhereUpIs
<1>4. CASE failed
  BY <1>1, <1>4 DEF Outcome, Ends, Builds
<1>5. CASE ~failed
  <2>1. at' = at + 1 /\ job' = job /\ said' = "none"
    BY <1>1, <1>2, <1>3, <1>5 DEF Outcome, Goes
  <2>2. Through' = Through + 1
    BY <1>3, <2>1 DEF Through
  <2>3. Through' < 1 /\ Through' \in Int
    BY <1>3, <2>2
  <2> QED BY <2>1, <2>3 DEF Builds, Built
<1> QED BY <1>4, <1>5

LEMMA BuildsStep ==
  ASSUME VariantsApart, StagesKept, LifeKept, Builds, DeploymentsAre, EndsBuilt, ViewsCurrent, ViewsTypeOK, [LifeNext]_vars
  PROVE  Builds' /\ EndsBuilt'
<1>1. ASSUME at' = 1, said' = "none" PROVE Builds' /\ EndsBuilt'
  <2> SUFFICES ASSUME job'.says = "up" PROVE Built(Through, job.model, org)' /\ (Through >= 7 => ViewsBuilt)'
    BY <1>1 DEF Builds, EndsBuilt
  <2>1. Through' \in {0, -6}
    BY <1>1 DEF Through
  <2> QED BY <2>1 DEF Built
<1>2. ASSUME at' = 0, said' # "up" PROVE Builds' /\ EndsBuilt'
  BY <1>2 DEF Builds, EndsBuilt
<1>3. ASSUME at # 0, job.says # "up", Proceeds
      PROVE  Builds' /\ EndsBuilt'
  <2>1. said = "none"
    BY <1>3 DEF LifeKept
  <2> QED BY <1>3, <2>1 DEF Proceeds, Goes, Ends, Builds, EndsBuilt
<1>4. CASE \E v \in Draft : Install(v)
  BY <1>1, <1>4 DEF Install, Start
<1>5. CASE at = 0 /\ Defined /\ LET model == Expand(Loaded) IN
             RunUp(model) \/ RunDown(model) \/ RunReset(model) \/ RunAgents
  <2>1. CASE RunUp(Expand(Loaded))
    BY <1>1, <2>1 DEF RunUp, Start
  <2>2. CASE RunDown(Expand(Loaded))
    BY <1>1, <2>2 DEF RunDown, Start
  <2>3. CASE RunReset(Expand(Loaded))
    BY <1>1, <2>3 DEF RunReset, Start
  <2>4. CASE RunAgents
    BY <1>1, <2>4 DEF RunAgents, Start
  <2> QED BY <1>5, <2>1, <2>2, <2>3, <2>4
<1>6. CASE Store
  <2>1. at # 0 /\ job.verb = "install" /\ Proceeds
    BY <1>6, OutcomeProceeds DEF Store
  <2>2. job.says # "up"
    BY <2>1 DEF LifeKept, JobOK
  <2> QED BY <1>3, <2>1, <2>2
<1>7. CASE Make \/ ConvergeViews \/ WalkStories \/ TearDown \/ ServeAgents
  <2>1. at # 0 /\ Proceeds
    BY <1>7, OutcomeProceeds DEF Make, ConvergeViews, WalkStories, TearDown, ServeAgents, Doing, Proceeds
  <2>2. CASE job.says # "up"
    BY <1>3, <2>1, <2>2
  <2>3. CASE job.says = "up"
    <3>1. CASE ServeAgents
      BY <2>1, <2>3, <3>1, WhereUpIs DEF ServeAgents, LifeKept
    <3>2. CASE Make
      BY <2>3, <3>2, MakeBuilds DEF EndsBuilt
    <3>3. CASE TearDown
      BY <2>3, <3>3, TakesBeforeBuilding DEF EndsBuilt
    <3>4. CASE ConvergeViews
      BY <2>3, <3>4, ViewsBuild DEF EndsBuilt
    <3>5. CASE WalkStories
      BY <2>3, <3>5, StoriesBuild
    <3> QED BY <1>7, <3>1, <3>2, <3>3, <3>4, <3>5
  <2> QED BY <2>2, <2>3
<1>8. CASE Refuse \/ Crash
  BY <1>2, <1>8 DEF Refuse, Crash, Outcome, Ends
<1>9. CASE UNCHANGED vars
  <2>1. UNCHANGED <<stored, org, job, at, said, view, filter, tool>>
    BY <1>9 DEF vars, lifeVars, viewVars
  <2>2. Loaded' = Loaded /\ (Defined' <=> Defined)
    BY <2>1, ReadSame
  <2>3. Builds'
    BY <2>1 DEF Builds, Through, ViewsBuilt
  <2>4. BuiltWhole => BuiltWhole'
    BY <2>1, <2>2 DEF BuiltWhole, ViewsBuilt
  <2> QED BY <2>1, <2>3, <2>4 DEF EndsBuilt
<1> QED BY <1>4, <1>5, <1>6, <1>7, <1>8, <1>9 DEF LifeNext

\* "Everything the implemented phases create exists" (cmd/status.go): of an up
\* or a reset that got through, however often one was cut short before it and
\* by whichever definitions the org was grown: every space, target, entity and
\* unit of the plan, a Release for each deployment that is to have one, the
\* reports, and every view as this version defines it.
THEOREM UpBuildsWhole ==
  ASSUME VariantsApart, DeploymentsApart, StagesKept PROVE LifeSpec => [](said = "up" => BuiltWhole)
<1>1. LifeInit => Builds /\ EndsBuilt /\ DeploymentsAre
  BY DEF LifeInit, Builds, EndsBuilt, DeploymentsAre, NoOrg
<1>2. LifeKept /\ DeploymentsAre /\ [LifeNext]_vars => DeploymentsAre'
  BY DeploymentsStep
<1>3. LifeKept /\ Builds /\ DeploymentsAre /\ EndsBuilt /\ ViewsCurrent /\ ViewsTypeOK /\ [LifeNext]_vars
        => Builds' /\ EndsBuilt'
  BY BuildsStep
<1>4. LifeSpec => []ViewsTypeOK
  BY LifeConvergesViews, ViewsTypeCorrect, PTL
<1> QED BY <1>1, <1>2, <1>3, <1>4, LifeKeepsViews, KeptInit, KeptStep, PTL DEF LifeSpec, EndsBuilt

-----------------------------------------------------------------------------
(* How many: what status and plan count *)

\* A set is as large as what it is mapped to, one to one.
LEMMA ImageCount ==
  ASSUME NEW S, IsFiniteSet(S), NEW f, DOMAIN f = S, f = [x \in S |-> f[x]],
         \A x, y \in S : f[x] = f[y] => x = y
  PROVE  /\ IsFiniteSet({f[x] : x \in S})
         /\ Cardinality({f[x] : x \in S}) = Cardinality(S)
<1> DEFINE T == {f[x] : x \in S}
<1>1. f \in [S -> T]
  OBVIOUS
<1>2. f \in Surjection(S, T)
  BY <1>1 DEF Surjection
<1>3. f \in Injection(S, T)
  BY <1>1 DEF Injection, IsInjective
<1> QED BY <1>2, <1>3, FS_Surjection

LEMMA ImageFinite ==
  ASSUME NEW S, IsFiniteSet(S), NEW f, DOMAIN f = S, f = [x \in S |-> f[x]]
  PROVE  IsFiniteSet({f[x] : x \in S})
<1> DEFINE T == {f[x] : x \in S}
<1>1. f \in [S -> T]
  OBVIOUS
<1>2. f \in Surjection(S, T)
  BY <1>1 DEF Surjection
<1> QED BY <1>2, FS_Surjection

LEMMA NamesFinite ==
  ASSUME NEW C, IsFiniteSet(C)
  PROVE  /\ IsFiniteSet({c.name : c \in C}) /\ IsFiniteSet({c.root : c \in C}) /\ IsFiniteSet(Slugs(C))
<1>1. IsFiniteSet({c.name : c \in C})
  <2> DEFINE f == [c \in C |-> c.name]
  <2>1. {f[c] : c \in C} = {c.name : c \in C}
    OBVIOUS
  <2>2. IsFiniteSet({f[c] : c \in C})
    BY ImageFinite
  <2> QED BY <2>1, <2>2
<1>2. IsFiniteSet({c.root : c \in C})
  <2> DEFINE f == [c \in C |-> c.root]
  <2>1. {f[c] : c \in C} = {c.root : c \in C}
    OBVIOUS
  <2>2. IsFiniteSet({f[c] : c \in C})
    BY ImageFinite
  <2> QED BY <2>1, <2>2
<1>3. IsFiniteSet(Slugs(C))
  <2> DEFINE f == [c \in C |-> c.slug]
  <2>1. {f[c] : c \in C} = Slugs(C)
    BY DEF Slugs
  <2>2. IsFiniteSet({f[c] : c \in C})
    BY ImageFinite
  <2> QED BY <2>1, <2>2
<1> QED BY <1>1, <1>2, <1>3

LEMMA MembersFinite == ASSUME NEW S, NEW seq \in Seq(S) PROVE IsFiniteSet(ToSet(seq)) /\ IsFiniteSet(Named(seq))
<1>1. IsFiniteSet(DOMAIN seq)
  BY FS_Interval
<1>2. IsFiniteSet(ToSet(seq))
  <2>1. {seq[i] : i \in DOMAIN seq} = ToSet(seq)
    BY DEF ToSet
  <2>2. seq = [i \in DOMAIN seq |-> seq[i]]
    OBVIOUS
  <2> QED BY <1>1, <2>1, <2>2, ImageFinite
<1>3. IsFiniteSet(Named(seq))
  <2>1. Named(seq) = {c.name : c \in ToSet(seq)}
    BY DEF Named, ToSet
  <2> QED BY <1>2, <2>1, NamesFinite
<1> QED BY <1>2, <1>3

LEMMA UnionFinite ==
  ASSUME NEW C, IsFiniteSet(C), NEW f, DOMAIN f = C, f = [c \in C |-> f[c]], \A c \in C : IsFiniteSet(f[c])
  PROVE  IsFiniteSet(UNION {f[c] : c \in C})
<1>1. IsFiniteSet({f[c] : c \in C})
  BY ImageFinite
<1>2. \A T \in {f[c] : c \in C} : IsFiniteSet(T)
  OBVIOUS
<1> QED BY <1>1, <1>2, FS_UNION

\* A share of a list is of its members.
LEMMA ShareBound == ASSUME NEW a \in Nat, NEW p \in 0 .. 100 PROVE (a * p) \div 100 \in 0 .. a
<1>1. a * p \in Nat /\ a * p <= a * 100
  <2>1. p \in Nat /\ p <= 100
    OBVIOUS
  <2>2. a * p \in Nat
    BY <2>1
  <2>3. a * (100 - p) \in Nat
    BY <2>1
  <2>4. a * (100 - p) = a * 100 - a * p
    BY <2>1
  <2> QED BY <2>2, <2>3, <2>4
<1> DEFINE n == a * p
<1>2. n \in Nat /\ n <= 100 * a
  BY <1>1
<1> HIDE DEF n
<1>3. n \div 100 \in 0 .. a
  BY <1>2
<1> QED BY <1>3 DEF n

LEMMA SharesOf ==
  ASSUME NEW S, NEW seq \in Seq(S), NEW p \in 0 .. 100
  PROVE  Rest(seq, p) \in Seq(S) /\ Taken(seq, p) \in Seq(S)
<1> DEFINE n == Take(seq, p)
<1>1. n \in 0 .. Len(seq)
  BY ShareBound DEF Take
<1> HIDE DEF n
<1>2. SubSeq(seq, n + 1, Len(seq)) \in Seq(S)
  <2>1. \A i \in n + 1 .. Len(seq) : seq[i] \in S
    BY <1>1
  <2> QED BY <1>1, <2>1, SubSeqProperties
<1>3. SubSeq(seq, 1, n) \in Seq(S)
  <2>1. \A i \in 1 .. n : seq[i] \in S
    BY <1>1
  <2> QED BY <1>1, <2>1, SubSeqProperties
<1> QED BY <1>2, <1>3 DEF Rest, Taken, n

LEMMA UnreleasedOf ==
  ASSUME NEW s, NEW S, Shuffle(S, s.seed) \in Seq(S),
         {s.degraded, s.outOfSync, s.progressing, s.unreleased} \subseteq 0 .. 100
  PROVE  Unreleased(s, S) \subseteq S
<1> DEFINE all == Shuffle(S, s.seed)
           a == Rest(all, s.degraded)
           b == Rest(a, s.outOfSync)
           healthy == Rest(b, s.progressing)
           taken == Taken(healthy, s.unreleased)
<1>1. a \in Seq(S)
  <2> HIDE DEF all
  <2>1. all \in Seq(S) /\ s.degraded \in 0 .. 100
    BY DEF all
  <2> QED BY <2>1, SharesOf
<1> HIDE DEF a
<1>2. b \in Seq(S)
  BY <1>1, SharesOf
<1> HIDE DEF b
<1>3. healthy \in Seq(S)
  BY <1>2, SharesOf
<1> HIDE DEF healthy
<1>4. taken \in Seq(S)
  BY <1>3, SharesOf
<1> HIDE DEF taken
<1>5. ToSet(taken) \subseteq S
  BY <1>4 DEF ToSet
<1> QED BY <1>5 DEF taken, healthy, b, a, all, Unreleased

\* A set is no larger than a finite one it is mapped into, one to one.
LEMMA MapsInto ==
  ASSUME NEW S, NEW T, IsFiniteSet(T), NEW f, DOMAIN f = S, f = [x \in S |-> f[x]],
         \A x \in S : f[x] \in T, \A x, y \in S : f[x] = f[y] => x = y
  PROVE  IsFiniteSet(S) /\ Cardinality(S) <= Cardinality(T)
<1>1. f \in [S -> T]
  OBVIOUS
<1>2. f \in Injection(S, T)
  BY <1>1 DEF Injection, IsInjective
<1> QED BY <1>2, FS_Injection

\* No root base has the slug of another, or of a class base.
RootsApart ==
  \A v \in Installables :
    LET s == Drafts[v].scenario IN
    \A c, d \in ToSet(AllComponents(s)) :
      /\ RootSpace(c.name) = RootSpace(d.name) => c.name = d.name
      /\ \A k \in Clusters(s) : RootSpace(c.name) # Variant(d.name, k.class)

\* The spaces that components take their units in, each by what it is.
Kept(c) == {<<"root", [slug |-> c.root]>>} \union ({"base"} \X c.bases) \union ({"deployment"} \X c.deployments)
Apart(C) == \A c, d \in C : \A x \in Kept(c), y \in Kept(d) : x[2].slug = y[2].slug => c = d /\ x = y
UnitsListed(c) ==
  /\ IsInjective(c.units) /\ Len(c.units) \in Nat /\ DOMAIN c.units = 1 .. Len(c.units)
  /\ \A i \in 1 .. Len(c.units) : c.units[i] \in DOMAIN c.manifest
  /\ \A n \in DOMAIN c.manifest : \E i \in 1 .. Len(c.units) : c.units[i] = n
ClustersNamed(m) == \A k, l \in m.clusters : k.name = l.name => k = l

LEMMA ComponentsListed ==
  ASSUME NEW v \in Installables, NEW s, s = Drafts[v].scenario
  PROVE  /\ AllComponents(s) \in Seq(ToSet(s.catalog) \union ToSet(s.workloads))
         /\ \A c \in ToSet(AllComponents(s)) : c.external \in Seq(ToSet(c.external))
         /\ IsFiniteSet(ToSet(AllComponents(s))) /\ IsFiniteSet(Clusters(s))
<1> DEFINE S == ToSet(s.catalog) \union ToSet(s.workloads)
<1>1. v \in DOMAIN Drafts
  BY DEF Installables, Draft
<1>2. /\ s.catalog \in Seq(ToSet(s.catalog)) /\ s.workloads \in Seq(ToSet(s.workloads))
      /\ \A c \in S : c.external \in Seq(ToSet(c.external))
      /\ IsFiniteSet(Clusters(s))
  BY <1>1, ListsAssumption
<1>3. s.catalog \in Seq(S) /\ s.workloads \in Seq(S)
  <2>1. \A i \in 1 .. Len(s.catalog) : s.catalog[i] \in ToSet(s.catalog)
    BY <1>2
  <2>2. \A i \in 1 .. Len(s.workloads) : s.workloads[i] \in ToSet(s.workloads)
    BY <1>2
  <2> QED BY <1>2, <2>1, <2>2
<1> HIDE DEF S
<1>4. AllComponents(s) \in Seq(S)
  BY <1>3, ConcatProperties, Zenon DEF AllComponents
<1> DEFINE all == AllComponents(s)
<1> HIDE DEF all
<1>5. all \in Seq(S)
  BY <1>4 DEF all
<1>6. ToSet(all) \subseteq S
  BY <1>5 DEF ToSet
<1>7. IsFiniteSet(ToSet(all))
  BY <1>5, MembersFinite
<1> QED BY <1>2, <1>4, <1>6, <1>7 DEF all, S

LEMMA UnitsOfComponent ==
  ASSUME StoredOK, Defined, NEW m \in Expand(Loaded).components
  PROVE  UnitsListed(m)
<1>1. PICK c \in ToSet(AllComponents(Loaded.scenario)) : m = Component(Loaded, c)
  BY ExpandIs
<1> DEFINE units == Loaded.specs[c.dir].units
           own == NamesOf(units)
           other == NamesOf(c.external)
           both == own \o other
           N == Named(units) \union Named(c.external)
<1>2. UnitsAccepted(Loaded.specs[c.dir], c) /\ units \in Seq(ToSet(units))
  BY LoadedSpecs
<1>3. c.external \in Seq(ToSet(c.external))
  BY LoadedIs, ComponentsListed
<1>4. own \in Seq(N)
  <2> HIDE DEF units
  <2> QED BY <1>2 DEF NamesOf, Named
<1>5. other \in Seq(N)
  BY <1>3 DEF NamesOf, Named
<1>6. IsInjective(both)
  BY <1>2 DEF UnitsAccepted
<1>7. m.units = both /\ DOMAIN m.manifest = N
  BY <1>1 DEF Component
<1>10. \A n \in N : (\E i \in DOMAIN own : own[i] = n) \/ (\E i \in DOMAIN other : other[i] = n)
  <2> HIDE DEF units
  <2> QED BY DEF NamesOf, Named
<1> HIDE DEF own, other, N
<1>8. /\ both \in Seq(N) /\ Len(both) = Len(own) + Len(other)
      /\ \A i \in 1 .. Len(own) + Len(other) : both[i] = IF i <= Len(own) THEN own[i] ELSE other[i - Len(own)]
  BY <1>4, <1>5, ConcatProperties, Zenon
<1> HIDE DEF both
<1>9. Len(both) \in Nat /\ DOMAIN both = 1 .. Len(both) /\ \A i \in 1 .. Len(both) : both[i] \in N
  BY <1>8
<1>11. ASSUME NEW n \in N PROVE \E i \in 1 .. Len(both) : both[i] = n
  <2>1. CASE \E i \in DOMAIN own : own[i] = n
    <3>1. PICK i \in 1 .. Len(own) : own[i] = n
      BY <1>4, <2>1
    <3>2. i \in 1 .. Len(own) + Len(other) /\ i <= Len(own)
      BY <1>4, <1>5
    <3> QED BY <1>8, <3>1, <3>2
  <2>2. CASE \E i \in DOMAIN other : other[i] = n
    <3>1. PICK i \in 1 .. Len(other) : other[i] = n
      BY <1>5, <2>2
    <3> DEFINE j == Len(own) + i
    <3>2. j \in 1 .. Len(own) + Len(other) /\ ~(j <= Len(own)) /\ j - Len(own) = i
      BY <1>4, <1>5
    <3> HIDE DEF j
    <3> QED BY <1>8, <3>1, <3>2
  <2> QED BY <1>10, <2>1, <2>2
<1> QED BY <1>6, <1>7, <1>9, <1>11 DEF UnitsListed

LEMMA ClustersAreNamed == ASSUME Defined PROVE ClustersNamed(Expand(Loaded))
<1> DEFINE list == ClusterList(Loaded.scenario)
<1>1. IsInjective(NamesOf(list))
  BY DEF Defined, Readable, Expandable, Loaded
<1>2. Expand(Loaded).clusters = ToSet(list)
  BY ExpandIs DEF Clusters
<1> HIDE DEF list
<1>3. ASSUME NEW i \in DOMAIN list, NEW j \in DOMAIN list, list[i].name = list[j].name PROVE i = j
  BY <1>1, <1>3 DEF IsInjective, NamesOf
<1>4. \A k, l \in ToSet(list) : k.name = l.name => k = l
  BY <1>3 DEF ToSet
<1> QED BY <1>2, <1>4 DEF ClustersNamed

\* Two components of a scenario that is loaded have two names.
LEMMA NamesTell ==
  ASSUME Defined, NEW c \in ToSet(AllComponents(Loaded.scenario)), NEW d \in ToSet(AllComponents(Loaded.scenario)),
         c.name = d.name
  PROVE  c = d
<1> DEFINE all == AllComponents(Loaded.scenario)
<1>1. IsInjective(NamesOf(all))
  BY DEF Defined, Readable, Accepted, ComponentsAccepted, Loaded
<1> HIDE DEF all
<1>2. PICK i \in DOMAIN all : c = all[i]
  BY DEF ToSet, all
<1>3. PICK j \in DOMAIN all : d = all[j]
  BY DEF ToSet, all
<1>4. i = j
  BY <1>1, <1>2, <1>3 DEF IsInjective, NamesOf
<1> QED BY <1>2, <1>3, <1>4

LEMMA SpacesAreApart ==
  ASSUME StoredOK, Defined, VariantsApart, DeploymentsApart, RootsApart
  PROVE  Apart(Expand(Loaded).components)
<1>1. PICK v \in Installables : Loaded.scenario = Drafts[v].scenario
  BY LoadedIs
<1> DEFINE s == Loaded.scenario
           all == ToSet(AllComponents(s))
           on(c) == {k \in Clusters(s) : PlacedOn(c.placement, k)}
           base(c, k) == [slug |-> Variant(c.name, k.class), from |-> RootSpace(c.name)]
           deployment(c, k) == [slug |-> Variant(c.name, k.name), from |-> Variant(c.name, k.class)]
<1>2. ASSUME NEW m \in Expand(Loaded).components
      PROVE  \E c \in all :
               /\ m = Component(Loaded, c) /\ m.root = RootSpace(c.name)
               /\ m.bases = {base(c, k) : k \in on(c)} /\ m.deployments = {deployment(c, k) : k \in on(c)}
  <2>1. PICK c \in all : m = Component(Loaded, c)
    BY ExpandIs
  <2>2. /\ m.root = RootSpace(c.name)
        /\ m.bases = {base(c, k) : k \in on(c)}
        /\ m.deployments = {deployment(c, k) : k \in on(c)}
    BY <2>1 DEF Component
  <2> QED BY <2>1, <2>2
<1>3. ASSUME NEW c \in all, NEW d \in all, NEW k \in Clusters(s), NEW l \in Clusters(s)
      PROVE  /\ RootSpace(c.name) = RootSpace(d.name) => c.name = d.name
             /\ RootSpace(c.name) # Variant(d.name, k.class)
             /\ Variant(c.name, k.class) = Variant(d.name, l.class) => c.name = d.name
             /\ Variant(c.name, k.name) = Variant(d.name, l.name) => c.name = d.name /\ k.class = l.class
             /\ Variant(c.name, k.name) \notin {RootSpace(d.name), Variant(d.name, l.class)}
  <2>1. /\ RootSpace(c.name) = RootSpace(d.name) => c.name = d.name
        /\ RootSpace(c.name) # Variant(d.name, k.class)
    BY <1>1 DEF RootsApart
  <2>2. /\ Variant(c.name, k.class) = Variant(d.name, l.class) => c.name = d.name
        /\ Variant(c.name, k.name) = Variant(d.name, l.name) => c.name = d.name /\ k.class = l.class
    BY <1>1 DEF VariantsApart
  <2>3. Variant(c.name, k.name) \in DeploymentSlugs(s)
    BY DEF DeploymentSlugs
  <2>4. RootSpace(d.name) \in OtherSlugs(s) /\ Variant(d.name, l.class) \in OtherSlugs(s)
    BY DEF OtherSlugs
  <2>5. DeploymentSlugs(s) \intersect OtherSlugs(s) = {}
    BY <1>1 DEF DeploymentsApart
  <2> QED BY <2>1, <2>2, <2>3, <2>4, <2>5
<1>4. ASSUME NEW c \in all, NEW d \in all
      PROVE  RootSpace(c.name) = RootSpace(d.name) => c.name = d.name
  BY <1>1 DEF RootsApart
<1>5. ASSUME NEW m \in Expand(Loaded).components, NEW n \in Expand(Loaded).components,
             NEW x \in Kept(m), NEW y \in Kept(n), x[2].slug = y[2].slug
      PROVE  m = n /\ x = y
  <2>1. PICK c \in all : /\ m = Component(Loaded, c) /\ m.root = RootSpace(c.name)
                         /\ m.bases = {base(c, k) : k \in on(c)}
                         /\ m.deployments = {deployment(c, k) : k \in on(c)}
    BY <1>2
  <2>2. PICK d \in all : /\ n = Component(Loaded, d) /\ n.root = RootSpace(d.name)
                         /\ n.bases = {base(d, k) : k \in on(d)}
                         /\ n.deployments = {deployment(d, k) : k \in on(d)}
    BY <1>2
  <2> DEFINE isRoot(z, e) == z = <<"root", [slug |-> RootSpace(e.name)]>>
             isBase(z, e) == \E k \in Clusters(s) : z = <<"base", base(e, k)>>
             isDeployment(z, e) == \E k \in Clusters(s) : z = <<"deployment", deployment(e, k)>>
  <2>3. isRoot(x, c) \/ isBase(x, c) \/ isDeployment(x, c)
    <3>1. x \in {<<"root", [slug |-> m.root]>>} \/ x \in {"base"} \X m.bases \/ x \in {"deployment"} \X m.deployments
      BY DEF Kept
    <3> QED BY <2>1, <3>1
  <2>4. isRoot(y, d) \/ isBase(y, d) \/ isDeployment(y, d)
    <3>1. y \in {<<"root", [slug |-> n.root]>>} \/ y \in {"base"} \X n.bases \/ y \in {"deployment"} \X n.deployments
      BY DEF Kept
    <3> QED BY <2>2, <3>1
  <2>5. \A e, k : /\ isRoot(k, e) => k[2].slug = RootSpace(e.name)
                  /\ isBase(k, e) => \E l \in Clusters(s) : k[2].slug = Variant(e.name, l.class)
                  /\ isDeployment(k, e) => \E l \in Clusters(s) : k[2].slug = Variant(e.name, l.name)
    OBVIOUS
  <2>6. isRoot(x, c) => isRoot(y, d) /\ c.name = d.name
    BY <1>3, <1>4, <1>5, <2>4
  <2>7. isBase(x, c) => isBase(y, d) /\ c.name = d.name
    BY <1>3, <1>5, <2>4
  <2>8. isDeployment(x, c) => isDeployment(y, d) /\ c.name = d.name
    BY <1>3, <1>5, <2>4
  <2>9. c = d
    BY <2>3, <2>6, <2>7, <2>8, NamesTell
  <2>10. x = y
    <3>1. CASE isRoot(x, c)
      BY <2>6, <2>9, <3>1
    <3>2. CASE isBase(x, c)
      <4>1. PICK k \in Clusters(s) : x = <<"base", base(c, k)>>
        BY <3>2
      <4>2. PICK l \in Clusters(s) : y = <<"base", base(c, l)>>
        BY <2>7, <2>9, <3>2
      <4>3. Variant(c.name, k.class) = Variant(c.name, l.class)
        BY <1>5, <4>1, <4>2
      <4> QED BY <4>1, <4>2, <4>3
    <3>3. CASE isDeployment(x, c)
      <4>1. PICK k \in Clusters(s) : x = <<"deployment", deployment(c, k)>>
        BY <3>3
      <4>2. PICK l \in Clusters(s) : y = <<"deployment", deployment(c, l)>>
        BY <2>8, <2>9, <3>3
      <4>3. Variant(c.name, k.name) = Variant(c.name, l.name)
        BY <1>5, <4>1, <4>2
      <4>4. k.class = l.class
        BY <1>3, <4>3
      <4> QED BY <4>1, <4>2, <4>3, <4>4
    <3> QED BY <2>3, <3>1, <3>2, <3>3
  <2> QED BY <2>1, <2>2, <2>9, <2>10
<1> QED BY <1>5 DEF Apart

\* A unit there is to be, as it is in the org.
Unit(x) == <<x[3][2].slug, x[1].units[x[2]]>>

LEMMA UnitsForAre ==
  ASSUME NEW C, NEW x \in UnitsFor(C)
  PROVE  x = <<x[1], x[2], x[3]>> /\ x[1] \in C /\ x[2] \in 1 .. Len(x[1].units) /\ x[3] \in Kept(x[1])
<1> DEFINE roots == UNION {{m} \X (1 .. Len(m.units)) \X {<<"root", [slug |-> m.root]>>} : m \in C}
<1>0. UnitsFor(C) = LinksFor(C) \union roots
  BY DEF UnitsFor
<1>1. CASE x \in roots
  <2>1. PICK m \in C : x \in {m} \X (1 .. Len(m.units)) \X {<<"root", [slug |-> m.root]>>}
    BY <1>1
  <2>2. x[3] \in Kept(m)
    BY <2>1 DEF Kept
  <2> QED BY <2>1, <2>2
<1>2. CASE x \in LinksFor(C)
  <2> DEFINE variants(m) == ({"base"} \X m.bases) \union ({"deployment"} \X m.deployments)
  <2>1. PICK m \in C : x \in {m} \X (1 .. Len(m.units)) \X variants(m)
    BY <1>2 DEF LinksFor
  <2>2. variants(m) \subseteq Kept(m)
    BY DEF Kept
  <2> HIDE DEF variants
  <2>3. x = <<x[1], x[2], x[3]>> /\ x[1] = m /\ x[2] \in 1 .. Len(m.units) /\ x[3] \in variants(m)
    BY <2>1
  <2> QED BY <2>2, <2>3
<1> HIDE DEF roots
<1> QED BY <1>0, <1>1, <1>2

LEMMA UnitsTold ==
  ASSUME NEW C, Apart(C), \A c \in C : UnitsListed(c), NEW x \in UnitsFor(C), NEW y \in UnitsFor(C), Unit(x) = Unit(y)
  PROVE  x = y
<1>1. /\ x = <<x[1], x[2], x[3]>> /\ x[1] \in C /\ x[2] \in 1 .. Len(x[1].units) /\ x[3] \in Kept(x[1])
      /\ y = <<y[1], y[2], y[3]>> /\ y[1] \in C /\ y[2] \in 1 .. Len(y[1].units) /\ y[3] \in Kept(y[1])
  BY UnitsForAre
<1>2. x[3][2].slug = y[3][2].slug /\ x[1].units[x[2]] = y[1].units[y[2]]
  BY DEF Unit
<1>3. x[1] = y[1] /\ x[3] = y[3]
  BY <1>1, <1>2 DEF Apart
<1>4. x[2] = y[2]
  <2> DEFINE units == x[1].units
  <2>1. IsInjective(units) /\ DOMAIN units = 1 .. Len(units)
    BY <1>1 DEF UnitsListed
  <2>2. x[2] \in 1 .. Len(units) /\ y[2] \in 1 .. Len(units) /\ units[x[2]] = units[y[2]]
    BY <1>1, <1>2, <1>3
  <2> HIDE DEF units
  <2> QED BY <2>1, <2>2 DEF IsInjective
<1> QED BY <1>1, <1>3, <1>4

\* Where every unit of every space is there, there are as many as the plan says.
LEMMA UnitsCounted ==
  ASSUME NEW C, Apart(C), \A c \in C : UnitsListed(c), NEW U, IsFiniteSet(U),
         \A c \in C : \A w \in Kept(c), u \in DOMAIN c.manifest : <<w[2].slug, u>> \in U
  PROVE  IsFiniteSet(UnitsFor(C)) /\ Cardinality(UnitsFor(C)) <= Cardinality(U)
<1> DEFINE S == UnitsFor(C)
           f == [x \in S |-> Unit(x)]
<1>1. ASSUME NEW x \in S PROVE f[x] \in U
  <2>1. x[1] \in C /\ x[2] \in 1 .. Len(x[1].units) /\ x[3] \in Kept(x[1])
    BY UnitsForAre
  <2>2. x[1].units[x[2]] \in DOMAIN x[1].manifest
    BY <2>1 DEF UnitsListed
  <2> QED BY <2>1, <2>2 DEF Unit
<1>2. \A x, y \in S : f[x] = f[y] => x = y
  BY UnitsTold
<1> HIDE DEF S
<1>3. f = [x \in S |-> f[x]] /\ DOMAIN f = S
  OBVIOUS
<1> HIDE DEF f
<1>4. IsFiniteSet(S) /\ Cardinality(S) <= Cardinality(U)
  BY <1>1, <1>2, <1>3, MapsInto
<1> QED BY <1>4 DEF S

\* What is made is finite, and a space with Releases has had at least one.
ReleasesNumbered(releases) == \A s \in DOMAIN releases : releases[s].count \in Nat \ {0}
Countable(o) ==
  /\ IsFiniteSet(o.target) /\ IsFiniteSet(DOMAIN o.unit)
  /\ IsFiniteSet(DOMAIN o.releases) /\ ReleasesNumbered(o.releases)

LEMMA ReleasesCounted ==
  ASSUME NEW R, IsFiniteSet(DOMAIN R), ReleasesNumbered(R), NEW S, S \subseteq DOMAIN R
  PROVE  LET there == UNION {{s} \X (1 .. R[s].count) : s \in DOMAIN R}
         IN  IsFiniteSet(there) /\ Cardinality(S) <= Cardinality(there)
<1> DEFINE D == DOMAIN R
           numbers(s) == {s} \X (1 .. R[s].count)
           g == [s \in D |-> numbers(s)]
           there == UNION {g[s] : s \in D}
           f == [s \in S |-> <<s, 1>>]
<1>1. ASSUME NEW s \in D PROVE IsFiniteSet(g[s]) /\ <<s, 1>> \in g[s]
  <2>1. R[s].count \in Nat \ {0}
    BY DEF ReleasesNumbered
  <2> DEFINE n == R[s].count
             h == [i \in 1 .. n |-> <<s, i>>]
  <2> HIDE DEF n
  <2>6. n \in Nat /\ n >= 1
    BY <2>1 DEF n
  <2>2. IsFiniteSet(1 .. n) /\ 1 \in 1 .. n
    BY <2>6, FS_Interval
  <2>3. {h[i] : i \in 1 .. n} = {s} \X (1 .. n)
    OBVIOUS
  <2>4. IsFiniteSet({h[i] : i \in 1 .. n})
    BY <2>2, ImageFinite
  <2>5. g[s] = {s} \X (1 .. n)
    BY DEF n
  <2> QED BY <2>2, <2>3, <2>4, <2>5
<1>2. IsFiniteSet(there)
  <2>1. DOMAIN g = D /\ g = [s \in D |-> g[s]]
    <3> HIDE DEF numbers
    <3> QED OBVIOUS
  <2> HIDE DEF g
  <2>2. IsFiniteSet(D) /\ \A s \in D : IsFiniteSet(g[s])
    BY <1>1
  <2> HIDE DEF D
  <2> QED BY <2>1, <2>2, UnionFinite
<1>3. ASSUME NEW s \in S PROVE f[s] \in there
  <2>1. s \in D /\ <<s, 1>> \in g[s]
    BY <1>1
  <2> HIDE DEF g, D
  <2>2. <<s, 1>> \in there
    BY <2>1
  <2> HIDE DEF there
  <2> QED BY <2>2
<1>4. \A x, y \in S : f[x] = f[y] => x = y
  OBVIOUS
<1>5. f = [s \in S |-> f[s]] /\ DOMAIN f = S
  OBVIOUS
<1>6. there = UNION {{s} \X (1 .. R[s].count) : s \in DOMAIN R}
  <2>1. {g[s] : s \in D} = {{s} \X (1 .. R[s].count) : s \in DOMAIN R}
    OBVIOUS
  <2> QED BY <2>1
<1>7. Cardinality(S) <= Cardinality(there)
  <2> HIDE DEF there, f
  <2> QED BY <1>2, <1>3, <1>4, <1>5, MapsInto
<1> HIDE DEF there
<1> QED BY <1>2, <1>6, <1>7

\* A plan of finitely many things.
FinitePlan(m) ==
  /\ IsFiniteSet(ClusterNames(m)) /\ IsFiniteSet(m.components)
  /\ \A c \in m.components :
       IsFiniteSet(DOMAIN c.manifest) /\ IsFiniteSet(c.bases) /\ IsFiniteSet(c.deployments)

LEMMA LoadedIsFinite == ASSUME StoredOK, Defined PROVE FinitePlan(Expand(Loaded))
<1> DEFINE m == Expand(Loaded)
           s == Loaded.scenario
           all == ToSet(AllComponents(s))
           on(c) == {k \in Clusters(s) : PlacedOn(c.placement, k)}
           base(c, k) == [slug |-> Variant(c.name, k.class), from |-> RootSpace(c.name)]
           deployment(c, k) == [slug |-> Variant(c.name, k.name), from |-> Variant(c.name, k.class)]
<1>1. PICK v \in Installables : s = Drafts[v].scenario
  BY LoadedIs
<1>2. IsFiniteSet(all) /\ IsFiniteSet(Clusters(s)) /\ \A c \in all : c.external \in Seq(ToSet(c.external))
  BY <1>1, ComponentsListed
<1>3. m.clusters = Clusters(s) /\ \A n \in m.components : \E c \in all : n = Component(Loaded, c)
  BY ExpandIs
<1>4. IsFiniteSet(ClusterNames(m))
  <2>1. ClusterNames(m) = {k.name : k \in Clusters(s)}
    BY <1>3 DEF ClusterNames
  <2> QED BY <1>2, <2>1, NamesFinite
<1>5. IsFiniteSet(m.components)
  <2> DEFINE f == [c \in all |-> Component(Loaded, c)]
  <2>1. m.components \subseteq {f[c] : c \in all}
    BY <1>3
  <2>2. IsFiniteSet({f[c] : c \in all})
    <3>1. DOMAIN f = all /\ f = [c \in all |-> f[c]]
      OBVIOUS
    <3> HIDE DEF f, all
    <3> QED BY <1>2, <3>1, ImageFinite DEF all
  <2> QED BY <2>1, <2>2, FS_Subset
<1>6. ASSUME NEW n \in m.components
      PROVE  IsFiniteSet(DOMAIN n.manifest) /\ IsFiniteSet(n.bases) /\ IsFiniteSet(n.deployments)
  <2>1. PICK c \in all : n = Component(Loaded, c)
    BY <1>3
  <2> DEFINE spec == Loaded.specs[c.dir]
  <2>2. /\ DOMAIN n.manifest = Named(spec.units) \union Named(c.external)
        /\ n.bases = {base(c, k) : k \in on(c)} /\ n.deployments = {deployment(c, k) : k \in on(c)}
    <3>1. /\ Component(Loaded, c).bases = {base(c, k) : k \in on(c)}
          /\ Component(Loaded, c).deployments = {deployment(c, k) : k \in on(c)}
      BY DEF Component
    <3>2. DOMAIN Component(Loaded, c).manifest = Named(spec.units) \union Named(c.external)
      BY DEF Component
    <3> QED BY <2>1, <3>1, <3>2
  <2>3. IsFiniteSet(Named(spec.units)) /\ IsFiniteSet(Named(c.external))
    <3>1. spec.units \in Seq(ToSet(spec.units))
      BY LoadedSpecs
    <3>2. c.external \in Seq(ToSet(c.external))
      BY <1>2
    <3> QED BY <3>1, <3>2, MembersFinite
  <2>4. IsFiniteSet(on(c))
    BY <1>2, FS_Subset
  <2> DEFINE f == [k \in on(c) |-> base(c, k)]
             g == [k \in on(c) |-> deployment(c, k)]
  <2>5. {f[k] : k \in on(c)} = n.bases /\ {g[k] : k \in on(c)} = n.deployments
    BY <2>2
  <2>6. DOMAIN f = on(c) /\ f = [k \in on(c) |-> f[k]] /\ DOMAIN g = on(c) /\ g = [k \in on(c) |-> g[k]]
    <3> HIDE DEF on, base, deployment
    <3> QED OBVIOUS
  <2> DEFINE K == on(c)
  <2>7. IsFiniteSet({f[k] : k \in K}) /\ IsFiniteSet({g[k] : k \in K})
    <3>1. IsFiniteSet(K) /\ DOMAIN f = K /\ f = [k \in K |-> f[k]] /\ DOMAIN g = K /\ g = [k \in K |-> g[k]]
      BY <2>4, <2>6
    <3> HIDE DEF f, g, K
    <3> QED BY <3>1, ImageFinite
  <2>8. IsFiniteSet(DOMAIN n.manifest)
    BY <2>2, <2>3, FS_Union
  <2> QED BY <2>5, <2>7, <2>8
<1> QED BY <1>4, <1>5, <1>6 DEF FinitePlan

LEMMA VariantsFinite ==
  ASSUME NEW m, FinitePlan(m), NEW C, C \subseteq m.components
  PROVE  IsFiniteSet(BasesOf(C)) /\ IsFiniteSet(DeploymentsOf(C)) /\ IsFiniteSet(C)
<1>1. IsFiniteSet(C)
  BY FS_Subset DEF FinitePlan
<1> DEFINE f == [c \in C |-> c.bases]
           g == [c \in C |-> c.deployments]
<1>2. BasesOf(C) = UNION {f[c] : c \in C} /\ DeploymentsOf(C) = UNION {g[c] : c \in C}
  BY DEF BasesOf, DeploymentsOf
<1>3. (\A c \in C : IsFiniteSet(f[c])) /\ (\A c \in C : IsFiniteSet(g[c]))
  BY DEF FinitePlan
<1>4. DOMAIN f = C /\ f = [c \in C |-> f[c]] /\ DOMAIN g = C /\ g = [c \in C |-> g[c]]
  OBVIOUS
<1> HIDE DEF f, g
<1>5. IsFiniteSet(UNION {f[c] : c \in C}) /\ IsFiniteSet(UNION {g[c] : c \in C})
  BY <1>1, <1>3, <1>4, UnionFinite
<1> QED BY <1>1, <1>2, <1>5

LEMMA ClonesFinite ==
  ASSUME NEW units, IsFiniteSet(DOMAIN units), NEW variants, IsFiniteSet(variants)
  PROVE  IsFiniteSet(DOMAIN CloneAll(units, variants))
<1> DEFINE D == DOMAIN units
           S == {v.slug : v \in variants}
           N == {u[2] : u \in D}
           f == [u \in D |-> u[2]]
           g == [s \in S |-> {s} \X N]
<1>1. IsFiniteSet(S)
  <2>1. S = Slugs(variants)
    BY DEF Slugs
  <2> QED BY <2>1, NamesFinite
<1>2. IsFiniteSet(N)
  <2>1. {f[u] : u \in D} = N /\ DOMAIN f = D /\ f = [u \in D |-> f[u]] /\ IsFiniteSet(D)
    OBVIOUS
  <2> HIDE DEF D, f, N
  <2>2. IsFiniteSet({f[u] : u \in D})
    BY <2>1, ImageFinite
  <2> QED BY <2>1, <2>2
<1>3. ASSUME NEW s \in S PROVE IsFiniteSet(g[s])
  <2> DEFINE h == [u \in N |-> <<s, u>>]
  <2> HIDE DEF N
  <2>1. {h[u] : u \in N} = {s} \X N
    OBVIOUS
  <2>2. IsFiniteSet({h[u] : u \in N})
    BY <1>2, ImageFinite
  <2>3. g[s] = {s} \X N
    OBVIOUS
  <2> QED BY <2>1, <2>2, <2>3
<1>4. DOMAIN g = S /\ g = [s \in S |-> g[s]]
  <2> HIDE DEF S, N
  <2> QED OBVIOUS
<1>5. DOMAIN CloneAll(units, variants) \subseteq D \union UNION {g[s] : s \in S}
  <2> SUFFICES ASSUME NEW w \in DOMAIN CloneAll(units, variants) PROVE w \in D \union UNION {g[s] : s \in S}
    OBVIOUS
  <2> DEFINE from(s) == (CHOOSE v \in variants : v.slug = s).from
             cloned == {x \in S \X N : <<from(x[1]), x[2]>> \in D}
  <2>1. w \in D \/ w \in cloned
    <3> DEFINE c == [x \in cloned |-> units[<<from(x[1]), x[2]>>]]
    <3>1. CloneAll(units, variants) = Over(units, c) /\ DOMAIN c = cloned
      BY DEF CloneAll
    <3> HIDE DEF c, cloned
    <3> QED BY <3>1 DEF Over
  <2>2. w \in cloned => w \in g[w[1]] /\ w[1] \in S
    <3>1. w \in cloned => w \in S \X N
      OBVIOUS
    <3> HIDE DEF S, N, cloned
    <3> QED BY <3>1
  <2> HIDE DEF g, cloned, S
  <2> QED BY <2>1, <2>2
<1>6. IsFiniteSet(UNION {g[s] : s \in S})
  <2> HIDE DEF g, S
  <2> QED BY <1>1, <1>3, <1>4, UnionFinite
<1>7. IsFiniteSet(D \union UNION {g[s] : s \in S})
  <2> HIDE DEF g, S
  <2> QED BY <1>6, FS_Union
<1> QED BY <1>5, <1>7, FS_Subset

LEMMA RenderedFinite ==
  ASSUME NEW m, FinitePlan(m), NEW C, C \subseteq m.components
  PROVE  IsFiniteSet(DOMAIN Rendered(C))
<1> DEFINE units(c) == {<<c.root, u>> : u \in DOMAIN c.manifest}
           g == [c \in C |-> units(c)]
<1>1. ASSUME NEW c \in C PROVE IsFiniteSet(g[c])
  <2> DEFINE D == DOMAIN c.manifest
             h == [u \in D |-> <<c.root, u>>]
  <2>1. {h[u] : u \in D} = g[c] /\ DOMAIN h = D /\ h = [u \in D |-> h[u]]
    OBVIOUS
  <2>2. IsFiniteSet(D)
    BY DEF FinitePlan
  <2> HIDE DEF D, h
  <2>3. IsFiniteSet({h[u] : u \in D})
    BY <2>1, <2>2, ImageFinite
  <2> QED BY <2>1, <2>3
<1>2. IsFiniteSet(C)
  BY VariantsFinite
<1>3. DOMAIN g = C /\ g = [c \in C |-> g[c]]
  <2> HIDE DEF units
  <2> QED OBVIOUS
<1>4. DOMAIN Rendered(C) \subseteq UNION {g[c] : c \in C}
  <2> SUFFICES ASSUME NEW w \in DOMAIN Rendered(C) PROVE \E c \in C : w \in g[c]
    OBVIOUS
  <2> QED BY RenderedIs
<1>5. IsFiniteSet(UNION {g[c] : c \in C})
  <2> HIDE DEF g
  <2> QED BY <1>1, <1>2, <1>3, UnionFinite
<1> QED BY <1>4, <1>5, FS_Subset

LEMMA HomeCountable == ASSUME OrgOK(org), Countable(org), NEW m, NEW left PROVE Countable(MakeHome(m, left))
<1> DEFINE space == Ensured(org.space, {m.home} \ left, "demo")
<1>1. MakeHome(m, left) = [org EXCEPT !.space = space]
  BY DEF MakeHome
<1> HIDE DEF space
<1> QED BY <1>1, OrgWith DEF Countable

LEMMA ClustersCountable ==
  ASSUME OrgOK(org), Countable(org), NEW m, FinitePlan(m), NEW left PROVE Countable(MakeClusters(m, left))
<1> DEFINE space == Ensured(org.space, ClusterNames(m), "cluster")
           target == org.target \union (ClusterNames(m) \ left)
<1>1. MakeClusters(m, left) = [org EXCEPT !.space = space, !.target = target]
  BY DEF MakeClusters
<1>2. IsFiniteSet(target)
  <2>1. IsFiniteSet(ClusterNames(m) \ left)
    BY FS_Subset DEF FinitePlan
  <2> QED BY <2>1, FS_Union DEF Countable
<1> HIDE DEF space, target
<1> QED BY <1>1, <1>2, OrgWith DEF Countable

LEMMA BasesCountable ==
  ASSUME OrgOK(org), Countable(org), NEW m, FinitePlan(m), NEW left PROVE Countable(MakeBases(m, left))
<1> DEFINE done == {c \in Ready(m) : c.name \notin left}
           space == Ensured(Ensured(org.space, {c.root : c \in Ready(m)}, "root base"),
                            Slugs(BasesOf(done)), "class base")
           had == Over(Rendered(Ready(m)), org.unit)
           unit == CloneAll(had, BasesOf(done))
           entity == org.entity \union {c.name : c \in Ready(m)}
<1>1. MakeBases(m, left) = [org EXCEPT !.entity = entity, !.space = space, !.unit = unit]
  BY DEF MakeBases
<1>2. done \subseteq m.components /\ Ready(m) \subseteq m.components
  BY DEF Ready
<1>3. IsFiniteSet(DOMAIN had)
  <2>1. IsFiniteSet(DOMAIN Rendered(Ready(m)))
    BY <1>2, RenderedFinite
  <2>2. DOMAIN had = DOMAIN Rendered(Ready(m)) \union DOMAIN org.unit
    BY DEF Over
  <2> QED BY <2>1, <2>2, FS_Union DEF Countable
<1>4. IsFiniteSet(DOMAIN unit)
  <2>1. IsFiniteSet(BasesOf(done))
    BY <1>2, VariantsFinite
  <2> HIDE DEF had, done
  <2> QED BY <1>3, <2>1, ClonesFinite
<1> HIDE DEF space, unit, entity
<1> QED BY <1>1, <1>4, OrgWith DEF Countable

LEMMA DeploymentsCountable ==
  ASSUME OrgOK(org), Countable(org), NEW m, FinitePlan(m), NEW left PROVE Countable(MakeDeployments(m, left))
<1> DEFINE made == DeploymentsOf(Based(m))
           some == {d \in made : d.from \notin left}
           space == Ensured(org.space, Slugs(made), "deployment")
           unit == CloneAll(org.unit, some)
<1>1. MakeDeployments(m, left) = [org EXCEPT !.space = space, !.unit = unit]
  BY DEF MakeDeployments
<1>2. IsFiniteSet(made)
  BY VariantsFinite DEF Based, Ready
<1>3. IsFiniteSet(some)
  BY <1>2, FS_Subset
<1>4. IsFiniteSet(DOMAIN unit)
  <2> HIDE DEF some
  <2> QED BY <1>3, ClonesFinite DEF Countable
<1> HIDE DEF space, unit
<1> QED BY <1>1, <1>4, OrgWith DEF Countable

LEMMA ReleasesCountable ==
  ASSUME OrgOK(org), Countable(org), NEW m, NEW left PROVE Countable(MakeReleases(m, left))
<1> DEFINE now == Publishable(m) \ left
           f == [s \in now |-> [count |-> Published(s) + 1, has |-> UnitsIn(s)]]
           releases == Over(f, org.releases)
           reported == org.reported \ now
           U == DOMAIN org.unit
           g == [u \in U |-> u[1]]
<1>1. MakeReleases(m, left) = [org EXCEPT !.releases = releases, !.reported = reported]
  BY DEF MakeReleases
<1>2. IsFiniteSet(now)
  <2>1. now \subseteq {g[u] : u \in U}
    BY DEF Publishable, UnitsIn
  <2>2. DOMAIN g = U /\ g = [u \in U |-> g[u]] /\ IsFiniteSet(U)
    BY DEF Countable
  <2> HIDE DEF g, now, U
  <2>3. IsFiniteSet({g[u] : u \in U})
    BY <2>2, ImageFinite
  <2> QED BY <2>1, <2>3, FS_Subset
<1>3. \A s \in now : f[s].count \in Nat \ {0}
  <2> SUFFICES ASSUME NEW s \in now PROVE Published(s) + 1 \in Nat \ {0}
    OBVIOUS
  <2>1. Published(s) \in Nat
    BY DEF Published, Countable, ReleasesNumbered
  <2> QED BY <2>1
<1>4. DOMAIN f = now
  OBVIOUS
<1>5. DOMAIN releases = now \union DOMAIN org.releases /\ ReleasesNumbered(releases)
  <2> HIDE DEF f, now
  <2> QED BY <1>3, <1>4 DEF Over, ReleasesNumbered, Countable
<1> HIDE DEF releases, reported, now
<1>6. IsFiniteSet(DOMAIN releases)
  BY <1>2, <1>5, FS_Union DEF Countable
<1> QED BY <1>1, <1>5, <1>6, OrgWith DEF Countable

LEMMA ReportsCountable == ASSUME OrgOK(org), Countable(org), NEW m, NEW left PROVE Countable(MakeReports(m, left))
<1> DEFINE reported == org.reported \union (Painted(m) \ left)
<1>1. MakeReports(m, left) = [org EXCEPT !.reported = reported]
  BY DEF MakeReports
<1> HIDE DEF reported
<1> QED BY <1>1, OrgWith DEF Countable

LEMMA MadeCountable ==
  ASSUME OrgOK(org), Countable(org), NEW m, FinitePlan(m), NEW left, NEW phase \in ToSet(Phases) \ {"views", "stories"}
  PROVE  Countable(Made(phase, m, left))
<1>1. phase \in {"home", "clusters", "bases", "deployments", "releases", "livestatus", "workflows"}
  BY DEF ToSet, Phases
<1> QED BY <1>1, HomeCountable, ClustersCountable, BasesCountable, DeploymentsCountable, ReleasesCountable,
           ReportsCountable DEF Made

LEMMA RemovedCountable == ASSUME OrgOK(org), Countable(org), NEW group, NEW S PROVE Countable(Removed(group, S))
<1>1. CASE group = "components"
  <2> DEFINE entity == org.entity \ S
  <2>1. Removed(group, S) = [org EXCEPT !.entity = entity]
    BY <1>1 DEF Removed
  <2> HIDE DEF entity
  <2> QED BY <2>1, OrgWith DEF Countable
<1>2. CASE group # "components"
  <2> DEFINE lost == {u \in DOMAIN org.unit : u[1] \in S}
             unit == Without(org.unit, lost)
             releases == Without(org.releases, S)
             target == org.target \ S
  <2>1. DOMAIN unit \subseteq DOMAIN org.unit
    BY DEF Without
  <2>2. DOMAIN releases \subseteq DOMAIN org.releases /\ \A s \in DOMAIN releases : releases[s] = org.releases[s]
    BY DEF Without
  <2>3. /\ Removed(group, S).unit = unit /\ Removed(group, S).releases = releases
        /\ Removed(group, S).target = target
    <3> DEFINE space == Without(org.space, S)
               reported == org.reported \ S
    <3>1. Removed(group, S) = [space |-> space, unit |-> unit, target |-> target, entity |-> org.entity,
                               releases |-> releases, reported |-> reported]
      BY <1>2, RemovedIs
    <3> HIDE DEF space, unit, target, releases, reported
    <3> QED BY <3>1
  <2>4. target \subseteq org.target
    OBVIOUS
  <2> HIDE DEF unit, releases, target
  <2>5. IsFiniteSet(DOMAIN unit) /\ IsFiniteSet(DOMAIN releases) /\ IsFiniteSet(target)
    BY <2>1, <2>2, <2>4, FS_Subset DEF Countable
  <2>6. ReleasesNumbered(releases)
    BY <2>2 DEF ReleasesNumbered, Countable
  <2> QED BY <2>3, <2>5, <2>6 DEF Countable
<1> QED BY <1>1, <1>2

LEMMA WalkCountable == ASSUME LifeKept, Countable(org), WalkStories PROVE Countable(org')
<1> DEFINE U == DOMAIN org.unit
           g == [u \in U |-> u[1]]
<1>1. PICK walked, told : Walk(walked, told)
  BY WalkIs DEF LifeKept
<1>2. IsFiniteSet(walked)
  <2>1. walked \subseteq {g[u] : u \in U}
    BY <1>1 DEF Walk, UnitsIn
  <2>2. DOMAIN g = U /\ g = [u \in U |-> g[u]] /\ IsFiniteSet(U)
    BY DEF Countable
  <2> HIDE DEF g, U
  <2>3. IsFiniteSet({g[u] : u \in U})
    BY <2>2, ImageFinite
  <2> QED BY <2>1, <2>3, FS_Subset
<1>3. ASSUME NEW s \in DOMAIN org'.releases PROVE org'.releases[s].count \in Nat \ {0}
  <2>1. CASE s \in walked
    <3>1. Published(s) \in Nat
      BY DEF Published, Countable, ReleasesNumbered
    <3>2. PICK n \in Nat \ {0} : org'.releases[s].count = Published(s) + n
      BY <1>1, <2>1 DEF Walk
    <3> QED BY <3>1, <3>2
  <2>2. CASE s \notin walked
    BY <1>1, <2>2 DEF Walk, Countable, ReleasesNumbered
  <2> QED BY <2>1, <2>2
<1>4. IsFiniteSet(DOMAIN org'.releases)
  <2>1. DOMAIN org'.releases = walked \union DOMAIN org.releases
    BY <1>1 DEF Walk
  <2>2. IsFiniteSet(DOMAIN org.releases)
    BY DEF Countable
  <2>3. IsFiniteSet(walked \union DOMAIN org.releases)
    BY <1>2, <2>2, FS_Union
  <2> QED BY <2>1, <2>3
<1>5. IsFiniteSet(DOMAIN org'.unit) /\ IsFiniteSet(org'.target)
  BY <1>1 DEF Walk, Countable
<1> QED BY <1>3, <1>4, <1>5 DEF Countable, ReleasesNumbered

LEMMA CountableStep == ASSUME LifeKept, Countable(org), [LifeNext]_vars PROVE Countable(org')
<1>1. CASE UNCHANGED org
  BY <1>1
<1>2. CASE Make
  <2>1. /\ job.steps[at] \in ToSet(Phases) \ {"views", "stories"} /\ at # 0
        /\ \E left : org' = Made(job.steps[at], job.model, left)
    BY <1>2 DEF Make, Doing
  <2>2. job.verb \in {"up", "reset"} /\ JobOK /\ StoredOK /\ OrgOK(org)
    BY <2>1, StepsOf DEF LifeKept, Doing
  <2>3. FinitePlan(job.model)
    BY <2>2, LoadedIsFinite DEF JobOK
  <2> QED BY <2>1, <2>2, <2>3, MadeCountable
<1>3. CASE TearDown
  <2>1. \E group, S : org' = Removed(group, S)
    BY <1>3 DEF TearDown
  <2> QED BY <2>1, RemovedCountable DEF LifeKept
<1>4. [LifeNext]_vars => UNCHANGED org \/ Make \/ WalkStories \/ TearDown
  BY DEF LifeNext, Install, RunUp, RunDown, RunReset, RunAgents, Start, Store, Refuse, ConvergeViews, ServeAgents,
         Crash, vars, lifeVars
<1> QED BY <1>1, <1>2, <1>3, <1>4, WalkCountable

\* A bundle has finitely many files.
LEMMA PathsFinite == ASSUME NEW v \in Installables PROVE IsFiniteSet(Paths(Drafts[v]))
<1> DEFINE b == Drafts[v]
           all == ToSet(AllComponents(b.scenario))
           units(c) == b.specs[c.dir].units
           plain(c) == {<<c.dir, u.file>> : u \in ToSet(units(c))}
           external(c) == {<<"external", e.kind>> : e \in ToSet(c.external)}
           g == [c \in all |-> {<<c.dir, "component">>} \union plain(c) \union external(c)]
<1>1. v \in DOMAIN Drafts /\ Accepted(b)
  BY DEF Installables, Installable, Draft
<1>2. IsFiniteSet(all) /\ \A c \in all : c.external \in Seq(ToSet(c.external))
  BY ComponentsListed
<1>3. ASSUME NEW c \in all PROVE IsFiniteSet(g[c])
  <2>1. units(c) \in Seq(ToSet(units(c)))
    BY <1>1, FilesAssumption DEF Accepted
  <2> DEFINE U == ToSet(units(c))
             E == ToSet(c.external)
             p == [u \in U |-> <<c.dir, u.file>>]
             q == [e \in E |-> <<"external", e.kind>>]
  <2>2. {p[u] : u \in U} = plain(c) /\ {q[e] : e \in E} = external(c)
    OBVIOUS
  <2>3. DOMAIN p = U /\ p = [u \in U |-> p[u]] /\ DOMAIN q = E /\ q = [e \in E |-> q[e]]
    <3> HIDE DEF U, E
    <3> QED OBVIOUS
  <2>4. IsFiniteSet(U) /\ IsFiniteSet(E)
    <3> HIDE DEF units
    <3> QED BY <1>2, <2>1, MembersFinite
  <2>5. g[c] = {<<c.dir, "component">>} \union plain(c) \union external(c)
    OBVIOUS
  <2> HIDE DEF p, q, U, E, plain, external, g
  <2>6. IsFiniteSet(plain(c)) /\ IsFiniteSet(external(c))
    <3>1. IsFiniteSet({p[u] : u \in U}) /\ IsFiniteSet({q[e] : e \in E})
      BY <2>3, <2>4, ImageFinite
    <3> QED BY <2>2, <3>1
  <2>7. IsFiniteSet({<<c.dir, "component">>} \union plain(c))
    BY <2>6, FS_Singleton, FS_Union
  <2> QED BY <2>5, <2>6, <2>7, FS_Union
<1>4. Paths(b) = {<<"scenario">>} \union UNION {g[c] : c \in all}
  <2>1. \A c \in all : g[c] = {<<c.dir, "component">>} \union plain(c) \union external(c)
    OBVIOUS
  <2>2. Paths(b) = {<<"scenario">>} \union
                   UNION {{<<c.dir, "component">>} \union plain(c) \union external(c) : c \in all}
    BY DEF Paths
  <2> HIDE DEF g, plain, external, all
  <2> QED BY <2>1, <2>2
<1>5. DOMAIN g = all /\ g = [c \in all |-> g[c]]
  <2> HIDE DEF all, plain, external
  <2> QED OBVIOUS
<1>6. IsFiniteSet(UNION {g[c] : c \in all})
  <2> HIDE DEF g, all
  <2> QED BY <1>2, <1>3, <1>5, UnionFinite DEF all
<1> DEFINE U == UNION {g[c] : c \in all}
<1> HIDE DEF g, all, U
<1>7. IsFiniteSet({<<"scenario">>} \union U)
  BY <1>6, FS_Singleton, FS_Union DEF U
<1> QED BY <1>4, <1>7 DEF U

LEMMA StoredFiniteStep ==
  ASSUME LifeKept, IsFiniteSet(DOMAIN stored), [LifeNext]_vars PROVE IsFiniteSet(DOMAIN stored')
<1>1. CASE Store
  <2>1. PICK uncreated, unwritten : stored' = Stored(job.model, uncreated, unwritten)
    BY <1>1 DEF Store
  <2>2. job.model \in Installables
    BY <1>1 DEF Store, LifeKept, JobOK
  <2>3. DOMAIN stored' \subseteq Paths(Drafts[job.model]) \union DOMAIN stored
    BY <2>1 DEF Stored
  <2>4. IsFiniteSet(Paths(Drafts[job.model]) \union DOMAIN stored)
    BY <2>2, PathsFinite, FS_Union
  <2> QED BY <2>3, <2>4, FS_Subset
<1>2. CASE TearDown
  <2>1. stored' = stored \/ stored' = <<>>
    BY <1>2 DEF TearDown
  <2>2. DOMAIN <<>> = {}
    OBVIOUS
  <2> QED BY <2>1, <2>2, FS_EmptySet
<1>3. [LifeNext]_vars => UNCHANGED stored \/ Store \/ TearDown
  BY DEF LifeNext, Install, RunUp, RunDown, RunReset, RunAgents, Start, Make, Refuse, ConvergeViews, WalkStories,
         ServeAgents, Crash, vars, lifeVars
<1> QED BY <1>1, <1>2, <1>3

\* What of a whole definition is built, is there in number.
LEMMA BuiltIsComplete ==
  ASSUME LifeKept, BuiltWhole, Countable(org), IsFiniteSet(DOMAIN stored),
         VariantsApart, DeploymentsApart, RootsApart
  PROVE  StatusComplete(Expand(Loaded))
<1> DEFINE m == Expand(Loaded)
<1>1. /\ StoredOK /\ Defined /\ HomeBuilt(m, org) /\ ClustersBuilt(m, org) /\ BasesBuilt(m, org)
      /\ DeploymentsBuilt(m, org) /\ ReleasesBuilt(m, org) /\ ReportsBuilt(m, org)
  BY DEF LifeKept, BuiltWhole, Built
<1>2. Apart(m.components) /\ ClustersNamed(m) /\ \A c \in m.components : UnitsListed(c)
  BY <1>1, SpacesAreApart, ClustersAreNamed, UnitsOfComponent
<1> HIDE DEF m
<1>3. Ready(m) \subseteq m.components
  BY DEF Ready
<1>4. SpacesOf(m) \subseteq DOMAIN org.space
  <2>1. \A c \in Ready(m) : {c.root} \union Slugs(c.bases) \union Slugs(c.deployments) \subseteq DOMAIN org.space
    BY <1>1 DEF BasesBuilt, DeploymentsBuilt
  <2>2. {c.root : c \in Ready(m)} \subseteq DOMAIN org.space
    BY <2>1
  <2>3. Slugs(BasesOf(Ready(m))) \subseteq DOMAIN org.space /\ Slugs(DeploymentsOf(Ready(m))) \subseteq DOMAIN org.space
    BY <2>1 DEF Slugs, BasesOf, DeploymentsOf
  <2>4. m.home \in DOMAIN org.space /\ ClusterNames(m) \subseteq DOMAIN org.space
    BY <1>1 DEF HomeBuilt, ClustersBuilt
  <2> QED BY <2>2, <2>3, <2>4 DEF SpacesOf
<1>5. Cardinality(m.clusters) <= Cardinality(org.target)
  <2> DEFINE K == m.clusters
             f == [k \in K |-> k.name]
  <2>1. \A k \in K : f[k] \in org.target
    BY <1>1 DEF ClustersBuilt, ClusterNames
  <2>2. \A k, l \in K : f[k] = f[l] => k = l
    BY <1>2 DEF ClustersNamed
  <2>3. DOMAIN f = K /\ f = [k \in K |-> f[k]]
    OBVIOUS
  <2> HIDE DEF f, K
  <2>4. Cardinality(K) <= Cardinality(org.target)
    BY <2>1, <2>2, <2>3, MapsInto DEF Countable
  <2> QED BY <2>4 DEF K
<1>6. UnitsWanted(m) <= Cardinality(DOMAIN org.unit) + Cardinality(DOMAIN stored)
  <2>1. ASSUME NEW c \in Ready(m), NEW w \in Kept(c), NEW u \in DOMAIN c.manifest
        PROVE  <<w[2].slug, u>> \in DOMAIN org.unit
    <3>1. w[2].slug \in {c.root} \union Slugs(c.bases) \union Slugs(c.deployments)
      BY DEF Kept, Slugs
    <3> QED BY <1>1, <3>1 DEF BasesBuilt, DeploymentsBuilt
  <2>2. Apart(Ready(m)) /\ \A c \in Ready(m) : UnitsListed(c)
    BY <1>2, <1>3 DEF Apart
  <2>3. IsFiniteSet(UnitsFor(Ready(m))) /\ Cardinality(UnitsFor(Ready(m))) <= Cardinality(DOMAIN org.unit)
    BY <2>1, <2>2, UnitsCounted DEF Countable
  <2>4. /\ Cardinality(UnitsFor(Ready(m))) \in Nat /\ Cardinality(DOMAIN org.unit) \in Nat
        /\ Cardinality(DOMAIN stored) \in Nat
    BY <2>3, FS_CardinalityType DEF Countable
  <2> QED BY <2>3, <2>4 DEF UnitsWanted
<1>7. Cardinality(ReleasesWanted(m)) <= ReleasesThere
  <2>1. ReleasesWanted(m) \subseteq DOMAIN org.releases
    BY <1>1 DEF ReleasesBuilt
  <2> QED BY <2>1, ReleasesCounted DEF Countable, ReleasesThere
<1>8. {c.name : c \in Ready(m)} \subseteq org.entity
  BY <1>1 DEF BasesBuilt
<1>9. Painted(m) \subseteq org.reported
  BY <1>1 DEF ReportsBuilt, Painted
<1> QED BY <1>4, <1>5, <1>6, <1>7, <1>8, <1>9 DEF StatusComplete, m

\* What an up that got through leaves, `status` calls complete (cmd/status.go):
\* no fewer spaces, targets, components, units, Releases and reports than the
\* plan has of them, whatever other definitions the org was grown by, however
\* verbs were cut short, and though the definition be mixed of several.
THEOREM UpLeavesComplete ==
  ASSUME VariantsApart, DeploymentsApart, RootsApart, StagesKept PROVE LifeSpec => []UpSatisfiesStatus
<1>1. LifeInit => Countable(org) /\ IsFiniteSet(DOMAIN stored)
  <2>1. ASSUME LifeInit PROVE /\ DOMAIN stored = {} /\ org.target = {} /\ DOMAIN org.unit = {}
                              /\ DOMAIN org.releases = {}
    BY <2>1 DEF LifeInit, NoOrg
  <2> QED BY <2>1, FS_EmptySet DEF Countable, ReleasesNumbered
<1>2. LifeKept /\ Countable(org) /\ IsFiniteSet(DOMAIN stored) /\ [LifeNext]_vars
        => (Countable(org) /\ IsFiniteSet(DOMAIN stored))'
  BY CountableStep, StoredFiniteStep DEF Countable
<1>3. LifeKept /\ Countable(org) /\ IsFiniteSet(DOMAIN stored) /\ (said = "up" => BuiltWhole) => UpSatisfiesStatus
  BY BuiltIsComplete DEF UpSatisfiesStatus
<1>4. LifeSpec => [](said = "up" => BuiltWhole)
  BY UpBuildsWhole
<1> QED BY <1>1, <1>2, <1>3, <1>4, KeptInit, KeptStep, PTL DEF LifeSpec

-----------------------------------------------------------------------------
(* An org that is grown by one definition *)

\* What the space s is in a plan.
Part(m, s, role) ==
  \/ s = m.home /\ role = "demo"
  \/ s \in ClusterNames(m) /\ role = "cluster"
  \/ s \in {c.root : c \in m.components} /\ role = "root base"
  \/ s \in Slugs(BasesOf(m.components)) /\ role = "class base"
  \/ s \in Slugs(DeploymentsOf(m.components)) /\ role = "deployment"

\* A space that has a unit has all units of the component it is of.
Whole(U, C) ==
  \A u \in U : u = <<u[1], u[2]>> /\
    \E c \in C : \E w \in Kept(c) :
      u[1] = w[2].slug /\ u[2] \in DOMAIN c.manifest /\ \A n \in DOMAIN c.manifest : <<u[1], n>> \in U

UnitsAt(U, s) == {u \in U : u[1] = s}

\* Nothing stands but what the plan has, no space has a part of its units, and
\* a Release there is has them all, and is the first of its space unless the
\* space is a story's.
OnlyPlan(o, m) ==
  /\ \A s \in DOMAIN o.space : Part(m, s, o.space[s])
  /\ o.target \subseteq ClusterNames(m) /\ o.entity \subseteq {c.name : c \in m.components}
  /\ Whole(DOMAIN o.unit, m.components)
  /\ \A s \in DOMAIN o.releases :
       /\ s \in Slugs(DeploymentsOf(m.components))
       /\ s \in StorySpaces(m) \/ (s \notin m.unreleased /\ o.releases[s].count = 1)
       /\ o.releases[s].has = UnitsAt(DOMAIN o.unit, s) /\ UnitsAt(DOMAIN o.unit, s) # {}

LEMMA KeptHas ==
  ASSUME NEW c
  PROVE  /\ \E w \in Kept(c) : w[2].slug = c.root
         /\ \A d \in c.bases : \E w \in Kept(c) : w[2].slug = d.slug
         /\ \A d \in c.deployments : \E w \in Kept(c) : w[2].slug = d.slug
<1>1. <<"root", [slug |-> c.root]>> \in Kept(c) /\ <<"root", [slug |-> c.root]>>[2].slug = c.root
  BY DEF Kept
<1>2. \A d \in c.bases : <<"base", d>> \in Kept(c) /\ <<"base", d>>[2].slug = d.slug
  BY DEF Kept
<1>3. \A d \in c.deployments : <<"deployment", d>> \in Kept(c) /\ <<"deployment", d>>[2].slug = d.slug
  BY DEF Kept
<1>4. \E w \in Kept(c) : w[2].slug = c.root
  BY <1>1
<1>5. \A d \in c.bases : \E w \in Kept(c) : w[2].slug = d.slug
  BY <1>2
<1>6. \A d \in c.deployments : \E w \in Kept(c) : w[2].slug = d.slug
  BY <1>3
<1> QED BY <1>4, <1>5, <1>6

LEMMA ClonedFrom ==
  ASSUME NEW units, NEW variants, \A x, y \in variants : x.slug = y.slug => x = y,
         NEW w \in DOMAIN CloneAll(units, variants), w \notin DOMAIN units
  PROVE  \E v \in variants : w = <<v.slug, w[2]>> /\ <<v.from, w[2]>> \in DOMAIN units
<1> DEFINE from(s) == (CHOOSE x \in variants : x.slug = s).from
           slugs == {x.slug : x \in variants}
           names == {u[2] : u \in DOMAIN units}
           cloned == {x \in slugs \X names : <<from(x[1]), x[2]>> \in DOMAIN units}
           f == [x \in cloned |-> units[<<from(x[1]), x[2]>>]]
<1>1. CloneAll(units, variants) = Over(units, f) /\ DOMAIN f = cloned
  BY DEF CloneAll
<1>2. w \in cloned
  <2> HIDE DEF f, cloned
  <2> QED BY <1>1 DEF Over
<1>3. w = <<w[1], w[2]>> /\ w[1] \in slugs /\ <<from(w[1]), w[2]>> \in DOMAIN units
  <2> HIDE DEF from, slugs, names
  <2> QED BY <1>2
<1>4. PICK v \in variants : v.slug = w[1]
  BY <1>3
<1>5. (CHOOSE x \in variants : x.slug = w[1]) = v
  BY <1>4
<1> QED BY <1>3, <1>4, <1>5

LEMMA WholeClones ==
  ASSUME NEW C, Apart(C), NEW units, Whole(DOMAIN units, C),
         NEW variants, \A x, y \in variants : x.slug = y.slug => x = y,
         \A v \in variants : \E c \in C : \E w, z \in Kept(c) : w[2].slug = v.slug /\ z[2].slug = v.from
  PROVE  Whole(DOMAIN CloneAll(units, variants), C)
<1> DEFINE U == DOMAIN units
           V == DOMAIN CloneAll(units, variants)
<1>1. U \subseteq V
  BY ClonesOf
<1>2. ASSUME NEW u \in U
      PROVE  u = <<u[1], u[2]>> /\ \E c \in C : \E w \in Kept(c) :
               u[1] = w[2].slug /\ u[2] \in DOMAIN c.manifest /\ \A n \in DOMAIN c.manifest : <<u[1], n>> \in U
  BY DEF Whole
<1>3. ASSUME NEW u \in V, u \notin U
      PROVE  u = <<u[1], u[2]>> /\ \E c \in C : \E w \in Kept(c) :
               u[1] = w[2].slug /\ u[2] \in DOMAIN c.manifest /\ \A n \in DOMAIN c.manifest : <<u[1], n>> \in V
  <2>1. PICK v \in variants : u = <<v.slug, u[2]>> /\ <<v.from, u[2]>> \in U
    BY <1>3, ClonedFrom
  <2>2. PICK c \in C : \E w, z \in Kept(c) : w[2].slug = v.slug /\ z[2].slug = v.from
    OBVIOUS
  <2>3. PICK w \in Kept(c), z \in Kept(c) : w[2].slug = v.slug /\ z[2].slug = v.from
    BY <2>2
  <2> DEFINE x == <<v.from, u[2]>>
  <2>4. x \in U /\ x[1] = v.from /\ x[2] = u[2]
    BY <2>1
  <2> HIDE DEF x
  <2>5. PICK d \in C : \E y \in Kept(d) : x[1] = y[2].slug /\ x[2] \in DOMAIN d.manifest
                                          /\ \A n \in DOMAIN d.manifest : <<x[1], n>> \in U
    BY <1>2, <2>4
  <2>6. c = d
    BY <2>3, <2>4, <2>5 DEF Apart
  <2>7. ASSUME NEW n \in DOMAIN c.manifest PROVE <<u[1], n>> \in V
    <3>1. <<v.from, n>> \in U
      BY <2>4, <2>5, <2>6
    <3>2. <<v.slug, n>> \in V
      BY <3>1, ClonesAll
    <3>3. u[1] = v.slug
      BY <2>1
    <3> QED BY <3>2, <3>3
  <2>8. u[1] = w[2].slug /\ u = <<u[1], u[2]>>
    BY <2>1, <2>3
  <2>9. u[2] \in DOMAIN c.manifest
    BY <2>4, <2>5, <2>6
  <2> QED BY <2>7, <2>8, <2>9
<1> HIDE DEF U, V
<1>4. Whole(V, C)
  BY <1>1, <1>2, <1>3 DEF Whole
<1> QED BY <1>4 DEF V

\* A space that has units gets no more of them.
LEMMA WholeStays ==
  ASSUME NEW C, Apart(C), NEW U, NEW V, U \subseteq V, Whole(U, C), Whole(V, C), NEW s, UnitsAt(U, s) # {}
  PROVE  UnitsAt(V, s) = UnitsAt(U, s)
<1>1. PICK x \in U : x[1] = s
  BY DEF UnitsAt
<1>2. PICK c \in C : \E w \in Kept(c) : x[1] = w[2].slug /\ \A n \in DOMAIN c.manifest : <<x[1], n>> \in U
  BY DEF Whole
<1>3. ASSUME NEW u \in V, u[1] = s PROVE u \in U
  <2>1. PICK d \in C : \E w \in Kept(d) : u[1] = w[2].slug /\ u[2] \in DOMAIN d.manifest
    BY DEF Whole
  <2>2. c = d
    BY <1>1, <1>2, <1>3, <2>1 DEF Apart
  <2>3. u = <<u[1], u[2]>>
    BY DEF Whole
  <2> QED BY <1>1, <1>2, <1>3, <2>1, <2>2, <2>3
<1> QED BY <1>3 DEF UnitsAt

LEMMA OnlyGrown ==
  ASSUME NEW m, Apart(m.components), NEW o, OnlyPlan(o, m), NEW p,
         DOMAIN o.unit \subseteq DOMAIN p.unit, p.releases = o.releases,
         Whole(DOMAIN p.unit, m.components),
         \A s \in DOMAIN p.space : Part(m, s, p.space[s]),
         p.target \subseteq ClusterNames(m), p.entity \subseteq {c.name : c \in m.components}
  PROVE  OnlyPlan(p, m)
<1>1. ASSUME NEW s \in DOMAIN p.releases
      PROVE  /\ s \in Slugs(DeploymentsOf(m.components))
             /\ s \in StorySpaces(m) \/ (s \notin m.unreleased /\ p.releases[s].count = 1)
             /\ p.releases[s].has = UnitsAt(DOMAIN p.unit, s) /\ UnitsAt(DOMAIN p.unit, s) # {}
  <2>1. /\ s \in Slugs(DeploymentsOf(m.components))
        /\ s \in StorySpaces(m) \/ (s \notin m.unreleased /\ o.releases[s].count = 1)
        /\ o.releases[s].has = UnitsAt(DOMAIN o.unit, s) /\ UnitsAt(DOMAIN o.unit, s) # {}
    BY DEF OnlyPlan
  <2>2. Whole(DOMAIN o.unit, m.components)
    BY DEF OnlyPlan
  <2>3. UnitsAt(DOMAIN p.unit, s) = UnitsAt(DOMAIN o.unit, s)
    BY <2>1, <2>2, WholeStays
  <2> QED BY <2>1, <2>3
<1> QED BY <1>1 DEF OnlyPlan

Fit(m) == Apart(m.components) /\ Cloneable(m)

LEMMA EnsuredParts ==
  ASSUME NEW m, NEW f, \A s \in DOMAIN f : Part(m, s, f[s]), NEW S, NEW role, \A s \in S : Part(m, s, role)
  PROVE  \A s \in DOMAIN Ensured(f, S, role) : Part(m, s, Ensured(f, S, role)[s])
<1>1. Ensured(f, S, role) = [x \in DOMAIN f \union S |-> IF x \in DOMAIN f THEN f[x] ELSE role]
  BY DEF Ensured, Over
<1> QED BY <1>1

LEMMA HomeOnly ==
  ASSUME OrgOK(org), NEW m, Fit(m), OnlyPlan(org, m), NEW left PROVE OnlyPlan(MakeHome(m, left), m)
<1> DEFINE space == Ensured(org.space, {m.home} \ left, "demo")
           o == MakeHome(m, left)
<1>1. o = [org EXCEPT !.space = space]
  BY DEF MakeHome
<1>2. \A s \in DOMAIN space : Part(m, s, space[s])
  <2>1. \A s \in {m.home} \ left : Part(m, s, "demo")
    BY DEF Part
  <2> QED BY <2>1, EnsuredParts DEF OnlyPlan
<1> HIDE DEF space, o
<1>3. /\ o.space = space /\ o.unit = org.unit /\ o.target = org.target /\ o.entity = org.entity
      /\ o.releases = org.releases
  BY <1>1, OrgWith
<1>4. OnlyPlan(o, m)
  BY <1>2, <1>3, OnlyGrown DEF OnlyPlan, Fit
<1> QED BY <1>4 DEF o

LEMMA ClustersOnly ==
  ASSUME OrgOK(org), NEW m, Fit(m), OnlyPlan(org, m), NEW left PROVE OnlyPlan(MakeClusters(m, left), m)
<1> DEFINE space == Ensured(org.space, ClusterNames(m), "cluster")
           target == org.target \union (ClusterNames(m) \ left)
           o == MakeClusters(m, left)
<1>1. o = [org EXCEPT !.space = space, !.target = target]
  BY DEF MakeClusters
<1>2. \A s \in DOMAIN space : Part(m, s, space[s])
  <2>1. \A s \in ClusterNames(m) : Part(m, s, "cluster")
    BY DEF Part
  <2> QED BY <2>1, EnsuredParts DEF OnlyPlan
<1>3. target \subseteq ClusterNames(m)
  BY DEF OnlyPlan
<1> HIDE DEF space, target, o
<1>4. /\ o.space = space /\ o.unit = org.unit /\ o.target = target /\ o.entity = org.entity
      /\ o.releases = org.releases
  BY <1>1, OrgWith
<1>5. OnlyPlan(o, m)
  BY <1>2, <1>3, <1>4, OnlyGrown DEF OnlyPlan, Fit
<1> QED BY <1>5 DEF o

LEMMA RenderedWhole ==
  ASSUME NEW C, Apart(C), NEW S, S \subseteq C, NEW unit, Whole(DOMAIN unit, C)
  PROVE  Whole(DOMAIN Over(Rendered(S), unit), C)
<1> DEFINE U == DOMAIN unit
           R == DOMAIN Rendered(S)
           V == DOMAIN Over(Rendered(S), unit)
<1>1. V = R \union U
  BY DEF Over
<1> HIDE DEF U, R, V
<1>2. ASSUME NEW u \in U
      PROVE  u = <<u[1], u[2]>> /\ \E c \in C : \E w \in Kept(c) :
               u[1] = w[2].slug /\ u[2] \in DOMAIN c.manifest /\ \A n \in DOMAIN c.manifest : <<u[1], n>> \in V
  BY <1>1 DEF Whole, U
<1>3. ASSUME NEW u \in R
      PROVE  u = <<u[1], u[2]>> /\ \E c \in C : \E w \in Kept(c) :
               u[1] = w[2].slug /\ u[2] \in DOMAIN c.manifest /\ \A n \in DOMAIN c.manifest : <<u[1], n>> \in V
  <2>1. PICK c \in S : \E n \in DOMAIN c.manifest : u = <<c.root, n>>
    BY RenderedIs DEF R
  <2>2. \A n \in DOMAIN c.manifest : <<c.root, n>> \in V
    BY <1>1, RenderedIs DEF R
  <2>3. PICK w \in Kept(c) : w[2].slug = c.root
    BY KeptHas
  <2> QED BY <2>1, <2>2, <2>3
<1>4. Whole(V, C)
  BY <1>1, <1>2, <1>3 DEF Whole
<1> QED BY <1>4 DEF V

LEMMA BasesOnly ==
  ASSUME OrgOK(org), NEW m, Fit(m), OnlyPlan(org, m), NEW left PROVE OnlyPlan(MakeBases(m, left), m)
<1> DEFINE C == m.components
           done == {c \in Ready(m) : c.name \notin left}
           roots == {c.root : c \in Ready(m)}
           first == Ensured(org.space, roots, "root base")
           space == Ensured(first, Slugs(BasesOf(done)), "class base")
           had == Over(Rendered(Ready(m)), org.unit)
           unit == CloneAll(had, BasesOf(done))
           entity == org.entity \union {c.name : c \in Ready(m)}
           o == MakeBases(m, left)
<1>1. o = [org EXCEPT !.entity = entity, !.space = space, !.unit = unit]
  BY DEF MakeBases
<1>2. Ready(m) \subseteq C /\ done \subseteq C
  BY DEF Ready
<1>3. \A s \in DOMAIN first : Part(m, s, first[s])
  <2>1. \A s \in roots : Part(m, s, "root base")
    BY <1>2 DEF Part
  <2> QED BY <2>1, EnsuredParts DEF OnlyPlan
<1>4. \A s \in DOMAIN space : Part(m, s, space[s])
  <2>1. \A s \in Slugs(BasesOf(done)) : Part(m, s, "class base")
    BY <1>2 DEF Part, Slugs, BasesOf
  <2> HIDE DEF first
  <2> QED BY <1>3, <2>1, EnsuredParts
<1>5. entity \subseteq {c.name : c \in C}
  BY <1>2 DEF OnlyPlan
<1>6. Whole(DOMAIN had, C)
  BY <1>2, RenderedWhole DEF OnlyPlan, Fit
<1>7. Whole(DOMAIN unit, C)
  <2>1. \A x, y \in BasesOf(done) : x.slug = y.slug => x = y
    BY <1>2 DEF Fit, Cloneable, BasesOf
  <2>2. ASSUME NEW v \in BasesOf(done)
        PROVE  \E c \in C : \E w, z \in Kept(c) : w[2].slug = v.slug /\ z[2].slug = v.from
    <3>1. PICK c \in C : v \in c.bases
      BY <1>2 DEF BasesOf
    <3>2. v.from = c.root
      BY <3>1 DEF Fit, Cloneable
    <3> QED BY <3>1, <3>2, KeptHas
  <2>3. Apart(C)
    BY DEF Fit
  <2> HIDE DEF had, done, C
  <2> QED BY <1>6, <2>1, <2>2, <2>3, WholeClones
<1>8. DOMAIN org.unit \subseteq DOMAIN unit
  <2>1. DOMAIN org.unit \subseteq DOMAIN had
    BY DEF Over
  <2> HIDE DEF had, done
  <2> QED BY <2>1, ClonesOf
<1> HIDE DEF space, unit, entity, o
<1>9. /\ o.space = space /\ o.unit = unit /\ o.target = org.target /\ o.entity = entity
      /\ o.releases = org.releases
  BY <1>1, OrgWith
<1>10. Apart(m.components) /\ org.target \subseteq ClusterNames(m)
  BY DEF OnlyPlan, Fit
<1>11. OnlyPlan(o, m)
  BY <1>4, <1>5, <1>7, <1>8, <1>9, <1>10, OnlyGrown
<1> QED BY <1>11 DEF o

LEMMA DeploymentsOnly ==
  ASSUME OrgOK(org), NEW m, Fit(m), OnlyPlan(org, m), NEW left PROVE OnlyPlan(MakeDeployments(m, left), m)
<1> DEFINE C == m.components
           made == DeploymentsOf(Based(m))
           some == {d \in made : d.from \notin left}
           space == Ensured(org.space, Slugs(made), "deployment")
           unit == CloneAll(org.unit, some)
           o == MakeDeployments(m, left)
<1>1. o = [org EXCEPT !.space = space, !.unit = unit]
  BY DEF MakeDeployments
<1>2. Based(m) \subseteq C
  BY DEF Based, Ready
<1>3. \A s \in DOMAIN space : Part(m, s, space[s])
  <2>1. \A s \in Slugs(made) : Part(m, s, "deployment")
    BY <1>2 DEF Part, Slugs, DeploymentsOf
  <2> HIDE DEF made
  <2> QED BY <2>1, EnsuredParts DEF OnlyPlan
<1>4. Whole(DOMAIN unit, C)
  <2>1. \A x, y \in some : x.slug = y.slug => x = y
    BY <1>2 DEF Fit, Cloneable, DeploymentsOf
  <2>2. ASSUME NEW v \in some
        PROVE  \E c \in C : \E w, z \in Kept(c) : w[2].slug = v.slug /\ z[2].slug = v.from
    <3>1. PICK c \in C : v \in c.deployments
      BY <1>2 DEF DeploymentsOf
    <3>2. PICK b \in c.bases : v.from = b.slug
      BY <3>1 DEF Fit, Cloneable, Slugs
    <3> QED BY <3>1, <3>2, KeptHas
  <2>3. Apart(C) /\ Whole(DOMAIN org.unit, C)
    BY DEF Fit, OnlyPlan
  <2> HIDE DEF some, C
  <2> QED BY <2>1, <2>2, <2>3, WholeClones
<1>5. DOMAIN org.unit \subseteq DOMAIN unit
  <2> HIDE DEF some
  <2> QED BY ClonesOf
<1> HIDE DEF space, unit, o
<1>6. /\ o.space = space /\ o.unit = unit /\ o.target = org.target /\ o.entity = org.entity
      /\ o.releases = org.releases
  BY <1>1, OrgWith
<1>7. Apart(m.components) /\ org.target \subseteq ClusterNames(m) /\ org.entity \subseteq {c.name : c \in C}
  BY DEF OnlyPlan, Fit
<1>8. OnlyPlan(o, m)
  BY <1>3, <1>4, <1>5, <1>6, <1>7, OnlyGrown
<1> QED BY <1>8 DEF o

\* A role tells a deployment.
LEMMA DeploymentsKnown ==
  ASSUME NEW m, OnlyPlan(org, m), NEW s \in Spaces("deployment")
  PROVE  s \in Slugs(DeploymentsOf(m.components))
<1>1. s \in DOMAIN org.space /\ org.space[s] = "deployment"
  BY DEF Spaces
<1>2. Part(m, s, org.space[s])
  BY <1>1 DEF OnlyPlan
<1> QED BY <1>1, <1>2 DEF Part

LEMMA ReleasesOnly ==
  ASSUME OrgOK(org), NEW m, Fit(m), OnlyPlan(org, m), NEW left PROVE OnlyPlan(MakeReleases(m, left), m)
<1> DEFINE now == Publishable(m) \ left
           f == [s \in now |-> [count |-> Published(s) + 1, has |-> UnitsIn(s)]]
           releases == Over(f, org.releases)
           reported == org.reported \ now
           o == MakeReleases(m, left)
<1>1. o = [org EXCEPT !.releases = releases, !.reported = reported]
  BY DEF MakeReleases
<1>2. \A s : UnitsIn(s) = UnitsAt(DOMAIN org.unit, s)
  BY DEF UnitsIn, UnitsAt
<1>3. ASSUME NEW s \in now
      PROVE  /\ s \in Slugs(DeploymentsOf(m.components)) \ m.unreleased
             /\ f[s].count = 1 /\ f[s].has = UnitsAt(DOMAIN org.unit, s) /\ UnitsAt(DOMAIN org.unit, s) # {}
  <2>1. s \in Spaces("deployment") /\ s \notin m.unreleased /\ UnitsIn(s) # {}
    BY DEF Publishable
  <2>2. s \notin DOMAIN org.releases
    <3> SUFFICES ASSUME s \in DOMAIN org.releases PROVE FALSE
      OBVIOUS
    <3>1. org.releases[s].has # UnitsIn(s)
      BY DEF Publishable
    <3> QED BY <1>2, <3>1 DEF OnlyPlan
  <2>3. Published(s) = 0
    BY <2>2 DEF Published
  <2> QED BY <1>2, <2>1, <2>3, DeploymentsKnown
<1>4. DOMAIN f = now
  OBVIOUS
<1>5. /\ DOMAIN releases = now \union DOMAIN org.releases
      /\ \A s \in DOMAIN releases : releases[s] = IF s \in now THEN f[s] ELSE org.releases[s]
  <2> HIDE DEF f, now
  <2> QED BY <1>4 DEF Over
<1> HIDE DEF releases, reported, o, f, now
<1>6. /\ o.space = org.space /\ o.unit = org.unit /\ o.target = org.target /\ o.entity = org.entity
      /\ o.releases = releases
  BY <1>1, OrgWith
<1>7. OnlyPlan(o, m)
  BY <1>3, <1>5, <1>6 DEF OnlyPlan
<1> QED BY <1>7 DEF o

LEMMA ReportsOnly ==
  ASSUME OrgOK(org), NEW m, Fit(m), OnlyPlan(org, m), NEW left PROVE OnlyPlan(MakeReports(m, left), m)
<1> DEFINE reported == org.reported \union (Painted(m) \ left)
           o == MakeReports(m, left)
<1>1. o = [org EXCEPT !.reported = reported]
  BY DEF MakeReports
<1> HIDE DEF reported, o
<1>2. /\ o.space = org.space /\ o.unit = org.unit /\ o.target = org.target /\ o.entity = org.entity
      /\ o.releases = org.releases
  BY <1>1, OrgWith
<1>3. OnlyPlan(o, m)
  BY <1>2 DEF OnlyPlan
<1> QED BY <1>3 DEF o

LEMMA WalkOnly ==
  ASSUME StagesKept, OrgOK(org), WalkStories, NEW m, m = job.model, OnlyPlan(org, m),
         Ready(m) = m.components, DeploymentsOf(m.components) \subseteq Deployed
  PROVE  OnlyPlan(org', m)
<1>1. PICK walked, told : Walk(walked, told)
  BY WalkIs
<1>2. ASSUME NEW s \in DOMAIN org'.releases
      PROVE  /\ s \in Slugs(DeploymentsOf(m.components))
             /\ s \in StorySpaces(m) \/ (s \notin m.unreleased /\ org'.releases[s].count = 1)
             /\ org'.releases[s].has = UnitsAt(DOMAIN org.unit, s) /\ UnitsAt(DOMAIN org.unit, s) # {}
  <2>1. CASE s \in walked
    <3>1. /\ s \in Spaces("deployment") /\ UnitsIn(s) # {} /\ Walkers(m, s) # {}
          /\ org'.releases[s].has = UnitsIn(s)
      BY <1>1, <2>1 DEF Walk
    <3>2. s \in Slugs(DeploymentsOf(m.components))
      BY <3>1, DeploymentsKnown
    <3>3. s \in StorySpaces(m)
      BY <3>1, <3>2, WalkedToldOf
    <3>4. UnitsIn(s) = UnitsAt(DOMAIN org.unit, s)
      BY DEF UnitsIn, UnitsAt
    <3> QED BY <3>1, <3>2, <3>3, <3>4
  <2>2. CASE s \notin walked
    <3>1. s \in DOMAIN org.releases /\ org'.releases[s] = org.releases[s]
      BY <1>1, <2>2 DEF Walk
    <3> QED BY <3>1 DEF OnlyPlan
  <2> QED BY <2>1, <2>2
<1>3. /\ org'.space = org.space /\ org'.unit = org.unit /\ org'.target = org.target /\ org'.entity = org.entity
  BY <1>1 DEF Walk
<1> QED BY <1>2, <1>3 DEF OnlyPlan

LEMMA MadeOnly ==
  ASSUME OrgOK(org), NEW m, Fit(m), OnlyPlan(org, m), NEW left, NEW phase \in ToSet(Phases) \ {"views", "stories"}
  PROVE  OnlyPlan(Made(phase, m, left), m)
<1>1. phase \in {"home", "clusters", "bases", "deployments", "releases", "livestatus", "workflows"}
  BY DEF ToSet, Phases
<1> QED BY <1>1, HomeOnly, ClustersOnly, BasesOnly, DeploymentsOnly, ReleasesOnly, ReportsOnly DEF Made

\* What a teardown takes of a space, it takes whole.
LEMMA RemovedOnly ==
  ASSUME OrgOK(org), NEW m, OnlyPlan(org, m), NEW group, NEW S PROVE OnlyPlan(Removed(group, S), m)
<1> DEFINE o == Removed(group, S)
<1>1. CASE group = "components"
  <2> DEFINE entity == org.entity \ S
  <2>1. o = [org EXCEPT !.entity = entity]
    BY <1>1 DEF Removed
  <2>2. entity \subseteq org.entity
    OBVIOUS
  <2> HIDE DEF entity, o
  <2>3. /\ o.space = org.space /\ o.unit = org.unit /\ o.target = org.target /\ o.entity = entity
        /\ o.releases = org.releases
    BY <2>1, OrgWith
  <2>4. OnlyPlan(o, m)
    BY <2>2, <2>3 DEF OnlyPlan
  <2> QED BY <2>4 DEF o
<1>2. CASE group # "components"
  <2> DEFINE lost == {u \in DOMAIN org.unit : u[1] \in S}
             space == Without(org.space, S)
             unit == Without(org.unit, lost)
             releases == Without(org.releases, S)
             target == org.target \ S
             reported == org.reported \ S
             U == DOMAIN org.unit
             V == DOMAIN unit
  <2>1. o = [space |-> space, unit |-> unit, target |-> target, entity |-> org.entity,
             releases |-> releases, reported |-> reported]
    BY <1>2, RemovedIs
  <2>2. /\ DOMAIN space \subseteq DOMAIN org.space /\ \A s \in DOMAIN space : space[s] = org.space[s]
        /\ target \subseteq org.target
    BY DEF Without
  <2>3. V = {u \in U : u[1] \notin S}
    BY DEF Without
  <2>4. /\ DOMAIN releases = DOMAIN org.releases \ S
        /\ \A s \in DOMAIN releases : releases[s] = org.releases[s]
    BY DEF Without
  <2> HIDE DEF o, space, unit, releases, target, reported, lost, U, V
  <2>5. /\ o.space = space /\ o.unit = unit /\ o.target = target /\ o.entity = org.entity /\ o.releases = releases
    BY <2>1
  <2>6. \A s : s \notin S => UnitsAt(V, s) = UnitsAt(U, s)
    BY <2>3 DEF UnitsAt
  <2>7. Whole(V, m.components)
    <3>1. ASSUME NEW u \in V
          PROVE  u = <<u[1], u[2]>> /\ \E c \in m.components : \E w \in Kept(c) :
                   u[1] = w[2].slug /\ u[2] \in DOMAIN c.manifest /\ \A n \in DOMAIN c.manifest : <<u[1], n>> \in V
      <4>1. u \in U /\ u[1] \notin S
        BY <2>3
      <4>2. u = <<u[1], u[2]>>
        BY <4>1 DEF OnlyPlan, Whole, U
      <4>3. PICK c \in m.components : \E w \in Kept(c) :
              u[1] = w[2].slug /\ u[2] \in DOMAIN c.manifest /\ \A n \in DOMAIN c.manifest : <<u[1], n>> \in U
        BY <4>1 DEF OnlyPlan, Whole, U
      <4>4. \A n : <<u[1], n>>[1] = u[1]
        OBVIOUS
      <4>5. \A n \in DOMAIN c.manifest : <<u[1], n>> \in V
        BY <2>3, <4>1, <4>3, <4>4
      <4> QED BY <4>2, <4>3, <4>5
    <3> QED BY <3>1 DEF Whole
  <2>8. OnlyPlan(o, m)
    BY <2>2, <2>4, <2>5, <2>6, <2>7 DEF OnlyPlan, U, V
  <2> QED BY <2>8 DEF o
<1> QED BY <1>1, <1>2

-----------------------------------------------------------------------------
\* A definition that was installed whole is what is loaded.
InstalledHas == installed \in Draft => installed \in Installables /\ HasAll(installed)

\* What the org was grown by alone, is all there is of it.
GrownBy ==
  /\ grown = {} => org = NoOrg
  /\ \A v \in Draft : grown = {v} => v \in Installables /\ OnlyPlan(org, Plans[v])

LEMMA FitLoaded ==
  ASSUME StoredOK, Defined, VariantsApart, DeploymentsApart, RootsApart
  PROVE  Fit(Expand(Loaded))
<1>1. PICK v \in Installables : Loaded.scenario = Drafts[v].scenario
  BY LoadedIs
<1>2. Cloneable(Expand(Loaded))
  BY <1>1, LoadedCloneable
<1>3. Apart(Expand(Loaded).components)
  BY SpacesAreApart
<1> QED BY <1>2, <1>3 DEF Fit

\* Every manifest of a definition that was installed whole is there.
LEMMA AllReady ==
  ASSUME NEW v \in Installables, HasAll(v)
  PROVE  Ready(Expand(Loaded)) = Expand(Loaded).components
<1>1. Loaded.scenario = Drafts[v].scenario
  BY ReadBack
<1>2. ASSUME NEW m \in Expand(Loaded).components PROVE m.ready
  <2>1. PICK c \in ToSet(AllComponents(Loaded.scenario)) : m = Component(Loaded, c)
    BY ExpandIs
  <2>2. \A u \in ToSet(Loaded.specs[c.dir].units) : <<c.dir, u.file>> \in DOMAIN Loaded.files
    BY <1>1, ReadBack DEF FilePath
  <2> QED BY <2>1, <2>2 DEF Component
<1> QED BY <1>2 DEF Ready

LEMMA InstalledStep ==
  ASSUME LifeKept, InstalledHas, [LifeNext]_vars PROVE InstalledHas'
<1>1. ASSUME UNCHANGED <<stored, installed>> PROVE InstalledHas'
  BY <1>1, ReadSame DEF InstalledHas, HasAll
<1>2. CASE Store
  <2>1. PICK uncreated, unwritten :
          /\ stored' = Stored(job.model, uncreated, unwritten)
          /\ installed' = IF uncreated \union unwritten = {} THEN job.model ELSE "mixed"
    BY <1>2 DEF Store
  <2>2. CASE uncreated \union unwritten = {}
    <3>1. uncreated = {} /\ unwritten = {}
      BY <2>2
    <3>2. job.model \in Installables
      BY <1>2 DEF Store, LifeKept, JobOK
    <3> QED BY <2>1, <3>1, <3>2, StoreAll DEF InstalledHas
  <2>3. CASE uncreated \union unwritten # {}
    <3>1. installed' = "mixed" /\ "mixed" \notin Draft
      BY <2>1, <2>3, AgentsAssumption DEF Draft
    <3> QED BY <3>1 DEF InstalledHas
  <2> QED BY <2>2, <2>3
<1>3. CASE TearDown
  <2>1. UNCHANGED <<stored, installed>> \/ installed' = "none"
    BY <1>3 DEF TearDown
  <2>2. "none" \notin Draft
    BY AgentsAssumption DEF Draft
  <2> QED BY <1>1, <2>1, <2>2 DEF InstalledHas
<1>4. CASE \E v \in Draft : Install(v)
  BY <1>1, <1>4 DEF Install, Start
<1>5. CASE at = 0 /\ Defined /\ LET model == Expand(Loaded) IN
             RunUp(model) \/ RunDown(model) \/ RunReset(model) \/ RunAgents
  <2>1. CASE RunUp(Expand(Loaded))
    BY <1>1, <2>1 DEF RunUp, Start
  <2>2. CASE RunDown(Expand(Loaded))
    BY <1>1, <2>2 DEF RunDown, Start
  <2>3. CASE RunReset(Expand(Loaded))
    BY <1>1, <2>3 DEF RunReset, Start
  <2>4. CASE RunAgents
    BY <1>1, <2>4 DEF RunAgents, Start
  <2> QED BY <1>5, <2>1, <2>2, <2>3, <2>4
<1>6. CASE Make \/ Refuse \/ ConvergeViews \/ WalkStories \/ ServeAgents \/ Crash \/ UNCHANGED vars
  BY <1>1, <1>6 DEF Make, Refuse, ConvergeViews, WalkStories, ServeAgents, Crash, vars, lifeVars
<1> QED BY <1>2, <1>3, <1>4, <1>5, <1>6 DEF LifeNext

\* There is nothing to take of an empty org.
LEMMA RemovedNone == ASSUME org = NoOrg, NEW group, NEW S, org' = Removed(group, S) PROVE org' = NoOrg
<1>1. OrgOK(org) /\ OrgOK(org')
  BY NoOrgOK, RemovedOK
<1>2. \A i \in 1 .. 6 : Group(org, Groups[i]) = {}
  BY DEF Group, NoOrg
<1>3. \A i \in 1 .. 6 : Group(org', Groups[i]) = {}
  BY <1>1, <1>2, GroupGone
<1> QED BY <1>1, <1>3, NothingLeft

LEMMA GrownMade ==
  ASSUME VariantsApart, DeploymentsApart, RootsApart, StagesKept, LifeKept, InstalledHas, GrownBy, Make \/ WalkStories
  PROVE  GrownBy'
<1>1. Make => \E left : /\ org' = Made(job.steps[at], job.model, left)
                       /\ job.steps[at] \in ToSet(Phases) \ {"views", "stories"}
  BY DEF Make, Doing
<1>2. /\ at # 0 /\ JobOK /\ OrgOK(org) /\ StoredOK /\ Doing(ToSet(Phases)) /\ grown' = grown \union {installed}
  <2>1. CASE Make
    BY <2>1 DEF Make, Doing, LifeKept
  <2>2. CASE WalkStories
    BY <2>2, WalkDoing DEF WalkStories, LifeKept
  <2> QED BY <2>1, <2>2
<1>3. Defined /\ job.model = Expand(Loaded)
  <2>1. job.verb \in {"up", "reset"}
    BY <1>2, StepsOf
  <2> QED BY <1>2, <2>1 DEF JobOK
<1>4. ASSUME NEW v \in Draft, grown' = {v} PROVE v \in Installables /\ OnlyPlan(org', Plans[v])
  <2>1. installed = v /\ (grown = {} \/ grown = {v})
    BY <1>2, <1>4
  <2>2. v \in Installables /\ Expand(Loaded) = Plans[v]
    BY <2>1, LoadedBack DEF InstalledHas
  <2>3. OnlyPlan(org, Plans[v])
    <3>1. CASE grown = {v}
      BY <3>1 DEF GrownBy
    <3>2. CASE grown = {}
      <4>1. /\ DOMAIN org.space = {} /\ org.target = {} /\ org.entity = {}
            /\ DOMAIN org.unit = {} /\ DOMAIN org.releases = {}
        BY <3>2 DEF GrownBy, NoOrg
      <4> QED BY <4>1 DEF OnlyPlan, Whole
    <3> QED BY <2>1, <3>1, <3>2
  <2>4. CASE Make
    <3>1. Fit(Plans[v])
      BY <1>2, <1>3, <2>2, FitLoaded
    <3> QED BY <1>1, <1>2, <1>3, <2>2, <2>3, <2>4, <3>1, MadeOnly
  <2>5. CASE WalkStories
    <3>1. Ready(Plans[v]) = Plans[v].components
      BY <2>1, <2>2, AllReady DEF InstalledHas
    <3>2. DeploymentsOf(Plans[v].components) \subseteq Deployed
      BY <1>2, <1>3, <2>2, LoadedDeployed
    <3> QED BY <1>2, <1>3, <2>2, <2>3, <2>5, <3>1, <3>2, WalkOnly
  <2> QED BY <2>4, <2>5
<1> QED BY <1>2, <1>4 DEF GrownBy

LEMMA GrownTaken == ASSUME LifeKept, GrownBy, TearDown PROVE GrownBy'
<1>1. PICK gone : org' = Removed(job.steps[at], gone)
  BY DEF TearDown
<1>2. OrgOK(org) /\ grown' = IF org' = NoOrg THEN {} ELSE grown
  BY DEF TearDown, LifeKept
<1>3. CASE org' = NoOrg
  BY <1>2, <1>3 DEF GrownBy
<1>4. CASE org' # NoOrg
  <2>1. grown' = grown
    BY <1>2, <1>4
  <2>2. grown # {}
    BY <1>1, <1>4, RemovedNone DEF GrownBy
  <2>3. \A v \in Draft : grown' = {v} => v \in Installables /\ OnlyPlan(org', Plans[v])
    BY <1>1, <1>2, <2>1, RemovedOnly DEF GrownBy
  <2> QED BY <2>1, <2>2, <2>3 DEF GrownBy
<1> QED BY <1>3, <1>4

LEMMA GrownStep ==
  ASSUME VariantsApart, DeploymentsApart, RootsApart, StagesKept, LifeKept, InstalledHas, GrownBy, [LifeNext]_vars
  PROVE  GrownBy'
<1>1. ASSUME UNCHANGED <<org, grown>> PROVE GrownBy'
  BY <1>1 DEF GrownBy
<1>2. CASE \E v \in Draft : Install(v)
  BY <1>1, <1>2 DEF Install, Start
<1>3. CASE at = 0 /\ Defined /\ LET model == Expand(Loaded) IN
             RunUp(model) \/ RunDown(model) \/ RunReset(model) \/ RunAgents
  <2>1. CASE RunUp(Expand(Loaded))
    BY <1>1, <2>1 DEF RunUp, Start
  <2>2. CASE RunDown(Expand(Loaded))
    BY <1>1, <2>2 DEF RunDown, Start
  <2>3. CASE RunReset(Expand(Loaded))
    BY <1>1, <2>3 DEF RunReset, Start
  <2>4. CASE RunAgents
    BY <1>1, <2>4 DEF RunAgents, Start
  <2> QED BY <1>3, <2>1, <2>2, <2>3, <2>4
<1>4. CASE Store \/ Refuse \/ ConvergeViews \/ ServeAgents \/ Crash \/ UNCHANGED vars
  BY <1>1, <1>4 DEF Store, Refuse, ConvergeViews, ServeAgents, Crash, vars, lifeVars
<1> QED BY <1>2, <1>3, <1>4, GrownMade, GrownTaken DEF LifeNext

-----------------------------------------------------------------------------
(* Then there is as much of everything as the plan says *)

\* No draft gives a cluster's space the slug of a root base or a class base.
ClustersApart ==
  \A v \in Installables :
    LET s == Drafts[v].scenario IN
    \A k, l \in Clusters(s), c \in ToSet(AllComponents(s)) :
      k.name # RootSpace(c.name) /\ k.name # Variant(c.name, l.class)

\* The kinds of spaces of a plan have slugs of their own.
Roots(C) == {c.root : c \in C}
KindsApart(m) ==
  /\ m.home \notin ClusterNames(m) \union Roots(m.components)
                     \union Slugs(BasesOf(m.components)) \union Slugs(DeploymentsOf(m.components))
  /\ ClusterNames(m) \intersect (Roots(m.components) \union Slugs(BasesOf(m.components))
                                   \union Slugs(DeploymentsOf(m.components))) = {}
NamesApart(C) == \A c, d \in C : c.name = d.name => c = d

LEMMA KindsAreApart ==
  ASSUME NEW v \in Installables, HomesApart, DeploymentsApart, ClustersApart
  PROVE  KindsApart(Expand(Drafts[v]))
<1> DEFINE b == Drafts[v]
           s == b.scenario
           m == Expand(b)
           C == m.components
<1>1. /\ ClusterNames(m) \subseteq OtherSlugs(s) /\ Roots(C) \subseteq OtherSlugs(s)
      /\ Slugs(BasesOf(C)) \subseteq OtherSlugs(s) /\ Slugs(DeploymentsOf(C)) \subseteq DeploymentSlugs(s)
  BY PlanSlugs DEF Roots
<1>2. m.home = Home(s) /\ Home(s) \notin DeploymentSlugs(s) \union OtherSlugs(s)
  BY ExpandIs DEF HomesApart
<1>3. DeploymentSlugs(s) \intersect OtherSlugs(s) = {}
  BY DEF DeploymentsApart
<1>4. ASSUME NEW k \in Clusters(s) PROVE k.name \notin Roots(C) \union Slugs(BasesOf(C))
  <2>1. ASSUME NEW n \in C PROVE k.name # n.root /\ \A d \in n.bases : k.name # d.slug
    <3>1. PICK c \in ToSet(AllComponents(s)) : n = Component(b, c)
      BY ExpandIs, Zenon
    <3> DEFINE on == {l \in Clusters(s) : PlacedOn(c.placement, l)}
    <3>2. n.root = RootSpace(c.name) /\ n.bases = {[slug |-> Variant(c.name, l.class), from |-> RootSpace(c.name)] : l \in on}
      BY <3>1 DEF Component
    <3>3. on \subseteq Clusters(s)
      OBVIOUS
    <3>4. k.name # RootSpace(c.name) /\ \A l \in Clusters(s) : k.name # Variant(c.name, l.class)
      BY DEF ClustersApart
    <3> HIDE DEF on
    <3> QED BY <3>2, <3>3, <3>4
  <2> QED BY <2>1 DEF Roots, Slugs, BasesOf
<1>5. ClusterNames(m) = {k.name : k \in Clusters(s)}
  BY ExpandIs DEF ClusterNames
<1> HIDE DEF C, m
<1>6. ClusterNames(m) \intersect (Roots(C) \union Slugs(BasesOf(C)) \union Slugs(DeploymentsOf(C))) = {}
  BY <1>1, <1>3, <1>4, <1>5
<1>7. KindsApart(m)
  BY <1>1, <1>2, <1>6 DEF KindsApart, C
<1> QED BY <1>7 DEF m

LEMMA NamesAreApart == ASSUME Defined PROVE NamesApart(Expand(Loaded).components)
<1> SUFFICES ASSUME NEW m \in Expand(Loaded).components, NEW n \in Expand(Loaded).components, m.name = n.name
             PROVE  m = n
  BY DEF NamesApart
<1>1. PICK c \in ToSet(AllComponents(Loaded.scenario)) : m = Component(Loaded, c)
  BY ExpandIs, Zenon
<1>2. PICK d \in ToSet(AllComponents(Loaded.scenario)) : n = Component(Loaded, d)
  BY ExpandIs, Zenon
<1>3. m.name = c.name /\ n.name = d.name
  BY <1>1, <1>2 DEF Component
<1> QED BY <1>1, <1>2, <1>3, NamesTell

LEMMA Together ==
  ASSUME NEW S, IsFiniteSet(S), NEW T, IsFiniteSet(T), S \intersect T = {}
  PROVE  IsFiniteSet(S \union T) /\ Cardinality(S \union T) = Cardinality(S) + Cardinality(T)
<1>1. Cardinality(S \intersect T) = 0
  BY FS_EmptySet
<1>2. /\ IsFiniteSet(S \union T)
      /\ Cardinality(S \union T) = Cardinality(S) + Cardinality(T) - Cardinality(S \intersect T)
  BY FS_Union
<1>3. Cardinality(S) \in Nat /\ Cardinality(T) \in Nat
  BY FS_CardinalityType
<1> QED BY <1>1, <1>2, <1>3

LEMMA RootsCounted ==
  ASSUME NEW C, IsFiniteSet(C), Apart(C)
  PROVE  IsFiniteSet(Roots(C)) /\ Cardinality(Roots(C)) = Cardinality(C)
<1> DEFINE f == [c \in C |-> c.root]
<1>1. \A c, d \in C : f[c] = f[d] => c = d
  <2> SUFFICES ASSUME NEW c \in C, NEW d \in C, c.root = d.root PROVE c = d
    OBVIOUS
  <2>1. \E w \in Kept(c) : w[2].slug = c.root
    BY KeptHas
  <2>2. \E w \in Kept(d) : w[2].slug = d.root
    BY KeptHas
  <2> QED BY <2>1, <2>2 DEF Apart
<1>2. Roots(C) = {f[c] : c \in C}
  BY DEF Roots
<1>3. DOMAIN f = C /\ f = [c \in C |-> f[c]]
  OBVIOUS
<1> HIDE DEF f
<1> QED BY <1>1, <1>2, <1>3, ImageCount

LEMMA BasesCounted ==
  ASSUME NEW C, Apart(C), IsFiniteSet(BasesOf(C))
  PROVE  /\ IsFiniteSet(Slugs(BasesOf(C))) /\ IsFiniteSet(BasesFor(C))
         /\ Cardinality(Slugs(BasesOf(C))) = Cardinality(BasesFor(C))
<1> DEFINE S == BasesFor(C)
           T == Slugs(BasesOf(C))
           f == [x \in S |-> x[2].slug]
<1>0. IsFiniteSet(T)
  BY NamesFinite
<1>1. ASSUME NEW x \in S PROVE x = <<x[1], x[2]>> /\ x[1] \in C /\ x[2] \in x[1].bases
  <2>1. PICK c \in C : x \in {c} \X c.bases
    BY DEF BasesFor
  <2> QED BY <2>1
<1>2. \A x, y \in S : f[x] = f[y] => x = y
  <2> SUFFICES ASSUME NEW x \in S, NEW y \in S, x[2].slug = y[2].slug PROVE x = y
    OBVIOUS
  <2>1. <<"base", x[2]>> \in Kept(x[1]) /\ <<"base", y[2]>> \in Kept(y[1])
    BY <1>1 DEF Kept
  <2>2. <<"base", x[2]>>[2].slug = <<"base", y[2]>>[2].slug
    OBVIOUS
  <2>3. x[1] = y[1] /\ <<"base", x[2]>> = <<"base", y[2]>>
    BY <1>1, <2>1, <2>2 DEF Apart
  <2>4. x[2] = y[2]
    BY <2>3
  <2> QED BY <1>1, <2>3, <2>4
<1>3. \A x \in S : f[x] \in T
  BY <1>1 DEF Slugs, BasesOf
<1>4. ASSUME NEW t \in T PROVE \E x \in S : f[x] = t
  <2>1. PICK d \in BasesOf(C) : t = d.slug
    BY DEF Slugs
  <2>2. PICK c \in C : d \in c.bases
    BY <2>1 DEF BasesOf
  <2>3. <<c, d>> \in S /\ f[<<c, d>>] = d.slug
    BY <2>2 DEF BasesFor
  <2> QED BY <2>1, <2>3
<1>5. DOMAIN f = S /\ f = [x \in S |-> f[x]]
  OBVIOUS
<1>6. T = {f[x] : x \in S}
  <2> HIDE DEF f, T
  <2> QED BY <1>3, <1>4
<1>7. IsFiniteSet(S)
  <2> HIDE DEF f, S, T
  <2> QED BY <1>0, <1>2, <1>3, <1>5, MapsInto
<1>8. Cardinality(T) = Cardinality(S)
  <2> HIDE DEF f, S, T
  <2> QED BY <1>2, <1>5, <1>6, <1>7, ImageCount
<1> QED BY <1>0, <1>7, <1>8

LEMMA DeploymentsCounted ==
  ASSUME NEW C, Apart(C), IsFiniteSet(DeploymentsOf(C))
  PROVE  /\ IsFiniteSet(Slugs(DeploymentsOf(C))) /\ IsFiniteSet(DeploymentsFor(C))
         /\ Cardinality(Slugs(DeploymentsOf(C))) = Cardinality(DeploymentsFor(C))
<1> DEFINE S == DeploymentsFor(C)
           T == Slugs(DeploymentsOf(C))
           f == [x \in S |-> x[2].slug]
<1>0. IsFiniteSet(T)
  BY NamesFinite
<1>1. ASSUME NEW x \in S PROVE x = <<x[1], x[2]>> /\ x[1] \in C /\ x[2] \in x[1].deployments
  <2>1. PICK c \in C : x \in {c} \X c.deployments
    BY DEF DeploymentsFor
  <2> QED BY <2>1
<1>2. \A x, y \in S : f[x] = f[y] => x = y
  <2> SUFFICES ASSUME NEW x \in S, NEW y \in S, x[2].slug = y[2].slug PROVE x = y
    OBVIOUS
  <2>1. <<"deployment", x[2]>> \in Kept(x[1]) /\ <<"deployment", y[2]>> \in Kept(y[1])
    BY <1>1 DEF Kept
  <2>2. <<"deployment", x[2]>>[2].slug = <<"deployment", y[2]>>[2].slug
    OBVIOUS
  <2>3. x[1] = y[1] /\ <<"deployment", x[2]>> = <<"deployment", y[2]>>
    BY <1>1, <2>1, <2>2 DEF Apart
  <2>4. x[2] = y[2]
    BY <2>3
  <2> QED BY <1>1, <2>3, <2>4
<1>3. \A x \in S : f[x] \in T
  BY <1>1 DEF Slugs, DeploymentsOf
<1>4. ASSUME NEW t \in T PROVE \E x \in S : f[x] = t
  <2>1. PICK d \in DeploymentsOf(C) : t = d.slug
    BY DEF Slugs
  <2>2. PICK c \in C : d \in c.deployments
    BY <2>1 DEF DeploymentsOf
  <2>3. <<c, d>> \in S /\ f[<<c, d>>] = d.slug
    BY <2>2 DEF DeploymentsFor
  <2> QED BY <2>1, <2>3
<1>5. DOMAIN f = S /\ f = [x \in S |-> f[x]]
  OBVIOUS
<1>6. T = {f[x] : x \in S}
  <2> HIDE DEF f, T
  <2> QED BY <1>3, <1>4
<1>7. IsFiniteSet(S)
  <2> HIDE DEF f, S, T
  <2> QED BY <1>0, <1>2, <1>3, <1>5, MapsInto
<1>8. Cardinality(T) = Cardinality(S)
  <2> HIDE DEF f, S, T
  <2> QED BY <1>2, <1>5, <1>6, <1>7, ImageCount
<1> QED BY <1>0, <1>7, <1>8

\* The spaces of a plan, home, clusters, roots, bases and deployments.
LEMMA SpacesCounted ==
  ASSUME NEW m, KindsApart(m), Apart(m.components), FinitePlan(m), NEW S,
         S = {m.home} \union ClusterNames(m) \union Roots(m.components)
               \union Slugs(BasesOf(m.components)) \union Slugs(DeploymentsOf(m.components))
  PROVE  Cardinality(S) = 1 + Cardinality(ClusterNames(m)) + Cardinality(m.components)
                            + Cardinality(BasesFor(m.components)) + Cardinality(DeploymentsFor(m.components))
<1> DEFINE C == m.components
           K == ClusterNames(m)
           R == Roots(C)
           B == Slugs(BasesOf(C))
           D == Slugs(DeploymentsOf(C))
<1>1. /\ IsFiniteSet(K) /\ IsFiniteSet(C) /\ IsFiniteSet(BasesOf(C)) /\ IsFiniteSet(DeploymentsOf(C))
  BY VariantsFinite DEF FinitePlan
<1>2. /\ IsFiniteSet(R) /\ Cardinality(R) = Cardinality(C)
      /\ IsFiniteSet(B) /\ Cardinality(B) = Cardinality(BasesFor(C))
      /\ IsFiniteSet(D) /\ Cardinality(D) = Cardinality(DeploymentsFor(C))
  BY <1>1, RootsCounted, BasesCounted, DeploymentsCounted
<1>3. ASSUME NEW c \in C, NEW d \in C
      PROVE  /\ \A b \in d.bases : b.slug # c.root
             /\ \A e \in d.deployments : e.slug # c.root
             /\ \A b \in c.bases, e \in d.deployments : b.slug # e.slug
  <2> DEFINE root == <<"root", [slug |-> c.root]>>
             base(b) == <<"base", b>>
             deployment(e) == <<"deployment", e>>
  <2>1. root \in Kept(c) /\ root[2].slug = c.root
    BY DEF Kept
  <2>2. \A n \in C : /\ \A b \in n.bases : base(b) \in Kept(n) /\ base(b)[2].slug = b.slug
                     /\ \A e \in n.deployments : deployment(e) \in Kept(n) /\ deployment(e)[2].slug = e.slug
    BY DEF Kept
  <2>3. \A m1, m2 \in C : \A x \in Kept(m1), y \in Kept(m2) : x[2].slug = y[2].slug => x = y
    BY DEF Apart
  <2>4. \A b, e : root # base(b) /\ root # deployment(e) /\ base(b) # deployment(e)
    OBVIOUS
  <2> HIDE DEF root, base, deployment, C
  <2> QED BY <2>1, <2>2, <2>3, <2>4
<1>4. R \intersect B = {} /\ (R \union B) \intersect D = {}
  BY <1>3 DEF Roots, Slugs, BasesOf, DeploymentsOf
<1>5. {m.home} \intersect K = {} /\ ({m.home} \union K) \intersect ((R \union B) \union D) = {}
  BY DEF KindsApart
<1>6. S = ({m.home} \union K) \union ((R \union B) \union D)
  OBVIOUS
<1> HIDE DEF C, K, R, B, D
<1>7. IsFiniteSet({m.home}) /\ Cardinality({m.home}) = 1
  BY FS_Singleton
<1>8. IsFiniteSet({m.home} \union K) /\ Cardinality({m.home} \union K) = 1 + Cardinality(K)
  BY <1>1, <1>5, <1>7, Together
<1>9. IsFiniteSet(R \union B) /\ Cardinality(R \union B) = Cardinality(R) + Cardinality(B)
  BY <1>2, <1>4, Together
<1>10. /\ IsFiniteSet((R \union B) \union D)
       /\ Cardinality((R \union B) \union D) = Cardinality(R \union B) + Cardinality(D)
  BY <1>2, <1>4, <1>9, Together
<1>11. Cardinality(S) = Cardinality({m.home} \union K) + Cardinality((R \union B) \union D)
  BY <1>5, <1>6, <1>8, <1>10, Together
<1>12. Cardinality(K) \in Nat /\ Cardinality(R) \in Nat /\ Cardinality(B) \in Nat /\ Cardinality(D) \in Nat
  BY <1>1, <1>2, FS_CardinalityType
<1>13. Cardinality(S) = 1 + Cardinality(K) + Cardinality(R) + Cardinality(B) + Cardinality(D)
  BY <1>8, <1>9, <1>10, <1>11, <1>12
<1> QED BY <1>2, <1>13 DEF C, K

\* The units of components, and those that are linked to another's.
LEMMA UnitsForHave ==
  ASSUME NEW C, NEW c \in C, NEW i \in 1 .. Len(c.units), NEW w \in Kept(c)
  PROVE  /\ <<c, i, w>> \in UnitsFor(C)
         /\ w # <<"root", [slug |-> c.root]>> => <<c, i, w>> \in LinksFor(C)
<1> DEFINE variants(m) == ({"base"} \X m.bases) \union ({"deployment"} \X m.deployments)
           root(m) == <<"root", [slug |-> m.root]>>
           links(m) == {m} \X (1 .. Len(m.units)) \X variants(m)
           roots(m) == {m} \X (1 .. Len(m.units)) \X {root(m)}
<1>1. LinksFor(C) = UNION {links(m) : m \in C} /\ UnitsFor(C) = LinksFor(C) \union UNION {roots(m) : m \in C}
  BY DEF LinksFor, UnitsFor
<1>2. w \in variants(c) \/ w = root(c)
  BY DEF Kept
<1> HIDE DEF variants, root
<1>3. /\ w \in variants(c) => <<c, i, w>> \in links(c)
      /\ w = root(c) => <<c, i, w>> \in roots(c)
  OBVIOUS
<1> HIDE DEF links, roots
<1>4. /\ w \in variants(c) => <<c, i, w>> \in LinksFor(C)
      /\ w = root(c) => <<c, i, w>> \in UnitsFor(C)
  BY <1>1, <1>3
<1> QED BY <1>1, <1>2, <1>4 DEF root

LEMMA LinksForAre ==
  ASSUME NEW C, NEW x \in LinksFor(C)
  PROVE  x \in UnitsFor(C) /\ x[3] # <<"root", [slug |-> x[1].root]>>
<1> DEFINE variants(m) == ({"base"} \X m.bases) \union ({"deployment"} \X m.deployments)
<1>1. PICK m \in C : x \in {m} \X (1 .. Len(m.units)) \X variants(m)
  BY DEF LinksFor
<1>2. x[3] \in variants(m)
  <2> HIDE DEF variants
  <2> QED BY <1>1
<1>3. x[3][1] \in {"base", "deployment"}
  BY <1>2
<1>4. <<"root", [slug |-> x[1].root]>>[1] = "root"
  OBVIOUS
<1>5. x[3] # <<"root", [slug |-> x[1].root]>>
  BY <1>3, <1>4
<1> QED BY <1>5 DEF UnitsFor

\* All units there are, are the plan's, and linked but in the root bases.
LEMMA UnitsAreFor ==
  ASSUME NEW C, NEW U, \A c \in C : UnitsListed(c), Whole(U, C),
         \A c \in C : \A w \in Kept(c), n \in DOMAIN c.manifest : <<w[2].slug, n>> \in U
  PROVE  U = {Unit(x) : x \in UnitsFor(C)}
<1>1. ASSUME NEW x \in UnitsFor(C) PROVE Unit(x) \in U
  <2>1. x[1] \in C /\ x[2] \in 1 .. Len(x[1].units) /\ x[3] \in Kept(x[1])
    BY UnitsForAre
  <2>2. x[1].units[x[2]] \in DOMAIN x[1].manifest
    BY <2>1 DEF UnitsListed
  <2> QED BY <2>1, <2>2 DEF Unit
<1>2. ASSUME NEW u \in U PROVE \E x \in UnitsFor(C) : u = Unit(x)
  <2>1. u = <<u[1], u[2]>>
    BY DEF Whole
  <2>2. PICK c \in C : \E w \in Kept(c) : u[1] = w[2].slug /\ u[2] \in DOMAIN c.manifest
    BY DEF Whole
  <2>3. PICK w \in Kept(c) : u[1] = w[2].slug
    BY <2>2
  <2>4. PICK i \in 1 .. Len(c.units) : c.units[i] = u[2]
    BY <2>2 DEF UnitsListed
  <2>5. <<c, i, w>> \in UnitsFor(C)
    BY UnitsForHave
  <2>6. Unit(<<c, i, w>>) = u
    BY <2>1, <2>3, <2>4 DEF Unit
  <2> QED BY <2>5, <2>6
<1> QED BY <1>1, <1>2

LEMMA LinksAreFor ==
  ASSUME NEW m, KindsApart(m), Apart(m.components), NEW o, OrgOK(o), \A s \in DOMAIN o.space : Part(m, s, o.space[s]),
         DOMAIN o.unit = {Unit(x) : x \in UnitsFor(m.components)}
  PROVE  {u \in DOMAIN o.unit : o.space[u[1]] # "root base"} = {Unit(x) : x \in LinksFor(m.components)}
<1> DEFINE C == m.components
           root(c) == <<"root", [slug |-> c.root]>>
<1>1. ASSUME NEW x \in UnitsFor(C)
      PROVE  o.space[Unit(x)[1]] = "root base" <=> x[3] = root(x[1])
  <2>1. x[1] \in C /\ x[3] \in Kept(x[1])
    BY UnitsForAre
  <2> DEFINE s == x[3][2].slug
  <2>2. Unit(x)[1] = s
    BY DEF Unit
  <2>3. s \in DOMAIN o.space
    BY <2>2 DEF OrgOK, Standing
  <2>4. Part(m, s, o.space[s])
    BY <2>3
  <2>5. \A c \in C : root(c) \in Kept(c) /\ root(c)[2].slug = c.root /\ root(c)[1] = "root"
    BY DEF Kept
  <2>6. ASSUME o.space[s] = "root base" PROVE x[3] = root(x[1])
    <3>1. PICK c \in C : s = c.root
      BY <2>4, <2>6 DEF Part
    <3>2. x[1] = c /\ x[3] = root(c)
      <4> HIDE DEF root
      <4> QED BY <2>1, <2>5, <3>1 DEF Apart
    <3> QED BY <3>2
  <2>7. ASSUME x[3] = root(x[1]) PROVE o.space[s] = "root base"
    <3>1. s = x[1].root
      BY <2>7
    <3>2. s \in Roots(C)
      BY <2>1, <3>1 DEF Roots
    <3>3. s # m.home /\ s \notin ClusterNames(m)
      BY <3>2 DEF KindsApart
    <3>4. ASSUME NEW c \in C, NEW d, d \in c.bases \/ d \in c.deployments, d.slug = s PROVE FALSE
      <4>1. PICK w \in Kept(c) : w[2].slug = s /\ w[1] \in {"base", "deployment"}
        <5>1. CASE d \in c.bases
          <6>1. <<"base", d>> \in Kept(c) /\ <<"base", d>>[2].slug = s /\ <<"base", d>>[1] = "base"
            BY <3>4, <5>1 DEF Kept
          <6> QED BY <6>1
        <5>2. CASE d \in c.deployments
          <6>1. <<"deployment", d>> \in Kept(c) /\ <<"deployment", d>>[2].slug = s /\ <<"deployment", d>>[1] = "deployment"
            BY <3>4, <5>2 DEF Kept
          <6> QED BY <6>1
        <5> QED BY <3>4, <5>1, <5>2
      <4>2. w = x[3]
        BY <2>1, <4>1 DEF Apart
      <4> QED BY <2>1, <2>5, <2>7, <4>1, <4>2
    <3>5. s \notin Slugs(BasesOf(C)) /\ s \notin Slugs(DeploymentsOf(C))
      BY <3>4 DEF Slugs, BasesOf, DeploymentsOf
    <3> QED BY <2>4, <3>3, <3>5 DEF Part
  <2> QED BY <2>2, <2>6, <2>7
<1>2. ASSUME NEW x \in LinksFor(C) PROVE x \in UnitsFor(C) /\ x[3] # root(x[1])
  BY LinksForAre
<1>3. ASSUME NEW x \in UnitsFor(C), x[3] # root(x[1]) PROVE x \in LinksFor(C)
  <2>1. x = <<x[1], x[2], x[3]>> /\ x[1] \in C /\ x[2] \in 1 .. Len(x[1].units) /\ x[3] \in Kept(x[1])
    BY UnitsForAre
  <2> QED BY <1>3, <2>1, UnitsForHave
<1> HIDE DEF C, root
<1>4. {u \in DOMAIN o.unit : o.space[u[1]] # "root base"} = {Unit(x) : x \in LinksFor(C)}
  <2>1. DOMAIN o.unit = {Unit(x) : x \in UnitsFor(C)}
    BY DEF C
  <2>2. \A x \in LinksFor(C) : Unit(x) \in DOMAIN o.unit /\ o.space[Unit(x)[1]] # "root base"
    BY <1>1, <1>2, <2>1
  <2>3. \A u \in DOMAIN o.unit : o.space[u[1]] # "root base" => \E x \in LinksFor(C) : u = Unit(x)
    BY <1>1, <1>3, <2>1
  <2> QED BY <2>2, <2>3
<1> QED BY <1>4 DEF C

LEMMA UnitsAllCounted ==
  ASSUME NEW C, Apart(C), \A c \in C : UnitsListed(c), NEW S, S \subseteq UnitsFor(C), IsFiniteSet(UnitsFor(C))
  PROVE  Cardinality({Unit(x) : x \in S}) = Cardinality(S)
<1> DEFINE f == [x \in S |-> Unit(x)]
<1>1. \A x, y \in S : f[x] = f[y] => x = y
  BY UnitsTold
<1>2. IsFiniteSet(S)
  BY FS_Subset
<1>3. DOMAIN f = S /\ f = [x \in S |-> f[x]]
  OBVIOUS
<1>4. {f[x] : x \in S} = {Unit(x) : x \in S}
  OBVIOUS
<1> HIDE DEF f
<1> QED BY <1>1, <1>2, <1>3, <1>4, ImageCount

LEMMA PlanIs ==
  ASSUME NEW v \in Installables, NEW m, m = Expand(Drafts[v])
  PROVE  /\ m.totals =
              [clusters |-> Cardinality(m.clusters), components |-> Cardinality(m.components),
               spaces |-> 1 + Cardinality(m.clusters) + Cardinality(m.components)
                            + Cardinality(BasesFor(m.components)) + Cardinality(DeploymentsFor(m.components)),
               units |-> Cardinality(UnitsFor(m.components)), links |-> Cardinality(LinksFor(m.components)),
               releases |-> Cardinality(DeploymentsFor(m.components)) - Cardinality(m.unreleased)]
         /\ IsFiniteSet(m.clusters)
         /\ m.unreleased \subseteq Slugs(DeploymentsOf(m.components))
<1> DEFINE b == Drafts[v]
           s == b.scenario
           models == {Component(b, c) : c \in ToSet(AllComponents(s))}
           S == UNION {{d.slug : d \in n.deployments} : n \in models}
           unreleased == Unreleased(s, S)
           stories == [i \in DOMAIN s.changeOrders |->
                        [component |-> s.changeOrders[i].component, bases |-> StageBases(s, s.changeOrders[i])]]
           totals == Totals(Clusters(s), models, unreleased)
<1>1. m = [home |-> Home(s), clusters |-> Clusters(s), components |-> models,
           unreleased |-> unreleased, stories |-> stories, totals |-> totals]
  BY DEF Expand, Home
<1>2. unreleased \subseteq S
  <2>1. v \in DOMAIN Drafts /\ {s.degraded, s.outOfSync, s.progressing, s.unreleased} \subseteq 0 .. 100
    BY ListsAssumption DEF Installables, Draft
  <2>2. Plans[v].components = models
    <3> HIDE DEF models, unreleased, stories, totals, S
    <3>1. Plans[v] = m
      BY DEF Plans
    <3>2. m.components = models
      BY <1>1
    <3> QED BY <3>1, <3>2
  <2>3. Shuffle(S, s.seed) \in Seq(S)
    <3>1. LET T == UNION {{d.slug : d \in n.deployments} : n \in Plans[v].components} IN Shuffle(T, Drafts[v].scenario.seed) \in Seq(T)
      BY ShuffleAssumption
    <3> QED BY <2>2, <3>1
  <2> HIDE DEF S, s
  <2> QED BY <2>1, <2>3, UnreleasedOf
<1>3. S = Slugs(DeploymentsOf(models))
  <2> HIDE DEF models
  <2> QED BY DEF Slugs, DeploymentsOf
<1>4. IsFiniteSet(Clusters(s))
  BY ComponentsListed
<1> HIDE DEF models, unreleased, S, s
<1>5. m.clusters = Clusters(s) /\ m.components = models /\ m.unreleased = unreleased /\ m.totals = totals
  <2> HIDE DEF stories, totals
  <2> QED BY <1>1
<1>6. totals =
        [clusters |-> Cardinality(Clusters(s)), components |-> Cardinality(models),
         spaces |-> 1 + Cardinality(Clusters(s)) + Cardinality(models)
                      + Cardinality(BasesFor(models)) + Cardinality(DeploymentsFor(models)),
         units |-> Cardinality(UnitsFor(models)), links |-> Cardinality(LinksFor(models)),
         releases |-> Cardinality(DeploymentsFor(models)) - Cardinality(unreleased)]
  BY DEF Totals
<1> HIDE DEF totals
<1> QED BY <1>2, <1>3, <1>4, <1>5, <1>6

\* A plan of which all is built, and nothing but it.
LEMMA BuiltAsPlanned ==
  ASSUME VariantsApart, DeploymentsApart, RootsApart, HomesApart, ClustersApart,
         LifeKept, Countable(org), BuiltWhole, NEW v \in Installables, HasAll(v), OnlyPlan(org, Plans[v])
  PROVE  Plans[v].totals =
      [clusters |-> Cardinality(org.target), components |-> Cardinality(org.entity),
       spaces |-> Cardinality(DOMAIN org.space), units |-> Cardinality(DOMAIN org.unit),
       links |-> Cardinality({u \in DOMAIN org.unit : org.space[u[1]] # "root base"}),
       releases |-> Cardinality(DOMAIN org.releases \ Plans[v].unreleased)]
<1> DEFINE m == Plans[v]
           C == m.components
<1>1. Defined /\ StoredOK /\ OrgOK(org) /\ Expand(Loaded) = m /\ m = Expand(Drafts[v])
  BY LoadedBack DEF LifeKept, Plans
<1>2. /\ HomeBuilt(m, org) /\ ClustersBuilt(m, org) /\ BasesBuilt(m, org)
      /\ DeploymentsBuilt(m, org) /\ ReleasesBuilt(m, org)
  BY <1>1 DEF BuiltWhole, Built
<1>3. Ready(m) = C
  BY <1>1, AllReady
<1>4. /\ Apart(C) /\ ClustersNamed(m) /\ (\A c \in C : UnitsListed(c)) /\ NamesApart(C) /\ KindsApart(m) /\ FinitePlan(m)
  BY <1>1, SpacesAreApart, ClustersAreNamed, UnitsOfComponent, NamesAreApart, KindsAreApart, LoadedIsFinite
<1>5. /\ m.totals =
              [clusters |-> Cardinality(m.clusters), components |-> Cardinality(m.components),
               spaces |-> 1 + Cardinality(m.clusters) + Cardinality(m.components)
                            + Cardinality(BasesFor(m.components)) + Cardinality(DeploymentsFor(m.components)),
               units |-> Cardinality(UnitsFor(m.components)), links |-> Cardinality(LinksFor(m.components)),
               releases |-> Cardinality(DeploymentsFor(m.components)) - Cardinality(m.unreleased)]
      /\ IsFiniteSet(m.clusters)
      /\ m.unreleased \subseteq Slugs(DeploymentsOf(m.components))
  BY <1>1, PlanIs
<1> HIDE DEF m
<1>6. /\ \A s \in DOMAIN org.space : Part(m, s, org.space[s])
      /\ org.target \subseteq ClusterNames(m) /\ org.entity \subseteq {c.name : c \in C}
      /\ Whole(DOMAIN org.unit, C)
      /\ DOMAIN org.releases \subseteq Slugs(DeploymentsOf(C))
  BY DEF OnlyPlan, m
<1>7. Cardinality(m.clusters) = Cardinality(org.target) /\ org.target = ClusterNames(m)
  <2> DEFINE K == m.clusters
             f == [k \in K |-> k.name]
  <2>1. org.target = ClusterNames(m)
    BY <1>2, <1>6 DEF ClustersBuilt
  <2>2. {f[k] : k \in K} = ClusterNames(m)
    BY DEF ClusterNames
  <2>3. \A k, l \in K : f[k] = f[l] => k = l
    BY <1>4 DEF ClustersNamed
  <2>4. DOMAIN f = K /\ f = [k \in K |-> f[k]] /\ IsFiniteSet(K)
    BY <1>5
  <2> HIDE DEF f, K
  <2>5. Cardinality({f[k] : k \in K}) = Cardinality(K)
    BY <2>3, <2>4, ImageCount
  <2> QED BY <2>1, <2>2, <2>5 DEF K
<1>8. Cardinality(C) = Cardinality(org.entity)
  <2> DEFINE f == [c \in C |-> c.name]
  <2>1. org.entity = {c.name : c \in C}
    BY <1>2, <1>3, <1>6 DEF BasesBuilt
  <2>2. {f[c] : c \in C} = {c.name : c \in C}
    OBVIOUS
  <2>3. \A c, d \in C : f[c] = f[d] => c = d
    BY <1>4 DEF NamesApart
  <2>4. DOMAIN f = C /\ f = [c \in C |-> f[c]] /\ IsFiniteSet(C)
    BY <1>4 DEF FinitePlan
  <2> HIDE DEF f, C
  <2>5. Cardinality({f[c] : c \in C}) = Cardinality(C)
    BY <2>3, <2>4, ImageCount
  <2> QED BY <2>1, <2>2, <2>5
<1>9. Cardinality(DOMAIN org.space) = 1 + Cardinality(m.clusters) + Cardinality(C)
                                        + Cardinality(BasesFor(C)) + Cardinality(DeploymentsFor(C))
  <2>1. \A c \in C : {c.root} \union Slugs(c.bases) \union Slugs(c.deployments) \subseteq DOMAIN org.space
    BY <1>2, <1>3 DEF BasesBuilt, DeploymentsBuilt
  <2>2. Roots(C) \union Slugs(BasesOf(C)) \union Slugs(DeploymentsOf(C)) \subseteq DOMAIN org.space
    BY <2>1 DEF Roots, Slugs, BasesOf, DeploymentsOf
  <2>3. m.home \in DOMAIN org.space /\ ClusterNames(m) \subseteq DOMAIN org.space
    BY <1>2 DEF HomeBuilt, ClustersBuilt
  <2>4. \A s \in DOMAIN org.space :
          s = m.home \/ s \in ClusterNames(m) \/ s \in Roots(C) \/ s \in Slugs(BasesOf(C)) \/ s \in Slugs(DeploymentsOf(C))
    BY <1>6 DEF Part, Roots
  <2>5. DOMAIN org.space = {m.home} \union ClusterNames(m) \union Roots(C) \union Slugs(BasesOf(C)) \union Slugs(DeploymentsOf(C))
    BY <2>2, <2>3, <2>4
  <2>6. Cardinality(DOMAIN org.space) = 1 + Cardinality(ClusterNames(m)) + Cardinality(C)
                                          + Cardinality(BasesFor(C)) + Cardinality(DeploymentsFor(C))
    BY <1>4, <2>5, SpacesCounted
  <2> QED BY <1>7, <2>6
<1>10. ASSUME NEW c \in C, NEW w \in Kept(c), NEW n \in DOMAIN c.manifest PROVE <<w[2].slug, n>> \in DOMAIN org.unit
  <2>1. w[2].slug \in {c.root} \union Slugs(c.bases) \union Slugs(c.deployments)
    BY DEF Kept, Slugs
  <2> QED BY <1>2, <1>3, <2>1 DEF BasesBuilt, DeploymentsBuilt
<1>11. IsFiniteSet(UnitsFor(C))
  <2>1. IsFiniteSet(DOMAIN org.unit)
    BY DEF Countable
  <2> HIDE DEF C
  <2> QED BY <1>4, <1>10, <2>1, UnitsCounted
<1>12. DOMAIN org.unit = {Unit(x) : x \in UnitsFor(C)}
  <2> HIDE DEF C
  <2> QED BY <1>4, <1>6, <1>10, UnitsAreFor
<1>13. Cardinality(UnitsFor(C)) = Cardinality(DOMAIN org.unit)
  <2> HIDE DEF C
  <2> QED BY <1>4, <1>11, <1>12, UnitsAllCounted
<1>14. Cardinality(LinksFor(C)) = Cardinality({u \in DOMAIN org.unit : org.space[u[1]] # "root base"})
  <2>1. {u \in DOMAIN org.unit : org.space[u[1]] # "root base"} = {Unit(x) : x \in LinksFor(C)}
    BY <1>1, <1>4, <1>6, <1>12, LinksAreFor
  <2>2. LinksFor(C) \subseteq UnitsFor(C)
    BY LinksForAre
  <2> HIDE DEF C
  <2>3. Cardinality({Unit(x) : x \in LinksFor(C)}) = Cardinality(LinksFor(C))
    BY <1>4, <1>11, <2>2, UnitsAllCounted
  <2> QED BY <2>1, <2>3
<1>15. Cardinality(DOMAIN org.releases \ m.unreleased) = Cardinality(DeploymentsFor(C)) - Cardinality(m.unreleased)
  <2> DEFINE D == Slugs(DeploymentsOf(C))
  <2>1. DOMAIN org.releases \ m.unreleased = D \ m.unreleased
    BY <1>2, <1>3, <1>6 DEF ReleasesBuilt, ReleasesWanted
  <2>3. IsFiniteSet(D) /\ Cardinality(D) = Cardinality(DeploymentsFor(C))
    BY <1>4, VariantsFinite, DeploymentsCounted
  <2>4. D \intersect m.unreleased = m.unreleased
    BY <1>5
  <2> HIDE DEF D
  <2>5. Cardinality(D \ m.unreleased) = Cardinality(D) - Cardinality(D \intersect m.unreleased)
    BY <2>3, FS_Difference
  <2> QED BY <2>1, <2>3, <2>4, <2>5
<1>16. m.totals =
      [clusters |-> Cardinality(org.target), components |-> Cardinality(org.entity),
       spaces |-> Cardinality(DOMAIN org.space), units |-> Cardinality(DOMAIN org.unit),
       links |-> Cardinality({u \in DOMAIN org.unit : org.space[u[1]] # "root base"}),
       releases |-> Cardinality(DOMAIN org.releases \ m.unreleased)]
  BY <1>5, <1>7, <1>8, <1>9, <1>13, <1>14, <1>15
<1> QED BY <1>16 DEF m

\* "Totals are the entity counts 'up' will produce" (expand.go), of Releases the
\* first ones: an up that got through over an org that is grown from nothing by
\* the installed definition alone leaves as many clusters, components, spaces,
\* units and links as `plan` says, and as many deployments with a Release beyond
\* those kept without; what no story walks has its first Release or is kept
\* without: however often verbs were cut short before and whatever was installed
\* over and over; where drafts keep the slugs of all spaces apart, and a
\* deployment its Component and class.
THEOREM UpMakesItsPlan ==
  ASSUME VariantsApart, DeploymentsApart, RootsApart, HomesApart, ClustersApart, StagesKept
  PROVE  LifeSpec => []UpMakesThePlan
<1> DEFINE All == LifeKept /\ Countable(org) /\ InstalledHas /\ GrownBy
<1>1. LifeInit => All
  <2> SUFFICES ASSUME LifeInit PROVE All
    OBVIOUS
  <2>1. /\ DOMAIN stored = {} /\ org.target = {} /\ DOMAIN org.unit = {} /\ DOMAIN org.releases = {}
    BY DEF LifeInit, NoOrg
  <2>2. InstalledHas
    <3>1. installed \notin Draft
      BY AgentsAssumption DEF LifeInit, Draft
    <3> QED BY <3>1 DEF InstalledHas
  <2>3. GrownBy
    BY DEF LifeInit, GrownBy
  <2> QED BY <2>1, <2>2, <2>3, KeptInit, FS_EmptySet DEF Countable, ReleasesNumbered
<1>2. All /\ [LifeNext]_vars => All'
  <2> SUFFICES ASSUME All, [LifeNext]_vars PROVE All'
    OBVIOUS
  <2>1. LifeKept'
    BY KeptStep
  <2>2. Countable(org)'
    BY CountableStep DEF Countable
  <2>3. InstalledHas' /\ GrownBy'
    BY InstalledStep, GrownStep
  <2> QED BY <2>1, <2>2, <2>3
<1>3. All /\ (said = "up" => BuiltWhole) => UpMakesThePlan
  <2> SUFFICES ASSUME All, BuiltWhole, installed \in Draft, grown = {installed}
               PROVE  /\ Plans[installed].totals =
                           [clusters |-> Cardinality(org.target), components |-> Cardinality(org.entity),
                            spaces |-> Cardinality(DOMAIN org.space), units |-> Cardinality(DOMAIN org.unit),
                            links |-> Cardinality({u \in DOMAIN org.unit : org.space[u[1]] # "root base"}),
                            releases |-> Cardinality(DOMAIN org.releases \ Plans[installed].unreleased)]
                      /\ \A s \in DOMAIN org.releases \ StorySpaces(Plans[installed]) :
                           s \notin Plans[installed].unreleased /\ org.releases[s].count = 1
    BY DEF UpMakesThePlan
  <2>1. installed \in Installables /\ HasAll(installed) /\ OnlyPlan(org, Plans[installed])
    BY DEF InstalledHas, GrownBy
  <2>2. \A s \in DOMAIN org.releases \ StorySpaces(Plans[installed]) :
          s \notin Plans[installed].unreleased /\ org.releases[s].count = 1
    BY <2>1 DEF OnlyPlan
  <2> QED BY <2>1, <2>2, BuiltAsPlanned
<1>4. LifeSpec => [](said = "up" => BuiltWhole)
  BY UpBuildsWhole
<1> HIDE DEF All
<1> QED BY <1>1, <1>2, <1>3, <1>4, PTL DEF LifeSpec
=============================================================================

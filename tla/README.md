# TLA+ verification of cub-demo

`cub demo` seeds a ConfigHub org with a scenario, plays beats against it, and
runs agents that keep changing it. Everything it does is calls to one shared
server that other people use at the same time; the program keeps no state of
its own between two runs. What is hard about it is therefore always the same
thing: a sequence of calls that stops in the middle, or that somebody else's
calls land in, must leave an org that the next call, or the next process, can
go on from. The models here are of those call sequences.

## 1. Inventory

| Component | State | Operations | Talks to | What makes it correct |
|---|---|---|---|---|
| **Agent runner** `internal/agents/runner.go` | per agent: phase, ChangeSet, cycle, whether review was asked for; all in memory, re-read from the org at a start | init/adopt, open, close, queue, startRollout, roll | `cub` child processes; Presenter for stages and Releases | one change order of a component in flight; no change lost or overtaken; stages released in order and once; the reviewer asked once; every change gets through; one waiting agent does not stop the others |
| **Agent accounts** `internal/agents/manager.go` | service accounts and API keys on the server, cub contexts on disk | Up, Down | server, `cub` | running Up or Down again completes what the last run left |
| **Seeder** `internal/seed/{seeder,home,clusters,bases,protections,deployments,deployfns,views}.go` | none; every object carries the demo's labels | ten phases in order | API client | running it again converges; nothing of another demo is taken over |
| **Releases, live status, stories** `internal/seed/{releases,livestatus,stories}.go` | none | publish first Releases, report on them, walk each story's change order | API client | a story ends where the scenario says; a re-run after an interruption resumes it |
| **Workflows** `internal/seed/workflows.go` | none | ensure the declared ChangeWorkflows, retire stale ones | API client | no workflow that a change order in flight uses is retired |
| **Teardown, status, install** `internal/seed/{teardown,provenance}.go`, `cmd/reset.go` | the stored scenario bundle | Teardown, Status, StoreBundle | API client | deletes all that is the demo's and nothing else, re-runnable |
| **API client** `internal/cubclient` | none | bulk create, patch, invoke; retry transport | HTTP | a retried request takes effect once |
| **Presenter** `internal/present` | a play's variables | RunSteps; observe, invoke, bump-image, changeorder; Argobot, Incident, Heal; FindRollout, StageSpaces, ReleasedUnder | API client, `cub` | finds the one rollout meant; reports only on what is released |
| **Scenario expansion** `internal/scenario/{expand,load,workflow}.go` | pure | load, validate, Expand, stage definitions, totals | – | the model contains what the scenario asks for, once, with unique slugs |
| **Command line** `cmd` | flags | up, down, reset, play, present verbs, agents, plan, status | all of the above | the context is pinned |
| **Rendering, execution** `internal/manifests`, `internal/cubexec` | – | templates, child process | – | – |
| **ConfigHub server** (external) | everything | – | – | – |

Components interact only through the server: a play run by a presenter and an
agent of the runner never share memory, but both name change orders in the
same base space, and both rely on "a component has at most one change order in
flight" (`present/presenter.go:9-11`).

The hard behaviours, each at its line, are the `hazards` of `PROJECT.json`.

For each component, the properties that make it correct are stated in its
module; what is not modelled is in sections 9 and 10.

## 2. Modules

| Module | Of | Contents |
|---|---|---|
| `ConfigHub` | the external server | ChangeSets, change orders, Releases and live status as `internal/agents` and `internal/present` use them |
| `AgentRunner` | `agents/runner.go` | adopt, and every move, one server call per step; crash, failed call, lost answer |
| `AgentDemo` | runner + people + delivery | `Init`, `Next`, the fairness, the properties, the refinement mapping |
| `ChangePipeline` | abstract specification | what the agents promise of their changes, with no runner, calls or crashes |
| `DemoOrg` | `seed/{seeder,home,clusters,bases,protections,deployments,deployfns,teardown}.go` | `up` from home to deployments and `down`, pool by pool, in an org where slugs may be taken |
| `SeedStories` | `seed/{releases,livestatus,stories}.go` | the last three phases of `up`, any set of them, beside edits |
| `StoryWalk` | abstract specification | what `up` promises of the stories, with no phases, runs, pools or failures |
| `ChangeWorkflows` | `seed/workflows.go`, `scenario/workflow.go` | the workflows phase over changing definitions, beside people who set rules, edit workflows and name orders |
| `Expansion` | `scenario/{schema,load,expand,fromorg}.go` | what `Load` accepts, what `Expand` makes of it, a bundle's files and the bundle read back from them: operators, no state |
| `FleetViews` | `seed/views.go` | the convergence of filters and views, call by call, under several versions of the tool |
| `AgentAccounts` | `agents/manager.go` | `agents up` and `agents down`, call by call, on several machines |
| `DemoLife` | `cmd/{install,up,down,reset,uninstall,status,agents,plan}.go`, `seed/{provenance,teardown}.go` and the phases | the verbs one after the other over changing definitions; composes the three modules above |
| `MCAgentDemo`, `MCDemoOrg`, `MCSeedStories`, `MCChangeWorkflows`, `MCDemoLife` | small instances | the values of the constants, and nothing else |
| `MCAgents`, `MCStories` | two instances side by side | the instances that two questions need, in one run: `which` says which of the two a behaviour is of, and never changes; `MCStories` assumes that its model values differ |
| `AgentDemoProofs`, `PipelineProofs`, `MCAgentsProofs` (of `MCAgents`), `ChangeWorkflowsProofs`, `DemoOrgProofs`, `DemoLifeProofs` (of `FleetViews`, `AgentAccounts` and `DemoLife`), `StoriesProofs`, `MCStoriesProofs` (of `MCStories`) | theorems | section 6 |

`AgentDemo` extends `AgentRunner`, which extends `ConfigHub`; it refines
`ChangePipeline`. `SeedStories` refines `StoryWalk`. `DemoLife` extends `Expansion`, `FleetViews` and `AgentAccounts`.
`DemoOrg`, `SeedStories` and `ChangeWorkflows` stand alone: they share no state
but the server's, and no two of them touch the same part of it but for the
change orders, which `ChangeWorkflows` follows only as far as the phase reads
them. `DemoLife` goes over the phases again, coarser than they do (one step per
phase, no functions or protections, of the stories only the Releases and reports
they make, and of the workflows that they want the home space), because its
questions are of other things: definitions that change, verbs that follow one
another, the tool on two machines.
Definitions whose comment says *Mutant* are plausible wrong versions of the
definition below them; the specifications use none of them.

### How state and actions correspond to the code

**Agents.** `phase`, `of` and `cur` (the owner and the number in `changeSet`'s slug),
`cycle` and `reviewRequested` are the fields of the runner's per-agent record. The
owner is the agent itself, but where `adopt` took a closed ChangeSet of somebody
else's for an agent that has none (section 8). `at` is the
program counter inside a move, one value per server call, and `sawRequired` and
`todo` are the locals a move carries from one call to the next. `Start` is
`init` and `adopt`; `CheckHeld` to `RunStep` are `open`, `CloseChangeSet` to
`AskReview` are `close`, `ListOrders` and `NameOrder` are `queue` and
`startRollout`, `RolloutComplete` to `Promote` are `roll` and what it calls in
`present`. The runner serves one agent at a time (`Begins` requires every agent
to be between moves), so what interleaves with a move is people, players and
the delivery system, and the next process. The interval between an agent's
moves is left out: an agent may be served whenever the runner is between moves.

**Seeding and teardown.** A phase is one or more pools (`forEach`): `todo` holds
the items left, taken in any order, one call at a time, and a failed item fails
the pool only when the others are done. Nothing is remembered between two runs;
`known` (`DemoOrg`), `seen` and `index` (`ChangeWorkflows`) are what one run has
read and acts on later. In `DemoOrg` the next call of an item is the first
whose effect does not stand, since each earlier one is skipped or repeated
without effect; a unit is the set of layers its phases put on it, so that an
object that exists but is not finished is told from a whole one. In
`SeedStories` a revision of a space is the set of changes in it: *unreleased*
is `head # content`, and a Release published for an order bundles the revision
at the order's end tag. The order's State and its Stage are two things:
`terminal` says that the State is Released, since the last stage's latest Releases
are all its own, `order = "completed"` that these are healthy too. In `ChangeWorkflows` an entity's body is what the
definition derives for it, so the hash kept with the entity is the body itself.

**A demo's life.** `stored` is the definition's space: for each file the draft its
content is of, or nothing yet. `Loaded` is what a verb reads back from it, with
whatever other drafts left there, and `Expand(Loaded)` the model it then works
by. `org` holds spaces with their role, units with the data they were rendered
or cloned with, targets, Components, and of the Releases how many there are and
which units the latest bundles. `job` and `at` are the verb in hand and its
step. A unit of a variant is cloned from the space the variant is from, where
it is missing, as the bulk create with allow-exists does. What a story finds
to publish depends on its change and on what was left unreleased, which
`SeedStories` models: here each story publishes any of the spaces of its stages,
once at most (`Further`), and a walk may end anywhere. In `FleetViews` the hash
on a view is the definition itself. In `AgentAccounts` an account is told from the
one of the same name before it (`born`), since keys and signed-in contexts are
an account's and outlive it.

**Failures.** `crash` stops a command between any two calls (it also stands for
a failing call outside a pool: the command ends there). `fault` is a call of a
pool, or one of an agent, that fails, without effect or with its effect in
part. `lost` is a call that takes effect and whose answer does not arrive. No
queue or timer of the program's own exists to be lost or to run out.

## 3. What is taken from the server

The server is not in the repository. Its behaviour is read from the calls, from
the "Product facts" of `docs/DESIGN.md` and from `docs/DATA-MODEL.md`:

- Slugs are unique. A create with allow-exists leaves what exists as it is; a
  ChangeSet or change order is created without it and is refused when its slug
  exists.
- A ChangeSet opens on all of a base's units or on none; under the review
  workflow it closes only once it is approved. What closing a closed ChangeSet
  answers is not known, so no answer to `close` is lost.
- Promotion into a stage sets the order's Stage; a stage's entry gates read the
  latest Release of every space of the stage before (*Released*: it carries the
  change; *Healthy*: its live status). The class bases, stage 1, have no gate.
- A Release published for an order bundles each unit at the order's end tag,
  any other bundles the heads. A Release that names no order satisfies the
  gates and does not complete the order; the order is completed when the latest
  Releases of its last stage are its own and healthy.
- A stage an order is already promoted into selects nothing again. A terminal
  order is refused publishing and promotion.
- A clone starts without its upstream's protection and hash. What something
  else still refers to is not deleted; of ChangeWorkflows this is not assumed:
  the phase's own check is all that guards them.
- A workflow is referred to by its ID: deleted and made again it is another.

## 4. Runs

| Run | Expect | Question | Bounds |
|---|---|---|---|
| `agents_safe` | pass | two agents of one component and a presenter: one order in flight, stage by stage, no change dropped, the refinement of `ChangePipeline`; and, where no call fails, is memory what the org says, of agents with a ChangeSet of their own, is nothing released or asked twice | 2 agents, 1 presenter, 2 classes of one deployment; either 2 changes each and 1 crash, hold, rule or incident, or 1 change each and 2 events of seven kinds |
| `agents_both` | pass | every change opened goes through, and the agents keep changing, but for one stuck on a ChangeSet it adopted that is not its own; and an agent on a component nobody else works on gets through whatever the others wait for, with no fairness of people | 1 change each, 1 event, fairness of section 5; apart: 2 components |
| `agents_halfway` | violation | is a closed change whole? | 2 steps, 1 crash |
| `agents_stuck` | violation | does an agent survive one failed call? | 1 fault |
| `org_converges` | pass | ups and downs in any order, cut short anywhere: does one that gets through leave everything, or nothing, and touch nothing of others | 2 components (2 units on 3 clusters, 1 unit on 1), 4 commands, 2 mishaps, four sets of taken slugs |
| `org_half_down` | violation | do the deployments always have their variation? | 1 component, 2 clusters |
| `stories_both` | pass | a story walked to its end and one left half way and blocked: does a run that gets through leave them released there, and reported on unless the order was Released before, is no promotion refused, does `up` get through in the end; the unreleased and skewed sets beside a walk: nothing re-published, the skew shows; and of both, the refinement of `StoryWalk`: class by class, never taken back | 2 stories, 5 spaces (4 beside), 3 runs of any phases, 2 mishaps, edits or later values |
| `stories_interrupted` | violation | does a story walked to its end read Completed? | 1 story, 3 spaces, 1 crash |
| `workflows_rules` | pass | workflows and rules after a run, the workflow of an order in flight, what people set | 2 components, 2 classes, 3 definitions, one of them with one component less, 2 users, 3 runs, 2 events |
| `demo_life` | pass | is a finished install read back whole; does `up` make what `plan` counts (of Releases the first ones) and `status` asks for; does `down` leave nothing; do views and accounts converge | 6 drafts of one demo (3 refused; one story, through one class or both), 2 machines with a version of the tool each, 2 views, 2 agents, 4 verbs, `--phase` not given, bases and deployments, or views, 2 mishaps |
| `life_updated` | violation | does `up` reconcile the org to an edited definition? | 4 verbs, no mishap |
| `life_status` | violation | does everything exist when `status` says so? | 4 verbs, no mishap |

Why these are enough. A race of the agents is between two owners of one base,
and the runner treats all others alike; two agents and a presenter give every
pair (agent with agent, agent with person). A rollout needs two classes for
"the stage before" to mean something, and one deployment per class since the
runner treats those of a class as a set; the walk of `stories_both` and
`stories_interrupted` have two in a class so that one is done and the other not. Two changes per agent
let a restart find an old change and a new one. Two events allow a failure
during the recovery from a failure. Three or four runs allow: seed, be cut
short, be cut short again, get through. Three definitions allow a component to
be placed elsewhere or dropped, a review to be introduced and to move on. Slugs taken by
others are tried at the root space, at a cluster space and the home space, which
is one of each kind of `ensureSpace` caller, and at a class base and a deployment
of another class, which are taken unlooked. Four verbs allow: a definition, an
edited one, an `up` in between and one after. The drafts differ in each thing an
edit may do to what `up` makes: a manifest changed, a unit added, a component
dropped, clusters added, spaces kept unreleased, an agent replaced; and one each
is refused by `Load`, by `Expand` and by `install` itself. They make 2 and 4
clusters, so that a cluster's index, `maxIndex` and an exclusion decide something.
The two versions of the tool define one view over the same filter and one over
another.

The runs that hold two instances do so because their questions are of the same
module at bounds that cannot be had at once; no behaviour mixes them.

`CHECK_DEADLOCK FALSE` is in every configuration: with the bounds used up, or
with every agent done and nobody interfering, the modelled system may stop.

## 5. Fairness

`AgentDemo!RunnerFairness`: the runner is started, and an agent that can move
again and again whenever the runner is between moves is served (strong
fairness of `Move(a)`). `Run` goes over all agents on every pass and serves
each whose interval is up; between the passes of one agent only finitely many
moves of others happen, and a move is a finite sequence of calls.
`DeliveryFairness`: the tick agents report on what is published
(`present/status.go`, Argobot) and an incident is healed. `PeopleFairness`, in
`FairSpec` only: reviewers approve, presenters let go of a base and end their
rollouts. The program cannot justify these; they are what its liveness depends
on, and the second instance of
`agents_both` shows what holds without them (`UnattendedSpec` states the same).

`MCStories!Both`, for the walk: a run in progress makes its next call, and `up` is
run again. With at most `MaxEvents` mishaps and one more run than that, a run that
nothing disturbs comes in the end.

## 6. Theorems

All are proved for arbitrary constants that satisfy the named assumptions of the
modules; where a theorem has one more condition, its statement names it.

| Theorem | Module | Says |
|---|---|---|
| `TypeCorrect` | `AgentDemoProofs` | `Spec => []TypeOK` |
| `OneChangeInFlight` | `AgentDemoProofs` | without plays naming orders (`"play" \notin Env`), `OneInFlight` always holds |
| `ChangesKept` | `AgentDemoProofs` | `NoChangeDropped` always holds |
| `ReleasedStageByStage` | `AgentDemoProofs` | `StageByStage` always holds |
| `ReviewAskedOnce` | `AgentDemoProofs` | where no answer is lost, `AskedOnce` always holds |
| `ReleasedOnce` | `AgentDemoProofs` | where nobody else releases (`"plain"`, `"play" \notin Env`), `NothingTwice` always holds |
| `MemoryIsOrgs` | `PipelineProofs` | where no call fails and no order is aborted, `StandingIsOrgs` always holds: its exceptions are an order completed since the agent's last move or named by another agent, and agents with no ChangeSet of their own |
| `RunnerImplementsPipeline` | `PipelineProofs` | `Spec => ImplementsPipeline`, where every agent's component has a deployment in the last stage (`LastServed`) |
| `CalmRemembers`, `CalmReleasesOnce`, `CalmAsksOnce` | `MCAgentsProofs` | of the calm instance of `agents_safe`: `CalmStandingIsOrgs`, `CalmNothingTwice` and `CalmAskedOnce` always hold |
| `SafeKeepsChanges`, `SafeHasOneInFlight`, `SafeImplementsPipeline` | `MCAgentsProofs` | of both of its instances: `NoChangeDropped`, `StageByStage`, `OneInFlight` and `ImplementsPipeline`, under the conditions of the theorems above |
| `TypeCorrect` | `ChangeWorkflowsProofs` | `Spec => []TypeOK` |
| `OrdersKeepWorkflow` | `ChangeWorkflowsProofs` | `Spec => RolloutsKeepWorkflow`, an action property of the components the definition in force lists |
| `RulesOfPeopleStay` | `ChangeWorkflowsProofs` | `Spec => PeoplesRulesStay`, an action property |
| `DefinitionsAreMet`, `RulesAreSet` | `ChangeWorkflowsProofs` | `DefinitionsStand` and `RulesStand` always hold |
| `RequiredAreThere` | `ChangeWorkflowsProofs` | `Spec => RequiredExist`, an action property of the components the definition in force lists |
| `AdditionsAreKept` | `ChangeWorkflowsProofs` | `Spec => AdditionsSurvive`, an action property |
| `OrgKept`, `TypeCorrect` | `DemoOrgProofs` | `Spec => []Inv` (below), `Spec => []TypeOK` |
| `NoneIsBehind`, `OnlyMishaps`, `DownLeavesNone` | `DemoOrgProofs` | `NoneBehind`, `OnlyMishapsFail` and `DownLeavesNothing` always hold |
| `UpLeavesAll`, `UpLeavesVaried` | `DemoOrgProofs` | `UpBuilds` and `UpVariesIntact` always hold: whatever slugs are taken, of the components that nothing of is taken |
| `NoneOfTheirs` | `DemoOrgProofs` | `Spec => NoTrespass`, an action property: whatever slugs are taken |
| `ViewsTypeCorrect`, `ViewsConverge` | `DemoLifeProofs` | `ViewsSpec => []ViewsTypeOK`, `ViewsSpec => []ViewsCurrent` |
| `AccountsTypeCorrect`, `ServedAgentsCanAct` | `DemoLifeProofs` | `AccountsSpec => []AccountsTypeOK`, `AccountsSpec => []AgentsCanAct` |
| `LifeConvergesViews`, `LifeServesAgents` | `DemoLifeProofs` | `LifeSpec => ViewsSpec`, `LifeSpec => AccountsSpec`: the composition implements its parts |
| `TypeCorrect` | `StoriesProofs` | `SeedStories!Spec => []TypeOK` |
| `GatesAreOpen` | `StoriesProofs` | `NeverRefused` always holds |
| `ClassAfterClass`, `StoriesStandThen` | `StoriesProofs` | where no two stories are of one component (`Apart`), `ClassByClass` and `StoriesStand` always hold; the second asks a report of the stories whose order is not `terminal` |
| `SkewsShow` | `StoriesProofs` | where no story is walked into a skewed space (`SkewsUnreached`), `SkewShows` always holds |
| `ReReleasesSkip` | `StoriesProofs` | with both, and without edits, `PublishesSomethingNew`, an action property |
| `WalkedIsCompleted` | `StoriesProofs` | `Apart`, and every story's component has a class with deployments (`Deployed`): `UndisturbedWalkCompletes` always holds |
| `StoriesKeepTheirPromise` | `StoriesProofs` | `Apart` and `Deployed`: `Spec => KeepsItsPromise`, that is, `SeedStories` implements `StoryWalk` |
| `LifeKeepsViews`, `LifeKeepsAgents` | `DemoLifeProofs` | so `ViewsCurrent` and `AgentsCanAct` hold of `LifeSpec`, which `demo_life` runs |
| `LifeTypeCorrect`, `InstallsWhole` | `DemoLifeProofs` | `LifeSpec => []LifeTypeOK`, `LifeSpec => []InstalledIsWhole` |
| `DownEmptiesTheOrg` | `DemoLifeProofs` | after `down` or `uninstall` the org is empty; the definition is readable after the one and gone after the other |
| `DownTakesEverything` | `DemoLifeProofs` | where no draft gives another space the slug of a home (`HomesApart`), `DownTakesAll` always holds: views and filters too |
| `UpBuildsWhole` | `DemoLifeProofs` | where the slugs of variants are apart (`VariantsApart`, `DeploymentsApart`), and a deployment keeps the Component and class it was made of (`StagesKept`), all of the plan stands after `up` (`BuiltWhole`) |
| `UpLeavesComplete` | `DemoLifeProofs` | where roots' slugs are apart too (`RootsApart`), `UpSatisfiesStatus` always holds: what `up` leaves, `status` calls complete |
| `UpMakesItsPlan` | `DemoLifeProofs` | where all of these are and clusters' (`HomesApart`, `ClustersApart`), `UpMakesThePlan` always holds: `up` makes exactly what `plan` counts, of Releases the first ones, and no second Release where no story walks |
| `WalkTypes`, `WalkIsLetThrough` | `MCStoriesProofs` | of the walk of `stories_both`: `WalkTypeOK` and `WalkNeverRefused` always hold |
| `WalkLeavesStories`, `WalkIsCompleted` | `MCStoriesProofs` | under the conditions of `StoriesStandThen` and `WalkedIsCompleted`, `WalkStoriesStand` and `WalkCompletes` always hold |
| `BesideShowsSkews`, `BesideReReleasesSkip` | `MCStoriesProofs` | of the instance beside it: `BesideSkewShows` always holds, and `BesideNothingRepublished`, an action property |
| `BothArePromised` | `MCStoriesProofs` | of both, under `Apart` and `Deployed` (the second meets them): `BothKeepTheirPromise`, each implements `StoryWalk` |

*Agents.* `TypeOK` is not inductive: that a move's `cur` is a valid cycle where
the move uses it needs to know which phase a call belongs to (`Carries`), that
only one agent is inside a move (`Serial`), and that there is room for the next
cycle (`Room`). `TypeInv` is their conjunction. `FlightInv` adds to
`OneInFlight` that an agent about to name its order still has no other order of
the component beside it (`NameClear`): between listing the orders and naming its
own nobody else names one, because the runner is one process serving one agent
at a time and people, without `play`, name none. `ChangeInv` says of every agent
that its memory, between two moves and inside each, stands right with the
server's record of its changes (`StandsRight`): in particular that only its
highest change can be unfinished, so that what `adopt` finds is that one. And
that a change in its hand which is not its own is a closed one, that it rolls
out, and that it has no ChangeSet itself (`HoldsRight`). That
the highest number of a set exists and has its property (`HighestOf`) is proved
by the well-foundedness of `<`.

*Rollouts.* `StageByStage` is kept by moves that publish and promote by what they
read calls ago. `RolloutInv` says of every agent what was released for its
orders (nothing in a stage not entered, everything in a stage left behind,
everything if completed) and what the move in hand owes to it: a move that
publishes has but `todo` left of the stage it is in, one that promotes nothing.
The orders are the owners' (`RolledRight`), the moves those of whoever has the
change in hand (`HandRight`), which may be another agent.
An abort in between stops the order's stage, and the server then refuses both.
`OnceInv` says why asking for a space's latest Release is enough not to release
twice: while an order moves no other of its component does (`FlightInv`), so
what was published for it is the latest (`OnceRight`); what a move still has to
publish it has not published (`HandOnce`), whoever's the order; and an order that
completes while a move is under way leaves that move nothing to publish (`Alone`).

*Memory.* `AskedInv` ties a request for a review to an open change whose agent
knows of it, or will read it in `AlreadyAsked`. `MemoryInv` says call by call what
the runner's fields stand for; between two moves it is what `Standing` reads,
since an agent's last ChangeSet decides it (`MemoryStands`), and an agent with none
has at most a closed one of somebody else's in hand (`NoneOfItsOwn`). An order that
another agent named leaves its owner where it was, queued or idle. The conditions of the three theorems
are what breaks them: a failed call leaves a ChangeSet behind (finding 2), a
lost answer makes the agent ask again, an aborted order keeps its agent, and a
Release of somebody else hides the order's own (section 8).

*The pipeline.* Mapping a step of `AgentDemo` to one of `ChangePipeline` needs three
things more (`PipeInv`). `MovingRight`: a rollout agent's change whose order moves is its
last and the one the agent is at, so that a close, which only an agent between
rollouts makes, never overtakes one. (The order of an agent that does not roll out
is named by another that adopted its change, and may be overtaken.)
`AgentsClear`: of one component no two changes of agents roll out, and where an
agent is about to name an order none does but its own (`OnlyMoves`); it is `OneInFlight` of agents
alone, and so holds with players naming orders too. `NotYet`: no order that has
arrived is left uncompleted, so that a report, which may let the server complete
any number of orders, completes one at most. For the last, `LastServed` is
needed: in a last stage without deployments an order has arrived with no report,
and the next report, whoever's, completes every such order in one step.

*Workflows.* `Inv` is `TypeOK`, `Entities` (every entity, as it is and as it was
listed, bears an ID given out for its slug) and `Standing` (what the run in hand
still has to do: nothing wanted is ever among what is retired, so what the run
has listed is there when it writes it back, and a rule is only ever set to IDs
that were listed). `KeepInv` adds that what is doomed had no order that may move
and that what people may delete by hand is never a component's own workflow; an
order that has ended does not move again, which is why judging first and
deleting later is safe. `IndexInv` says that what the run remembers as its own
rule still is, until the run itself comes to it. `ListedInv` says the same of the
workflows: what was listed is as it was until the run ensures it, and what the
run has ensured stays, because nothing it dooms or notes is wanted; hence an
update loses nothing and the run that gets through leaves what was asked for.
`SettledInv` follows the rules in the same way, for the components no person
touches meanwhile, and adds that a rule of the seeder's means that the review
workflow is there: a run that finds none and sets no rules has none to take
back. `RequiredInv` says what rules in force allow: never a component's own
workflow, which a run may delete, and, once the run has come to the component or
a person has since it began, only wanted ones, which people do not delete.

*Stories.* `Inv` is the types, `OrdersInv` (what a Release bundles its space has,
and a story's change is only in spaces of the story its walk has come to),
`TerminalInv` (an order is terminal as soon as its last stage's Releases are all its
own, and no story that lands before its last stage has one), `PlaceInv` (a call has failed only inside a pool, and where the stories are to
come, nothing of them is under way) and `WalkInv`: what the walk in hand has behind
it. Where it comes to a stage, every deployment of the classes before runs the
change and is healthy; that is what the gates ask, so none refuses. `ClassInv`
says of every story ever walked that where its change is, every class before
has it in its latest Release. That is where `Apart` is needed: a Release for one
story's order bundles what the space was at that order's end tag, which is
without what another story of the component made later. `LandedInv` follows the
stories this run has told; the next one's walk touches nothing of theirs. A story
that is skipped for its terminal order has its change in every Release, though
perhaps unreported, which is why `StoriesStand` does not ask a report of it.
`SkewInv` says that a skewed space which is not left unreleased has a Release
before it is skewed, so that the releases phase never publishes it again; the
one who could is a walk that enters it (`SkewsUnreached`). `NewInv` says of a pool
that publishes that its spaces still lack what they get; after an edit behind
the order's end tag the Release would bring nothing (section 8). `CompletedInv`
follows the orders of an undisturbed run: every Release of a stage is of its
order and none is reported on before all are out, so that the order is terminal
before the last report and the last report of the
last stage completes it; a story whose component has no deployment gets none.
`Load` checks neither `Apart` nor `SkewsUnreached` (`load.go:359-372` looks at one
change order at a time); the scenarios of the repository meet both.

*The stories' promise.* A change has reached a deployment when it is in its head and
runs there when it is in its latest Release; a phase, a run, a failure, a skew and
an edit are then steps of `StoryWalk` or none of it. That a change is promoted into a
class only when all of the class before runs it is `WalkInv`. That no Release goes
without what its space had is where `Apart` is needed (`ContentKeeps`), since one
for another story's order would bundle less. `PromiseInv` adds what completion needs. A story
whose order is not named has promoted nothing; an order that moves has not
arrived, so that a report completes the order of its own story and no other; the
change of an order that has completed runs everywhere; and the order of the walk
in hand moves until its last class settles. `Deployed` is needed for the second
of these: in a last class with no deployment an order has arrived from the start.

*Two instances in a run.* `MCAgentsProofs` and `MCStoriesProofs` carry the theorems
over to `agents_safe` and `stories_both`. A behaviour of these never changes `which`,
so that one that starts as the walk is a behaviour of `SeedStories`, and of any
other the walk's properties say nothing. The second instance is of the same module under other constants: it is shown to be the one
the theorems are instantiated for, definition by definition, and its constants to
meet their assumptions and conditions. For `stories_both` these speak of its
stories and spaces, for which its model values must differ (`NamesApart`); run
bounds, fields and values to come stay arbitrary.

*Org.* `OrgInv` is what holds of the org whatever runs: `OwnInv` (a slug nobody has
holds nothing; what has a target or was turned into a deployment is the demo's;
a clone is the demo's only where its upstream is nobody else's) and `UnitsInv` (a
root's unit gets its hash after its data and nothing else; a class base's was
cloned at the data of a hashed unit; a deployment's at all of data, policy and
protection, from a class base that has them still). The last is the order of the
pools: that the class bases have their policy and are protected before anything
is cloned from them is known only of the run in hand, so `UpInv` says of it that
of every pool behind it all items stand (`Behind`), and of the pool in hand all
but what is to do, unless a call has failed (`InHand`). `UpCall` is brought to nine
effects (`UpEffect`); `UpKeeping` is what none of them undoes and `StandsStill` that
an item once done stays so to the end of the run. `DownInv` is the same of a
teardown: of the groups behind nothing is left, which is why nothing is in use
where its turn comes (`NothingInUse`). `SlipInv` says what a failure is owed to.
What is somebody else's stays so (`StaysTheirs`), and a component nothing of which is
taken (`Untaken`) is built as if nothing were; of it `VaryInv` ties the root's marker
to its deployments: from an `up` that was not preceded by half a teardown, marked
means that all of them are there, whole and varied; during a teardown and after
half of one it means nothing (finding 3). `NoneOfTheirs` goes effect by effect: units
are made and cloned in the demo's own spaces only, and what is stamped on others'
is policy and protection.

*A demo's life.* `ViewsCurrent` is inductive with the types: a filter is replaced
only where its view is gone, and a view is made only over the filter it asks
for. `AccountsInv` adds to `AgentsCanAct` that a served agent is none of those
still to be served: nothing touches it again before the next verb. That
`DemoLife` implements the two modules it composes needs `LifeInv`: the verb in
hand runs on a machine, and every stored file is of a draft, so that the agents
a verb reads back are agents of the drafts, mixed as the stored definition may
be. `AgentsAssumption`, `MachineAssumption`, `BoundsAssumption` and `FilesAssumption`
say that the constants hold what the drafts and machines have: a component's
units are a sequence, none of them is the file `component.yaml`, and an empty
text is neither a scenario nor a component (`load.go` fails on both).
`ListsAssumption` says that a scenario lists things, of finitely many clusters, and
that its shares are percentages; `ShuffleAssumption` that what is shuffled stays
what it was; and no draft is called `none` or `mixed`.

`LifeKept` is what every verb leaves and finds. `StoredOK`: each stored file is of
a draft that `install` accepted, or empty. `OrgOK`: nothing stands outside a space,
and no report is without a Release. `JobOK`: a verb's steps are the groups of a
teardown, the phases of `up`, or both, and it works by a model that was expanded
from the stored definition. Each of its parts is disturbed by some step of some
verb, which is why `LifeTypeOK` is proved from all of them together.

*Install.* `HasAll` says that every file of a draft is stored with its content. It
is what the one step of `install` leaves when no call failed, and it implies
that the bundle is read back (`ReadBack`): that it is readable, accepted again and
expands to the same plan, since the content of `component.yaml` files and of
the manifests they list is all that `Load` and `Expand` look at.

*Down.* A teardown goes group by group by the roles that spaces bear, not by the
definition, so what it has behind it can be said of any org: `TakenDown` says
that of every group passed no space is left, and with the last group nothing.
The views have no role: they are in a home space, and go with it. `ViewsAtHome`
(where there is a view or filter there is a home) and `HomesAre` (what stands
under the slug of a home is one) are what `HomesApart` is needed for.

*Up.* `Built(n, plan, org)` says that what the first *n* phases make stands, each
phase because the one before it does: a deployment is cloned only where a class
base has the unit. No phase takes anything away (`Grown`), so what is built stays
built (`Builds`), and a verb that got through is past all phases, reset past the
teardown too (`EndsBuilt`). `DeploymentsAre` says that what stands under the slug
of a deployment is a deployment, so that the releases phase, which goes by roles,
publishes it. `VariantsApart` is needed because what a space is cloned from is
looked up by its slug. The stories come behind all of this, so a verb that gets through is past
them too; what they may undo are the reports on what they publish. A walk that gets
through has reported on its own definition's deployments, while it published by the
Component and class a space was cloned with: `StagesKept` says that these are the same.

*Counts.* `status` and `plan` compare numbers, each the sum or the size of what the
plan lists. The units of a plan are counted component by component, and its
spaces kind by kind; that the sizes add up to the size of what stands needs
`Apart`: no two spaces of a plan share a slug, so that the map from a unit of a
component in a space to the unit in the org is one to one (`RootsApart` and the
two before it give that of any definition that loads, mixed ones too). `Countable`
says that what is made is finite, and that a space with Releases has had at
least one. That `up` leaves no less than the plan is then `BuiltWhole`, counted
(`UpLeavesComplete`); other definitions may have left more.

That it leaves no more needs an org that one draft alone has grown. `OnlyPlan`
says that nothing stands but what the plan has, that a space has all of its units
or none, and that a Release there is has them all, and is the first of its space
unless the space is a story's: so no phase of a later run but the stories' finds a
space to add a unit to, or one to publish again, wherever the verbs before were cut short. `GrownBy` says it of the draft in
`grown`, through teardowns cut short too, and `InstalledHas` that the draft in
`installed` is what is loaded. At the end of `up`, `BuiltWhole` and `OnlyPlan` make
what stands and the plan the same, number by number (`UpMakesItsPlan`).
`ClustersApart` keeps the spaces of clusters apart from the roots and class bases,
as `HomesApart` does the home.

`Load` checks none of these six; two components or clusters whose names run
together would share a space. They hold of each scenario of the repository and
of the instance `demo_life` runs.

**Only model-checked.** Liveness under fairness, which is out of the prover's
reach: `TogetherChangesFinish`, `TogetherKeepsChanging`, `ApartOthersGoThrough` and
`WalkGetsThrough`. Every other property that a passing run checks is stated by a
theorem, some under the conditions the table names.

## 7. Findings

Six runs show the code doing other than a text of the repository says; each is
quoted, with its line, under `findings` in `PROJECT.json`.

1. `agents_halfway`: a restart, or an error, between two steps of an agent's
   change leaves an open ChangeSet that `adopt` takes for one whose change is
   written. It is closed and rolled out with part of the change in it.
2. `agents_stuck`: when `variant changeset open` fails, the ChangeSet just
   created stays and the cycle does not advance, so each later move creates the
   same slug and is refused, until the runner is restarted.
3. `org_half_down`: the record of a component's applied variation is on its
   root base and outlives the deployments. After a teardown that stops behind
   them, `up` makes them anew and skips their settings.
4. `stories_interrupted`: a run that stops between promotion and the stage's
   Releases leaves those to the next run's releases phase, which names no order;
   the order then walks on and never completes.
5. `life_updated`: an edited definition that is installed over a running demo is
   brought to the root bases only. Class bases and deployments are cloned where
   units are missing and never upgraded; they keep the old data after `up`.
6. `life_status`: `status` counts units by the demo's label over the whole org,
   the stored definition's own among them, and Releases and targets likewise, so
   that it calls an org complete in which units of the definition are missing.

## 8. Known divergences

Met while reading and modelling, with no run of their own.

*Present and agents.* A play's `changeorder` step names an order beside one that
is moving: it looks for its own slug only (`present/steps.go:221` against
`present/presenter.go:9-11`); `OneChangeInFlight` assumes it away. `ReleasedUnder`
reads a space's latest Release only, so a plain Release in between makes a
resumed rollout publish again (`present/status.go:33` against `:22-23`). `roll`
never leaves an aborted order: its agent stays there until a restart
(`agents/runner.go:433`). An agent with `rollout: true` that has no ChangeSet of its
own adopts any Closed one of its base, a person's or another agent's: `cycleOf` is 0
for each slug that is not its own, and so is its cycle (`agents/runner.go:157-163`,
`:193`), where `docs/DESIGN.md:207-209` says it continues "an open ChangeSet of the
agent's or its latest change order in flight". It names an order for that change and
rolls it out, though its owner may not roll out at all. Where the order exists
already, which `named` leaves out for the same reason (`:170-174`), naming it is
refused for ever, after each restart too: the agent waits, queued, and opens no
change. An owner whose order was so named for it is refused likewise until a
restart. `StandingIsOrgs` and `TogetherKeepsChanging` name these cases as exceptions;
that every agent keeps changing (`KeepsChanging`) they violate.

*Stories.* A run cut short between the last stage's Releases and the report on them
(`stories.go:176`, `:189`) leaves an order whose State is Released, and every later
run says "nothing to walk" (`stories.go:70`): the stage stays unreported and the
order short of Completed, contrary to `cmd/up.go:21`, unless the livestatus phase,
which `up` runs before, paints it. `releaseStage` publishes spaces of the unreleased set when a story
walks through their class (`stories.go:176` against `releases.go:17`). The
livestatus phase paints blocked and degraded stories healthy until the stories
phase has run (`livestatus.go:59` against `scenario/schema.go:284-286`). A
deployment edited after its story's end tag is published again, without the
edit, on each run of the stories phase (`stories.go:167` against `:20`). A
story's change is applied again over a later value of the same field
(`stories.go:57` against `:20`).

*Seeding.* Class bases and deployments are taken from the answers of bulk
creates with allow-exists, with no check of whose they are (`bases.go:173-183`,
`deployments.go:92-102`), where `docs/DESIGN.md:266` and `README.md:89` say the seeder
refuses to adopt somebody else's space and a colliding scenario fails loudly. A class base of theirs gets the class's functions, the marker and the
protection, a deployment of theirs the protection; nothing is cloned into either,
and `up` says it is done. What is cloned from such a class base is named after
that space's Component (`bases.go:29`) and so lands, if anywhere, under that one's
slugs. `NoTrespass` and `UpBuilds` state what is left of the claim. With
an updated definition, a new unit of an existing class base gets no class
policy, and a component that leaves one cluster for another, with the same
number of deployments, gets no deployment functions on the new one. `uninstall`
deletes the home and the definition in one pool: stopped in between, it can
leave the home, which needs a re-install to be found again.

*Definitions.* `install` refuses a component that is listed ahead of its manifests
(`load.go:49-52`), which `expand.go:44-46`, `bases.go:33-35`, `teardown.go:162` and
`docs/DESIGN.md:269-271` provide for as pending; only a manifest that was created
and not yet uploaded gets that far, and it is there, empty, and seeded as such.
`Totals` counts the components without manifests that `up` skips (`expand.go:382`).
Its Releases are one for each deployment that is not left unreleased
(`expand.go:85`, `:409`), where the stories phase publishes one more for each space a
story finds pending, the unreleased ones among them (`stories.go:176`): after a full
`up` of a definition with stories there are more Releases than `plan` says.
`UpMakesThePlan` is therefore of the spaces that have a Release.
A story's percentages are of all deployments in `take` (`expand.go:365`) after the
shares before were removed from the list, so each is of what is left. Files'
slugs are not checked to differ (`provenance.go:91`). Negative percentages and
indexes are accepted (`load.go:407`, `:311`).

*Views, accounts.* The filter under a view whose hash is current is not looked at
(`views.go:78`). `uninstall` says nothing remains (`cmd/uninstall.go:20-21`,
`docs/DESIGN.md:307`) and leaves the agents' service accounts and contexts, which
`agents down` can then no longer find, having no definition to read; those of an
agent that is dropped from the definition stay likewise. A failed look-up of an
account or context is taken for its absence (`manager.go:49`, `:89`, `:94`), so
`agents down` may say it is done and leave both.

*API client.* `client.go:52-58` calls every retried POST safe because "every create
it issues is allow-exists idempotent"; the creates of change orders, workflows
and Releases are not.

*Workflows.* `componentHasOpenChangeOrder` looks at an order's State and knows
only the aborted and restored ones as closed (`workflows.go:287`), so a
component whose order has completed keeps its own workflow for ever, where
`:29-31` and `:226-229` say it retires once that completes. A component the
definition no longer lists counts as having no order (`workflows.go:270-276`), so
its workflow is deleted under one in flight, where `:29-31` makes no exception.
Nor does any run come to the rule of such a component (`:171` goes over the
model's), so that a rule of the seeder's may outlive there the workflow it
requires. `RolloutsKeepWorkflow` and `RequiredExist` are therefore of the components
the definition in force lists; of all, the instance violates both.

## 9. Plan

What is built: the modules of section 2, in the order agents, stories, org,
workflows, a demo's life. What would come next, most important first:

1. `RolloutLookup` (`present/rollout.go`, `present/ci.go`): `pickOpen`, `FindRollout` and
   `StageSpaces` as operators over the orders of an org, and `bump-image`, which
   reads a tag and writes its successor, as two steps beside the agents;
   composed with `ConfigHub`. Property: the rollout found is the one meant.
2. `RetryTransport` (`cubclient/client.go`): a POST repeated after a lost answer.
3. In `DemoLife`: several demos in one org, and functions over a changed set of
   deployments (`bases.go:337`, `deployfns.go:53`).

## 10. What is left out

- *Dry runs*: they make no calls.
- *The adoption and clean-up of labels and annotations from before v0.8, tag
  deletion with force, skipped components*: one-time migrations of old orgs.
- *Command line, rendering, running `cub`*: text and child processes; no state of
  the system's.
- *Tick agents* (Argobot and the like) have no component and only run their
  steps; they appear as what they do, `Observe`, `Incident` and `Heal`.
- *In `AgentRunner`*: `init` reads all agents' standings in one step; a person who
  closes a ChangeSet between the reads of two agents without one of their own
  would be seen by the second alone.
- *In `ChangeWorkflows`*: orders under rollout workflows are followed only for
  components in `Early`, where they decide something; workflows are edited
  between runs only, and nobody edits the seeded body itself.
- *In `DemoOrg`*: a chunk of a bulk call is one space.
- *In `Expansion`*: the syntax and length of slugs; plays; function calls and the
  totals of them; skews and the degraded, out-of-sync and progressing spaces,
  which are `SeedStories`' subject; the sequence `math/rand` yields (`Shuffle` is any).
- *In `DemoLife`*: what the modules of single phases model (of a story, which of its spaces hold
  something to publish, and its gates); the plays between verbs, a scenario whose workflows are disabled; the context a scenario
  pins; `--demo` with several demos in the org; a crash in the midst of a pool,
  which leaves no more than failed calls do; other people's slugs.
- *In `AgentAccounts`*: failed look-ups taken for absence, and accounts deleted by
  hand while a verb runs (between verbs another machine's `agents down` does it).
- *The API client*: calls appear where they are used; no module of its own.

## 11. Running

    tlc -config agents_safe.cfg MCAgents
    tlapm AgentDemoProofs.tla

and likewise for the other configurations (`agents_both` with `MCAgents`, the other
`agents_*` with `MCAgentDemo`, `stories_both` with `MCStories`, `stories_interrupted`
with `MCSeedStories`, `org_*` with `MCDemoOrg`, `workflows_*` with `MCChangeWorkflows`,
`demo_life` and `life_*` with `MCDemoLife`) and for the other `*Proofs` modules.

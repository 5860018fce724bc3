------------------------------ MODULE DemoLife ------------------------------
(***************************************************************************)
(* A demo's life in an org: the verbs install, up, down, reset, uninstall, *)
(* agents up and agents down (src/cmd), one at a time and from any         *)
(* machine, over a definition that is edited between them and that every   *)
(* verb but install reads back from the org.                               *)
(*                                                                         *)
(* Coarser than DemoOrg: a phase of `up`, a group of a teardown or the     *)
(* upload of a bundle is one step, in which one call may fail; the rest of *)
(* its pool is made and the verb ends there. A verb may also die between   *)
(* steps. Left out: what DemoOrg, SeedStories and ChangeWorkflows model    *)
(* (functions, protections, what workflows and change orders are and which *)
(* spaces hold a story's change, other people's slugs).                    *)
(***************************************************************************)
EXTENDS Expansion, FleetViews, AgentAccounts

CONSTANTS
  Drafts,     \* the bundles `install` is given, by label
  ToolOf,     \* [Machine -> Tool]: the version installed there
  PhaseArgs,  \* what --phase lists, a set; {}: all
  Verbs,      \* the verbs that are run
  Env,        \* what may go wrong: "crash", "fault"
  MaxJobs, MaxEvents  \* bounds: verbs run; crashes and failed calls

ASSUME MachineAssumption == Machine # {} /\ ToolOf \in [Machine -> Tool]

\* AgentName has the agents of all drafts.
ASSUME AgentsAssumption ==
  /\ {Empty, "none", "mixed"} \intersect DOMAIN Drafts = {}
  /\ \A v \in DOMAIN Drafts : Named(Drafts[v].scenario.agents) \subseteq AgentName

\* What is empty parses as no scenario and no component.yaml, and no unit's
\* manifest is the component.yaml, which lists them.
ASSUME FilesAssumption ==
  \A v \in DOMAIN Drafts :
    /\ Empty \notin {Drafts[v].scenario} \union Range(Drafts[v].specs)
    /\ \A d \in DOMAIN Drafts[v].specs :
         LET units == Drafts[v].specs[d].units IN
         units \in Seq(ToSet(units)) /\ \A u \in ToSet(units) : u.file # "component"

\* A scenario lists things, and shares are percentages.
ASSUME ListsAssumption ==
  \A v \in DOMAIN Drafts :
    LET s == Drafts[v].scenario IN
    /\ s.catalog \in Seq(ToSet(s.catalog)) /\ s.workloads \in Seq(ToSet(s.workloads))
    /\ \A c \in ToSet(s.catalog) \union ToSet(s.workloads) : c.external \in Seq(ToSet(c.external))
    /\ IsFiniteSet(Clusters(s))
    /\ s.changeOrders \in Seq(ToSet(s.changeOrders))
    /\ {s.degraded, s.outOfSync, s.progressing, s.unreleased} \subseteq 0 .. 100

ASSUME BoundsAssumption == MaxJobs \in Nat /\ MaxEvents \in Nat

VARIABLES
  stored,     \* the bundle's units: the draft each file is of, or Empty
  org,        \* what up makes: see NoOrg
  job, at,    \* the verb in hand and its step; at = 0: none
  said,       \* how the last one ended
  installed,  \* the draft the last install left whole, or "none" or "mixed"
  grown,      \* what the org was grown by since it was empty
  jobs, events

lifeVars == <<stored, org, job, at, said, installed, grown, jobs, events>>
vars == <<lifeVars, viewVars, accountVars>>

Draft == DOMAIN Drafts
Installable(b) == Accepted(b) /\ Expandable(b.scenario) /\ Storable(b)
Installables == {v \in Draft : Installable(Drafts[v])}
Plans == [v \in Installables |-> Expand(Drafts[v])]

\* What is shuffled stays what it is.
ASSUME ShuffleAssumption ==
  \A v \in Installables :
    LET S == UNION {{d.slug : d \in m.deployments} : m \in Plans[v].components}
    IN Shuffle(S, Drafts[v].scenario.seed) \in Seq(S)

\* The bundle as it is loaded back from the definition space.
Files == [p \in DOMAIN stored |->
  IF stored[p] = Empty THEN Empty ELSE Content(Drafts[stored[p]], p)]
Defined == stored # <<>> /\ Readable(Files)

-----------------------------------------------------------------------------
(* The org: slugs with their Role or Layer, units with their data, Releases   *)
(* counted, with the units the latest bundles.                                *)

NoOrg == [space |-> <<>>, unit |-> <<>>, target |-> {}, entity |-> {}, releases |-> <<>>, reported |-> {}]
Spaces(role) == {s \in DOMAIN org.space : org.space[s] = role}
UnitsIn(s) == {u \in DOMAIN org.unit : u[1] = s}
Without(f, S) == [x \in DOMAIN f \ S |-> f[x]]

\* What f says, and elsewhere g: TLC's @@, by a definition a proof can use.
Over(f, g) == [x \in DOMAIN f \union DOMAIN g |-> IF x \in DOMAIN f THEN f[x] ELSE g[x]]

\* Made where they are not, kept as they are where they are.
Ensured(f, S, value) == Over(f, [s \in S |-> value])

\* The missing units of variants are cloned from the spaces they are from.
CloneAll(units, variants) ==
  LET from(s) == (CHOOSE v \in variants : v.slug = s).from
      every == {v.slug : v \in variants} \X {u[2] : u \in DOMAIN units}
      cloned == {w \in every : <<from(w[1]), w[2]>> \in DOMAIN units}
  IN Over(units, [w \in cloned |-> units[<<from(w[1]), w[2]>>]])

-----------------------------------------------------------------------------
(* up: what a phase makes of the org by model m, but for the items `left`,    *)
(* whose call failed.                                                         *)

Phases ==
  <<"home", "clusters", "bases", "deployments", "releases", "livestatus", "views", "workflows", "stories">>

Ready(m) == {c \in m.components : c.ready}
Slugs(S) == {x.slug : x \in S}
ClusterNames(m) == {k.name : k \in m.clusters}
BasesOf(C) == UNION {c.bases : c \in C}
DeploymentsOf(C) == UNION {c.deployments : c \in C}

MakeHome(m, left) == [org EXCEPT !.space = Ensured(@, {m.home} \ left, "demo")]

\* A cluster left has its space and no target.
MakeClusters(m, left) ==
  [org EXCEPT !.space = Ensured(@, ClusterNames(m), "cluster"),
              !.target = @ \union (ClusterNames(m) \ left)]

\* The data of the root units, from the stored manifests.
Rendered(C) ==
  LET data == UNION {{[unit |-> <<c.root, u>>, from |-> c.manifest[u]] : u \in DOMAIN c.manifest} : c \in C}
  IN [w \in {d.unit : d \in data} |-> Files[(CHOOSE d \in data : d.unit = w).from]]

\* The root units are brought to their manifests; a class base's units are
\* cloned where they are missing. A component left has its root base only.
MakeBases(m, left) ==
  LET done == {c \in Ready(m) : c.name \notin left} IN
  [org EXCEPT
    !.entity = @ \union {c.name : c \in Ready(m)},
    !.space = Ensured(Ensured(@, {c.root : c \in Ready(m)}, "root base"), Slugs(BasesOf(done)), "class base"),
    !.unit = CloneAll(Over(Rendered(Ready(m)), @), BasesOf(done))]

\* Only of components whose bases are there.
Based(m) == {c \in Ready(m) : {c.root} \union Slugs(c.bases) \subseteq DOMAIN org.space}

\* Mutant: units are cloned only into the spaces this run made.
MakeDeploymentsOnce(m, left) ==
  LET made == DeploymentsOf(Based(m)) IN
  [org EXCEPT
    !.space = Ensured(@, Slugs(made), "deployment"),
    !.unit = CloneAll(@, {d \in made : d.from \notin left /\ d.slug \notin DOMAIN org.space})]

\* One call clones a class base's units into its deployments: those of a class
\* base left have none, or what they had.
MakeDeployments(m, left) ==
  LET made == DeploymentsOf(Based(m)) IN
  [org EXCEPT
    !.space = Ensured(@, Slugs(made), "deployment"),
    !.unit = CloneAll(@, {d \in made : d.from \notin left})]

\* A Release for every deployment space with something to publish.
Publishable(m) ==
  {s \in Spaces("deployment") \ m.unreleased :
     UnitsIn(s) # {} /\ (s \in DOMAIN org.releases => org.releases[s].has # UnitsIn(s))}
Published(s) == IF s \in DOMAIN org.releases THEN org.releases[s].count ELSE 0
MakeReleases(m, left) ==
  LET now == Publishable(m) \ left IN
  [org EXCEPT
    !.releases = Over([s \in now |-> [count |-> Published(s) + 1, has |-> UnitsIn(s)]], @),
    !.reported = @ \ now]

\* Mutant: a report on a space that has no Release.
PaintedAll(m) == Slugs(DeploymentsOf({c \in Ready(m) : c.painted})) \intersect DOMAIN org.space

\* A report on the latest Release, where there is one.
Painted(m) == Slugs(DeploymentsOf({c \in Ready(m) : c.painted})) \intersect DOMAIN org.releases
MakeReports(m, left) == [org EXCEPT !.reported = @ \union (Painted(m) \ left)]

\* A story publishes what its stages have pending, by the Component and Stage
\* its deployments were cloned with, in the definition still or not.
Deployed == DeploymentsOf(UNION {Plans[v].components : v \in Installables})
Labelled(bases) == {s \in Spaces("deployment") : \E d \in Deployed : d.slug = s /\ d.from \in bases}
Walkers(m, s) ==
  {i \in DOMAIN m.stories :
     /\ s \in Labelled(m.stories[i].bases)
     /\ \E c \in Ready(m) : c.name = m.stories[i].component /\ c.root \in DOMAIN org.space}

\* It reports on the definition's own.
StoryBases(m) == UNION {m.stories[i].bases : i \in DOMAIN m.stories}
StorySpaces(m) == {d.slug : d \in {e \in DeploymentsOf(Ready(m)) : e.from \in StoryBases(m)}}

\* What each story may find pending, its change or what is left unreleased; a
\* new Release has no report.
Further(m) ==
  LET spaces == {s \in Spaces("deployment") : UnitsIn(s) # {} /\ Walkers(m, s) # {}} IN
  {more \in [spaces -> 0 .. Len(m.stories)] : \A s \in spaces : more[s] <= Cardinality(Walkers(m, s))}
Walked(more) == {s \in DOMAIN more : more[s] # 0}
MakeStories(more, told) ==
  [org EXCEPT
    !.releases = Over([s \in Walked(more) |-> [count |-> Published(s) + more[s], has |-> UnitsIn(s)]], @),
    !.reported = (@ \ Walked(more)) \union told]

\* Workflows are made in the home space; nothing here tells them apart.
Items(phase, m) ==
  CASE phase \in {"home", "workflows"} -> {m.home}
    [] phase = "clusters" -> ClusterNames(m)
    [] phase = "bases" -> {c.name : c \in Ready(m)}
    [] phase = "deployments" -> {d.from : d \in DeploymentsOf(Based(m))}
    [] phase = "releases" -> Publishable(m)
    [] phase = "livestatus" -> Painted(m) \ org.reported

Made(phase, m, left) ==
  CASE phase = "home" -> MakeHome(m, left)
    [] phase = "clusters" -> MakeClusters(m, left)
    [] phase = "bases" -> MakeBases(m, left)
    [] phase = "deployments" -> MakeDeployments(m, left)
    [] phase = "releases" -> MakeReleases(m, left)
    [] phase = "livestatus" -> MakeReports(m, left)
    [] phase = "workflows" -> org

\* "run the clusters phase first", "run the home phase first".
MayRun(phase, m) ==
  /\ phase = "deployments" => ClusterNames(m) \subseteq DOMAIN org.space \intersect org.target
  /\ phase \in {"views", "workflows"} => m.home \in DOMAIN org.space

-----------------------------------------------------------------------------
(* down: the spaces of the demo's label by their other labels, whatever the   *)
(* definition says of them now.                                               *)

Groups == <<"deployment", "class base", "root base", "components", "cluster", "demo">>

\* Mutant: what the definition describes is deleted.
BatchByModel(group, m) ==
  CASE group = "deployment" -> Slugs(DeploymentsOf(m.components)) \intersect DOMAIN org.space
    [] group = "class base" -> Slugs(BasesOf(m.components)) \intersect DOMAIN org.space
    [] group = "components" -> {c.name : c \in m.components} \intersect org.entity
    [] OTHER -> Spaces(group)

Batch(group, m) == IF group = "components" THEN org.entity ELSE Spaces(group)

Removed(group, S) ==
  IF group = "components" THEN [org EXCEPT !.entity = @ \ S]
  ELSE [org EXCEPT !.space = Without(@, S), !.target = @ \ S,
          !.unit = Without(@, {u \in DOMAIN @ : u[1] \in S}),
          !.releases = Without(@, S), !.reported = @ \ S]

-----------------------------------------------------------------------------
(* install: the files of the bundle, each created where it is not there and   *)
(* uploaded where its content differs. One of the two calls may fail.         *)

\* Mutant: a file is uploaded where this run created it.
StoreCreated(v, uncreated, unwritten) ==
  LET text(p) ==
        IF p \in DOMAIN stored THEN stored[p] ELSE IF p \in unwritten THEN Empty ELSE v
  IN Over([p \in Paths(Drafts[v]) \ uncreated |-> text(p)], stored)

Stored(v, uncreated, unwritten) ==
  LET given == Paths(Drafts[v])
      same(p) == p \in DOMAIN stored /\ Files[p] = Content(Drafts[v], p)
  IN [p \in (given \ uncreated) \union DOMAIN stored |->
       IF p \in given \ unwritten /\ ~same(p) THEN v
       ELSE IF p \in DOMAIN stored THEN stored[p] ELSE Empty]

-----------------------------------------------------------------------------
(* The verbs, one at a time: each loads its definition, then goes through its *)
(* steps until one fails.                                                     *)

Idle == [verb |-> "none"]
Loaded == FromFiles(Files)
Agents == Named(Loaded.scenario.agents)

\* The machine matters to what a tool defines of its own, and to accounts.
AnyMachine == CHOOSE m \in Machine : TRUE

LifeInit ==
  /\ stored = <<>> /\ org = NoOrg /\ job = Idle /\ at = 0 /\ said = "none"
  /\ installed = "none" /\ grown = {} /\ jobs = 0 /\ events = 0
  /\ ViewsInit /\ AccountsInit

\* The steps are taken on machine m; `says` is what the verb has done then.
Start(verb, m, steps, model, says) ==
  /\ at = 0 /\ jobs < MaxJobs /\ verb \in Verbs
  /\ job' = [verb |-> verb, machine |-> m, steps |-> steps, model |-> model, says |-> says]
  /\ at' = 1 /\ said' = "none" /\ jobs' = jobs + 1
  /\ UNCHANGED <<stored, org, installed, grown, events, viewVars>>

Install(v) ==
  /\ v \in Installables
  /\ Start("install", AnyMachine, <<"store">>, v, "install") /\ UNCHANGED accountVars

RunUp(model) ==
  /\ \E m \in Machine, phases \in PhaseArgs :
       LET wanted(p) == p \in phases IN
       IF phases = {} THEN Start("up", m, Phases, model, "up")
       ELSE Start("up", m, SelectSeq(Phases, wanted), model, "none")
  /\ UNCHANGED accountVars

RunDown(model) ==
  /\ \E verb \in {"down", "uninstall"} : Start(verb, AnyMachine, Groups, model, verb)
  /\ UNCHANGED accountVars

\* "down --yes followed by up".
RunReset(model) ==
  /\ \E m \in Machine : Start("reset", m, Groups \o Phases, model, "up")
  /\ UNCHANGED accountVars

RunAgents ==
  \E m \in Machine :
    \/ Start("agents up", m, <<"agents">>, Agents, "none") /\ AccountsBegin(m, "up", Agents)
    \/ Start("agents down", m, <<"agents">>, Agents, "none") /\ AccountsBegin(m, "down", Agents)

Doing(steps) == at # 0 /\ job.steps[at] \in steps
Ends(word) == at' = 0 /\ job' = Idle /\ said' = word

\* The next step, or the end.
Goes == IF at = Len(job.steps) THEN Ends(job.says) ELSE at' = at + 1 /\ UNCHANGED <<job, said>>

\* A call failed or not: the rest of its pool is made, and the verb ends.
Outcome(failed) ==
  IF failed THEN Ends("none") /\ events' = events + 1 ELSE Goes /\ UNCHANGED events

MayFail == "fault" \in Env /\ events < MaxEvents
OneOf(items) == {{}} \union (IF MayFail THEN {{x} : x \in items} ELSE {})

Store ==
  /\ at # 0 /\ job.verb = "install"
  /\ \E uncreated \in OneOf(Paths(Drafts[job.model]) \ DOMAIN stored),
        unwritten \in OneOf(Paths(Drafts[job.model])) :
       /\ {} \in {uncreated, unwritten}
       /\ stored' = Stored(job.model, uncreated, unwritten)
       /\ installed' = IF uncreated \union unwritten = {} THEN job.model ELSE "mixed"
       /\ Outcome(uncreated \union unwritten # {})
  /\ UNCHANGED <<org, grown, jobs, viewVars, accountVars>>

Make ==
  /\ Doing(ToSet(Phases) \ {"views", "stories"}) /\ MayRun(job.steps[at], job.model)
  /\ \E left \in OneOf(Items(job.steps[at], job.model)) :
       /\ org' = Made(job.steps[at], job.model, left)
       /\ Outcome(left # {})
  /\ grown' = grown \union {installed}
  /\ UNCHANGED <<stored, installed, jobs, viewVars, accountVars>>

Refuse ==
  /\ at # 0 /\ ~MayRun(job.steps[at], job.model) /\ Ends("none")
  /\ UNCHANGED <<stored, org, installed, grown, jobs, events, viewVars, accountVars>>

\* The views phase, call by call.
ConvergeViews ==
  /\ Doing({"views"}) /\ MayRun("views", job.model)
  /\ \/ turn = 0 /\ ViewsBegin(ToolOf[job.machine]) /\ UNCHANGED <<job, at, said, events>>
     \/ ViewsStep /\ UNCHANGED <<job, at, said, events>>
     \/ turn > Views /\ ViewsStop /\ Goes /\ UNCHANGED events
     \/ turn \in 1 .. Views /\ MayFail /\ ViewsStop /\ Outcome(TRUE)
  /\ UNCHANGED <<stored, org, installed, grown, jobs, accountVars>>

\* A walk that gets through has reported on what it published. A gate, a missing
\* workflow or class, or a failed call ends it before.
WalkStories ==
  /\ Doing({"stories"})
  /\ \E more \in Further(job.model) :
       \E told \in SUBSET (StorySpaces(job.model) \intersect (Walked(more) \union DOMAIN org.releases)) :
         /\ org' = MakeStories(more, told)
         /\ \/ Walked(more) \intersect StorySpaces(job.model) \subseteq told /\ Goes
            \/ Ends("none")
  /\ grown' = grown \union {installed}
  /\ UNCHANGED <<stored, installed, jobs, events, viewVars, accountVars>>

\* The definition's space is a "demo" space; only uninstall deletes it.
TearDown ==
  LET group == job.steps[at]
      defined == IF group = "demo" /\ job.verb = "uninstall" THEN {"definition"} ELSE {}
  IN
  /\ Doing(ToSet(Groups))
  /\ \E left \in OneOf(Batch(group, job.model) \union defined) :
       LET gone == Batch(group, job.model) \ left
           forgotten == defined \ left # {}
       IN
       /\ org' = Removed(group, gone)
       /\ stored' = IF forgotten THEN <<>> ELSE stored
       /\ installed' = IF forgotten THEN "none" ELSE installed
       /\ IF group = "demo" /\ gone # {} THEN HomeGone ELSE UNCHANGED viewVars
       /\ Outcome(left # {})
  /\ grown' = IF org' = NoOrg THEN {} ELSE grown
  /\ UNCHANGED <<jobs, accountVars>>

\* agents up and agents down, call by call.
ServeAgents ==
  /\ Doing({"agents"})
  /\ \/ AccountsStep /\ UNCHANGED <<job, at, said, events>>
     \/ todo = {} /\ Goes /\ UNCHANGED <<events, accountVars>>
     \/ todo # {} /\ MayFail /\ AccountsStop /\ Outcome(TRUE)
  /\ UNCHANGED <<stored, org, installed, grown, jobs, viewVars>>

Crash ==
  /\ at # 0 /\ "crash" \in Env /\ events < MaxEvents
  /\ Outcome(TRUE) /\ ViewsStop
  /\ IF Doing({"agents"}) THEN AccountsStop ELSE UNCHANGED accountVars
  /\ UNCHANGED <<stored, org, installed, grown, jobs>>

LifeNext ==
  \/ \E v \in Draft : Install(v)
  \/ at = 0 /\ jobs < MaxJobs /\ Defined /\
       LET model == Expand(Loaded) IN RunUp(model) \/ RunDown(model) \/ RunReset(model) \/ RunAgents
  \/ Store \/ Make \/ Refuse \/ ConvergeViews \/ WalkStories \/ TearDown \/ ServeAgents \/ Crash

LifeSpec == LifeInit /\ [][LifeNext]_vars

-----------------------------------------------------------------------------
(* status *)

\* What stands of the plan, as `status` counts it: labels are looked up in the
\* whole org, so that units are the definition's own too, and Releases all there
\* ever were of a space.
SpacesOf(m) ==
  {m.home} \union ClusterNames(m) \union {c.root : c \in Ready(m)}
    \union Slugs(BasesOf(Ready(m))) \union Slugs(DeploymentsOf(Ready(m)))
UnitsWanted(m) == Cardinality(UnitsFor(Ready(m)))
ReleasesWanted(m) == Slugs(DeploymentsOf(Ready(m))) \ m.unreleased
ReleasesThere == Cardinality(UNION {{s} \X (1 .. org.releases[s].count) : s \in DOMAIN org.releases})

StatusComplete(m) ==
  /\ SpacesOf(m) \subseteq DOMAIN org.space
  /\ Cardinality(m.clusters) <= Cardinality(org.target)
  /\ {c.name : c \in Ready(m)} \subseteq org.entity
  /\ UnitsWanted(m) <= Cardinality(DOMAIN org.unit) + Cardinality(DOMAIN stored)
  /\ Cardinality(ReleasesWanted(m)) <= ReleasesThere
  /\ Painted(m) \subseteq org.reported

-----------------------------------------------------------------------------
LifeTypeOK ==
  /\ stored \in UNION {[P -> Draft \union {Empty}] : P \in {DOMAIN stored}}
  /\ DOMAIN stored \subseteq UNION {Paths(Drafts[v]) : v \in DOMAIN Plans}
  /\ {u[1] : u \in DOMAIN org.unit} \union org.target \union DOMAIN org.releases \union org.reported
       \subseteq DOMAIN org.space
  /\ org.reported \subseteq DOMAIN org.releases
  /\ installed \in Draft \union {"none", "mixed"} /\ grown \subseteq Draft \union {"mixed"}
  /\ said \in {"none", "install", "up", "down", "uninstall"}
  /\ jobs \in 0 .. MaxJobs /\ events \in 0 .. MaxEvents
  /\ ViewsTypeOK /\ AccountsTypeOK

\* "every other verb reads them back from there" (cmd/install.go): however
\* definitions were installed one over another and cut short, what verbs load
\* after an install that got through is what was installed, file by file.
InstalledIsWhole ==
  said = "install" =>
    /\ Defined /\ Expand(Loaded) = Plans[installed]
    /\ \A p \in Paths(Drafts[installed]) : Files[p] = Content(Drafts[installed], p)

\* "Totals are the entity counts 'up' will produce" (expand.go), of Releases the
\* first ones: grown from nothing by one definition, however often up was cut
\* short before. A deployment no story walks has its one Release or is among
\* those kept without; one that is walked has more, or has one all the same.
UpMakesThePlan ==
  said = "up" /\ installed \in Draft /\ grown = {installed} =>
    LET m == Plans[installed] IN
    /\ m.totals =
         [clusters |-> Cardinality(org.target), components |-> Cardinality(org.entity),
          spaces |-> Cardinality(DOMAIN org.space), units |-> Cardinality(DOMAIN org.unit),
          links |-> Cardinality({u \in DOMAIN org.unit : org.space[u[1]] # "root base"}),
          releases |-> Cardinality(DOMAIN org.releases \ m.unreleased)]
    /\ \A s \in DOMAIN org.releases \ StorySpaces(m) : s \notin m.unreleased /\ org.releases[s].count = 1

\* What up of a whole definition leaves, `status` calls complete: whatever other
\* definitions the org was grown by, or that definition is mixed of.
UpSatisfiesStatus == said = "up" => StatusComplete(Expand(Loaded))

\* "Only entities carrying the label are touched" and "nothing of the demo
\* remains in the org" (cmd/down.go, cmd/uninstall.go): by whichever definitions
\* the org was grown, and wherever verbs were cut short.
DownTakesAll ==
  /\ said \in {"down", "uninstall"} => org = NoOrg /\ view = Nothing /\ filter = Nothing
  /\ said = "down" => Defined
  /\ said = "uninstall" => stored = <<>>

\* "To change a running demo, edit an exported copy, "install" it again (...),
\* and "up" reconciles the org to it" (cmd/root.go:64): every unit of every
\* variant has the data its manifest has now.
UpReconciles ==
  said = "up" =>
    \A c \in Ready(Expand(Loaded)) :
      \A u \in DOMAIN c.manifest, s \in {c.root} \union Slugs(c.bases) \union Slugs(c.deployments) :
        <<s, u>> \in DOMAIN org.unit /\ org.unit[<<s, u>>] = Files[c.manifest[u]]

\* "Everything the implemented phases create exists." (cmd/status.go:53): then
\* every unit of every variant does.
StatusIsRight ==
  at = 0 /\ Defined /\ StatusComplete(Expand(Loaded)) =>
    \A c \in Ready(Expand(Loaded)) :
      \A u \in DOMAIN c.manifest, s \in {c.root} \union Slugs(c.bases) \union Slugs(c.deployments) :
        <<s, u>> \in DOMAIN org.unit
=============================================================================

------------------------------ MODULE DemoOrg ------------------------------
(***************************************************************************)
(* `cub demo up` as far as its deployments phase, and `cub demo down`, on  *)
(* one org (internal/seed: home, clusters, bases, protections,             *)
(* deployments, deployfns, seeder, teardown): run in any order, cut short  *)
(* anywhere, run again, in an org where some slugs are somebody else's.    *)
(*                                                                         *)
(* A phase is one pool of forEach or more; `at` is the pool in hand and    *)
(* `todo` the items left in it.  Where an item is several calls the next   *)
(* one is the first whose effect does not stand: every call before it is   *)
(* skipped by the code, or made again to no effect.                        *)
(***************************************************************************)
EXTENDS Naturals, Sequences, FiniteSets

CONSTANTS
  Component, Cluster,
  ClassOf,     \* [Cluster -> class]
  Placement,   \* [Component -> SUBSET Cluster]: where it is deployed
  Units,       \* [Component -> its units' slugs]
  Varying,     \* components with per-region, -cluster or -variant functions
  Taken,       \* sets of spaces somebody else's may have the slug of
  Env,         \* what may go wrong: "crash", "fault"
  MaxRuns, MaxEvents  \* bounds: commands run; crashes and failed calls

Home == <<"home">>
Definition == <<"scenario">>
ClusterSpace(k) == <<"cluster", k>>
Root(c) == <<"root", c>>
ClassBase(c, s) == <<"class", c, s>>
Deployment(c, k) == <<"deployment", c, k>>

Class == {ClassOf[k] : k \in Cluster}
ClassesOf(c) == {ClassOf[k] : k \in Placement[c]}
ClassBasesOf(c) == {ClassBase(c, s) : s \in ClassesOf(c)}
DeploymentsOf(c) == {Deployment(c, k) : k \in Placement[c]}
Roots == {Root(c) : c \in Component}
ClassBases == UNION {ClassBasesOf(c) : c \in Component}
Deployments == UNION {DeploymentsOf(c) : c \in Component}
ClusterSpaces == {ClusterSpace(k) : k \in Cluster}
VariantsOf(c) == {Root(c)} \union ClassBasesOf(c) \union DeploymentsOf(c)
Variants == Roots \union ClassBases \union Deployments
Space == {Home, Definition} \union ClusterSpaces \union Variants
Upstream(v) == IF v[1] = "class" THEN Root(v[2]) ELSE ClassBase(v[2], ClassOf[v[3]])
Unit == UNION {Units[c] : c \in Component}

ASSUME ScenarioAssumption ==
  /\ Placement \in [Component -> SUBSET Cluster]
  /\ \A c \in Component : Units[c] # {} /\ IsFiniteSet(Units[c])
  /\ IsFiniteSet(Cluster) /\ Varying \subseteq Component
  /\ Taken \subseteq SUBSET (Space \ {Definition})
ASSUME BoundsAssumption == MaxRuns \in Nat /\ MaxEvents \in Nat

\* What a unit has got: it exists, has data, bears the manifest's hash, and
\* had applied to it what its phase applies.
Layer == {"unit", "data", "hash", "policy", "protection", "labels", "variation"}
Revision == {"data", "policy", "protection"}  \* what a clone is cloned at

VARIABLES
  org,    \* owner, component, target, patched, layers, from, mark: see TypeOK
  known,  \* s.spaces and s.components: the index, and what the run remembered
  at, todo, failed, command, outcome,   \* the command in hand
  cut,    \* something went wrong in it
  torn,   \* a `down` was cut short and none has got through since
  runs, events

runVars == <<known, at, todo, failed, command, outcome>>
vars == <<org, runVars, cut, torn, runs, events>>

\* Mutants: the class bases are protected with the deployments; the variation
\* is applied before the labels it selects by are there.
UpPoolsProtectLate == <<"home", "clusters", "bases",
  "spaces", "patches", "units", "unitLabels", "variation", "protections", "shields">>
UpPoolsVaryFirst == <<"home", "clusters", "bases", "protections",
  "spaces", "patches", "units", "variation", "unitLabels", "shields">>
UpPools == <<"home", "clusters", "bases", "protections",
             "spaces", "patches", "units", "unitLabels", "variation", "shields">>
\* Mutant: the component entities are left.
DownPoolsSpaces == <<"deployments", "classBases", "rootBases", "clusterSpaces", "homes">>
DownPools == <<"deployments", "classBases", "rootBases", "components", "clusterSpaces", "homes">>
Pools == IF command = "up" THEN UpPools ELSE DownPools
pool == Pools[at]

Ours(s) == org.owner[s] = "ours"
Has(s) == {u \in Unit : org.layers[s][u] # {}}
Bears(s, layer) == \A u \in Has(s) : layer \in org.layers[s][u]
Entity(c) == <<"component", c>>
Targeted(k) == {d \in Deployments : d[3] = k}

-----------------------------------------------------------------------------
(* The server *)

\* A slug nobody has becomes the demo's; with allow-exists, one that is taken
\* is left as it is.
Create(s, owner) ==
  org' = [org EXCEPT !.owner[s] = IF @ = "none" THEN owner ELSE @]

\* The missing clones in spaces V of their upstream's units.
CloneInto(V) ==
  LET missing(v, u) == v \in V /\ u \notin Has(v) IN
  org' = [org EXCEPT
    !.layers = [v \in Space |-> [u \in Unit |->
      IF missing(v, u) THEN @[Upstream(v)][u] \ {"hash", "protection"} ELSE @[v][u]]],
    !.from = [v \in Space |-> [u \in Unit |->
      IF missing(v, u) THEN org.layers[Upstream(v)][u] \intersect Revision ELSE @[v][u]]]]

\* Mutant: the layer is there for units that do not exist.
StampAnyway(V, U, layer) ==
  org' = [org EXCEPT !.layers = [v \in Space |-> [u \in Unit |->
    IF v \in V /\ u \in U THEN @[v][u] \union {layer} ELSE @[v][u]]]]

\* Functions invoked, labels or protection set, on the units U of spaces V.
Stamp(V, U, layer) ==
  org' = [org EXCEPT !.layers = [v \in Space |-> [u \in Unit |->
    IF v \in V /\ u \in U \intersect Has(v) THEN @[v][u] \union {layer} ELSE @[v][u]]]]

Mark(s, n) == org' = [org EXCEPT !.mark[s] = n]

\* A space goes with all that is in it.
DeleteSpace(s) ==
  org' = [org EXCEPT
    !.owner[s] = "none", !.mark[s] = 0,
    !.layers[s] = [u \in Unit |-> {}], !.from[s] = [u \in Unit |-> {}],
    !.patched = @ \ {s},
    !.target = {k \in @ : ClusterSpace(k) # s}]

\* What something else still refers to is not deleted; somebody else's spaces
\* are clones of none of the demo's.
InUse(x) ==
  CASE x[1] \in {"root", "class"} ->
         \E v \in ClassBases \union Deployments : Upstream(v) = x /\ Ours(v) /\ Has(v) # {}
    [] x[1] = "cluster" -> \E d \in Targeted(x[2]) : d \in org.patched
    [] x[1] = "component" -> \E v \in VariantsOf(x[2]) : Ours(v)
    [] OTHER -> FALSE

-----------------------------------------------------------------------------
(* up: the items of each pool, and when there is nothing left to do for one *)

UpItems(p) ==
  CASE p = "home" -> {Home}
    [] p \in {"clusters", "patches", "unitLabels"} -> ClusterSpaces
    [] p = "bases" -> Roots
    [] p = "variation" -> {Root(c) : c \in Varying}
    [] p = "protections" -> ClassBases \intersect known
    [] p \in {"spaces", "units"} -> Deployments
    [] p = "shields" -> Deployments \intersect known

Cloned(v) == Ours(v) => Has(v) = Has(Upstream(v))
Hashed(c) == \A u \in Units[c] : "hash" \in org.layers[Root(c)][u]

\* deployments: what BulkPatchSpaces and BulkCreateUnits select.
Turned(k) == {d \in Targeted(k) : Ours(d)}
Cloneable(d) == Ours(d) /\ d \in org.patched

Stands(p, x) ==
  CASE p = "home" -> x \in known
    [] p = "clusters" -> x \in known /\ x[2] \in org.target
    [] p = "bases" ->
         /\ {x, Entity(x[2])} \union ClassBasesOf(x[2]) \subseteq known
         /\ Hashed(x[2])
         /\ \A b \in ClassBasesOf(x[2]) : Cloned(b) /\ org.mark[b] = 1
    [] p \in {"protections", "shields"} -> Bears(x, "protection")
    [] p = "spaces" -> x \in known \/ org.owner[Upstream(x)] = "other"
    [] p = "patches" -> Turned(x[2]) \subseteq org.patched
    [] p = "units" -> Cloneable(x) => Cloned(x)
    [] p = "unitLabels" -> \A d \in Targeted(x[2]) \intersect org.patched : Bears(d, "labels")
    [] p = "variation" -> org.mark[x] = Cardinality(Placement[x[2]])

-----------------------------------------------------------------------------
(* up: the next call for an item. On a bulk call that fails in part it has    *)
(* its effect on the spaces P only.                                           *)

\* Mutant: the answer of the create is believed, which bears the demo's label.
EnsureSpaceTrusting(s) == Create(s, "ours") /\ known' = known \union {s}

\* ensureSpace: the created space is read back, and taken only if it is ours.
EnsureSpace(s) == org.owner[s] # "other" /\ Create(s, "ours") /\ known' = known \union {s}

\* ensureComponent: an unlabelled entity that only the demo's spaces name is
\* adopted.
EnsureComponent(c) ==
  /\ org.component[c] \in {"none", "ours", "orphan"}
  /\ org' = [org EXCEPT !.component[c] = "ours"]
  /\ known' = known \union {Entity(c)}

\* Mutant: the hash is recorded before the data is there.
RootUnitHashFirst(c, u) ==
  org' = [org EXCEPT !.layers[Root(c)][u] =
       @ \union (IF @ = {} THEN {"unit"} ELSE IF "hash" \notin @ THEN {"hash"} ELSE {"data"})]

\* A root unit is created, its data uploaded, and then the hash recorded.
RootUnit(c, u) ==
  org' = [org EXCEPT !.layers[Root(c)][u] =
    @ \union (IF @ = {} THEN {"unit"} ELSE IF "data" \notin @ THEN {"data"} ELSE {"hash"})]

\* A bulk clone of spaces with allow-exists: whatever is answered is taken. A
\* clone is named after its upstream's Component, which of a class base that is
\* somebody else's is another one: no deployment of the demo comes of that.
CloneSpace(v) == Create(v, org.owner[Upstream(v)]) /\ known' = known \union {v}

\* The units of v that a layer is missing from.
Lacking(v, layer) == {u \in Has(v) : layer \notin org.layers[v][u]}

\* classFunctions: the policy, one group of units after the other, then the
\* marker of the set applied.
ClassFunctions(b) ==
  /\ IF Bears(b, "policy") THEN Mark(b, 1)
     ELSE \E U \in (SUBSET Lacking(b, "policy")) \ {{}} : Stamp({b}, U, "policy")
  /\ UNCHANGED known

ComponentBases(c, P) ==
  CASE Entity(c) \notin known -> EnsureComponent(c)
    [] Entity(c) \in known /\ Root(c) \notin known -> EnsureSpace(Root(c))
    [] {Entity(c), Root(c)} \subseteq known /\ ~Hashed(c) ->
         /\ \E u \in Units[c] : "hash" \notin org.layers[Root(c)][u] /\ RootUnit(c, u)
         /\ UNCHANGED known
    [] OTHER ->
         IF ~(ClassBasesOf(c) \subseteq known) THEN \E b \in ClassBasesOf(c) \ known : CloneSpace(b)
         ELSE IF \E b \in ClassBasesOf(c) : ~Cloned(b)
         THEN CloneInto({b \in ClassBasesOf(c) \intersect P : Ours(b)}) /\ UNCHANGED known
         ELSE \E b \in ClassBasesOf(c) : org.mark[b] = 0 /\ ClassFunctions(b)

\* What the variation's invocations select: by the labels of the units.
Selected(c) ==
  {w \in (DeploymentsOf(c) \intersect org.patched) \X Unit :
     w[2] \in Has(w[1]) /\ "labels" \in org.layers[w[1]][w[2]]}

\* deploymentFunctions: the variation, one selection of units after the other;
\* then the marker, the set applied and the number of deployments.
DeploymentFunctions(c) ==
  LET left == {w \in Selected(c) : "variation" \notin org.layers[w[1]][w[2]]} IN
  IF left = {} THEN Mark(Root(c), Cardinality(Placement[c]))
  ELSE \E w \in left : Stamp({w[1]}, {w[2]}, "variation")

UpCall(x, P) ==
  CASE pool = "home" -> EnsureSpace(x)
    [] pool = "clusters" ->
         IF x \notin known THEN EnsureSpace(x)
         ELSE org' = [org EXCEPT !.target = @ \union {x[2]}] /\ UNCHANGED known
    [] pool = "bases" -> ComponentBases(x[2], P)
    [] pool = "spaces" -> CloneSpace(x)
    [] pool = "patches" -> org' = [org EXCEPT !.patched = @ \union (Turned(x[2]) \intersect P)] /\ UNCHANGED known
    [] pool = "units" -> CloneInto({x} \intersect P) /\ UNCHANGED known
    [] pool = "unitLabels" -> Stamp(Targeted(x[2]) \intersect org.patched \intersect P, Unit, "labels") /\ UNCHANGED known
    [] pool = "variation" -> DeploymentFunctions(x[2]) /\ UNCHANGED known
    [] OTHER -> Stamp({x}, Unit, "protection") /\ UNCHANGED known

\* Somebody else's space or component is a hard error.
UpRefused(x) ==
  \/ pool \in {"home", "clusters"} /\ x \notin known /\ org.owner[x] = "other"
  \/ /\ pool = "bases"
     /\ \/ Entity(x[2]) \notin known /\ org.component[x[2]] \in {"claimed", "other"}
        \/ Entity(x[2]) \in known /\ x \notin known /\ org.owner[x] = "other"

-----------------------------------------------------------------------------
(* down *)

\* Mutant: what was cloned but not yet turned into a deployment is forgotten.
HalfMadeForgotten == ClassBases

\* A deployment space bears Role=base from its class base until `up` has
\* turned it into a deployment.
HalfMade == ClassBases \union Deployments

DownItems(p) ==
  CASE p = "deployments" -> org.patched
    [] p = "classBases" -> {v \in HalfMade : Ours(v)}
    [] p = "rootBases" -> {r \in Roots : Ours(r)}
    [] p = "components" -> {Entity(c) : c \in {e \in Component : org.component[e] = "ours"}}
    [] p = "clusterSpaces" -> {s \in ClusterSpaces : Ours(s)}
    [] p = "homes" -> {Home} \intersect {s \in Space : Ours(s)}

Gone(x) == IF x[1] = "component" THEN org.component[x[2]] # "ours" ELSE ~Ours(x)

DownCall(x) ==
  /\ ~InUse(x)
  /\ IF x[1] = "component" THEN org' = [org EXCEPT !.component[x[2]] = "none"] ELSE DeleteSpace(x)
  /\ UNCHANGED known

-----------------------------------------------------------------------------
(* A command *)

Call(x, P) == IF command = "up" THEN UpCall(x, P) ELSE DownCall(x)
Refused(x) == IF command = "up" THEN UpRefused(x) ELSE InUse(x)
Done(x) == IF command = "up" THEN Stands(pool, x) ELSE Gone(x)
ItemsOf(p) ==
  IF command = "up" THEN {x \in UpItems(p) : ~Stands(p, x)} ELSE DownItems(p)

\* The index is loaded.
Start(cmd) ==
  /\ at = 0 /\ runs < MaxRuns
  /\ command' = cmd
  /\ known' = {s \in Space : Ours(s)} \union {Entity(c) : c \in {e \in Component : org.component[e] = "ours"}}
  /\ at' = 1
  /\ todo' = IF cmd = "down" THEN org.patched ELSE {Home} \ known'
  /\ failed' = FALSE /\ cut' = FALSE /\ outcome' = "running" /\ runs' = runs + 1
  /\ UNCHANGED <<org, torn, events>>

Stop(result) ==
  /\ at' = 0 /\ todo' = {} /\ outcome' = result
  /\ torn' = IF command = "down" THEN result # "ok" ELSE torn
  /\ UNCHANGED <<org, known, failed, command, runs>>

Work ==
  /\ UNCHANGED <<at, command, outcome, cut, torn, runs, events>>
  /\ \E x \in todo :
       \/ Call(x, Space) /\ todo' = (IF Done(x)' THEN todo \ {x} ELSE todo) /\ UNCHANGED failed
       \/ Refused(x) /\ todo' = todo \ {x} /\ failed' = TRUE /\ UNCHANGED <<org, known>>

\* Before the deployments phase's first pool every cluster must have its
\* target; after the last group of a teardown nothing of the demo is left.
MayGoOn ==
  /\ at < Len(Pools) /\ Pools[at + 1] = "spaces" => org.target = Cluster
  /\ at = Len(Pools) /\ command = "down" => {s \in Space : Ours(s)} \subseteq {Definition}

PoolEnds ==
  /\ at > 0 /\ todo = {}
  /\ \/ (failed \/ ~MayGoOn) /\ Stop("failed")
     \/ ~failed /\ MayGoOn /\ at = Len(Pools) /\ Stop("ok")
     \/ /\ ~failed /\ MayGoOn /\ at < Len(Pools)
        /\ at' = at + 1 /\ todo' = ItemsOf(Pools[at + 1])
        /\ UNCHANGED <<org, known, failed, command, outcome, torn, runs>>
  /\ UNCHANGED <<cut, events>>

Happens(e) == e \in Env /\ events < MaxEvents /\ events' = events + 1 /\ cut' = TRUE

\* The process dies, or a call outside a pool fails.
Interrupted == Happens("crash") /\ at > 0 /\ Stop("failed")

\* What a bulk call for an item reaches.
Reach(x) ==
  CASE x[1] = "root" -> ClassBasesOf(x[2])
    [] x[1] = "cluster" -> Targeted(x[2])
    [] OTHER -> {x}

\* The items that are not tried any more once one has failed: the later
\* chunks of its component and class, and where the calls are one by one.
After(x) ==
  CASE pool \in {"spaces", "units"} /\ command = "up" -> {y \in todo : Upstream(y) = Upstream(x)}
    [] pool \in {"protections", "shields"} -> todo
    [] OTHER -> {}

\* A call fails, in part, or took effect and its answer is lost.
CallFails ==
  /\ Happens("fault")
  /\ \E x \in todo :
       /\ \/ UNCHANGED <<org, known>>
          \/ \E P \in SUBSET Reach(x) : Call(x, P)
       /\ \E S \in SUBSET After(x) : todo' = todo \ ({x} \union S)
  /\ failed' = TRUE
  /\ UNCHANGED <<at, command, outcome, torn, runs>>

\* The demo is installed and nothing of it is there; some slugs and component
\* names are somebody else's, whose spaces hold units like the demo's.
Init ==
  /\ \E others \in Taken :
     \E components \in [Component -> {"none", "orphan", "claimed", "other"}] :
       /\ others # {} \/ components \in [Component -> {"none", "orphan"}]
       /\ org = [owner |-> [s \in Space |-> IF s = Definition THEN "ours"
                             ELSE IF s \in others THEN "other" ELSE "none"],
               component |-> components,
               target |-> {}, patched |-> {},
               layers |-> [s \in Space |-> [u \in Unit |-> IF s \in others THEN {"unit"} ELSE {}]],
               from |-> [s \in Space |-> [u \in Unit |-> {}]],
               mark |-> [s \in Space |-> 0]]
  /\ known = {} /\ at = 0 /\ todo = {} /\ failed = FALSE
  /\ command = "up" /\ outcome = "none" /\ cut = FALSE /\ torn = FALSE
  /\ runs = 0 /\ events = 0

Next ==
  \/ Start("up") \/ Start("down")
  \/ Work \/ PoolEnds
  \/ Interrupted \/ CallFails

Spec == Init /\ [][Next]_vars

-----------------------------------------------------------------------------
(* Properties *)

Finished(cmd) == at = 0 /\ command = cmd /\ outcome = "ok"

\* Class bases and deployments are not looked at for whose they are: those of a
\* component may be somebody else's.
Unchecked == ClassBases \union Deployments
Untaken(c) == \A v \in VariantsOf(c) : org.owner[v] # "other"

TypeOK ==
  /\ org \in [owner: [Space -> {"none", "ours", "other"}],
             component: [Component -> {"none", "ours", "orphan", "claimed", "other"}],
             target: SUBSET Cluster, patched: SUBSET Deployments,
             layers: [Space -> [Unit -> SUBSET Layer]],
             from: [Space -> [Unit -> SUBSET Revision]],
             mark: [Space -> Nat]]
  /\ \A s \in Space : \A u \in Has(s) : "unit" \in org.layers[s][u]
  /\ known \subseteq Space \union {Entity(c) : c \in Component}
  /\ at \in 0 .. 10 /\ todo \subseteq Space \union {Entity(c) : c \in Component}
  /\ command \in {"up", "down"} /\ outcome \in {"none", "running", "failed", "ok"}
  /\ {failed, cut, torn} \subseteq BOOLEAN
  /\ runs \in 0 .. MaxRuns /\ events \in 0 .. MaxEvents

\* "Idempotent, so an interrupted run is resumed by running up again"
\* (cmd/up.go): a run that gets through leaves everything there and whole,
\* wherever earlier ups and downs were cut short; but for the components it
\* found a class base or deployment of taken.
UpBuilds ==
  Finished("up") =>
    /\ \A s \in {Home, Definition} \union ClusterSpaces \union Roots : Ours(s)
    /\ \A c \in Component : org.component[c] = "ours"
    /\ org.target = Cluster
    /\ \A c \in {e \in Component : Untaken(e)} : \A v \in VariantsOf(c) :
         /\ Ours(v) /\ Has(v) = Units[c]
         /\ v[1] = "deployment" => v \in org.patched
         /\ \A u \in Units[c] :
              CASE v[1] = "root" -> "data" \in org.layers[v][u]
                [] v[1] = "class" -> {"data", "policy", "protection"} \subseteq org.layers[v][u]
                [] OTHER -> {"data", "policy", "labels", "protection"} \subseteq org.layers[v][u]

\* ... its deployments with their regions' and clusters' settings in them,
UpVaries ==
  Finished("up") => \A c \in {e \in Varying : Untaken(e)} :
    \A d \in DeploymentsOf(c) : Bears(d, "variation")

\* as long as no teardown has been left half way.
UpVariesIntact == ~torn => UpVaries

\* "a deployment cloned before it would sit behind its upstream, which a
\* change order then refuses to promote past" (protections.go): no clone is
\* ever behind what it was cloned from.
NoneBehind ==
  \A v \in ClassBases \union Deployments : Ours(v) => \A u \in Has(v) :
    org.from[v][u] = org.layers[Upstream(v)][u] \intersect Revision

\* "Adopting a space that is not this scenario's would put demo entities
\* inside somebody else's space" (seeder.go): what is theirs is not deleted,
\* relabelled or built in, and what the code looks at is not touched at all.
\* Class bases and deployments it does not look at: of theirs the units may get
\* the class's policy and the protection, and nothing else.
NoTrespass ==
  [][/\ \A s \in Space : org.owner[s] = "other" =>
          /\ org'.owner[s] = "other" /\ s \notin org'.patched
          /\ s[1] = "cluster" => s[2] \notin org'.target
          /\ Has(s)' = Has(s)
          /\ \A u \in Unit : org'.layers[s][u] \ org.layers[s][u] \subseteq
               (IF s \in Unchecked THEN {"policy", "protection"} ELSE {})
          /\ s \notin Unchecked => org'.mark[s] = org.mark[s]
     /\ \A c \in Component : org.component[c] \in {"claimed", "other"} =>
          org'.component[c] = org.component[c]]_vars

\* Teardown deletes "most-dependent first, because the server refuses to
\* delete what something else still refers to" (teardown.go); and a run in
\* which nothing goes wrong gets through, but where a slug is taken.
OnlyMishapsFail ==
  at = 0 /\ outcome = "failed" /\ ~cut =>
    /\ command = "up"
    /\ \/ \E s \in Space : org.owner[s] = "other"
       \/ \E c \in Component : org.component[c] \in {"claimed", "other"}

\* "Delete the dataset": nothing of the demo remains but its definition.
DownLeavesNothing ==
  Finished("down") =>
    /\ {s \in Space : Ours(s)} = {Definition}
    /\ \A c \in Component : org.component[c] # "ours"
    /\ org.target = {} /\ org.patched = {}
=============================================================================

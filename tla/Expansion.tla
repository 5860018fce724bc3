----------------------------- MODULE Expansion ------------------------------
(***************************************************************************)
(* A scenario and what it expands to (internal/scenario: schema.go,        *)
(* load.go, expand.go): which definitions Load accepts, and the clusters,  *)
(* spaces, units and counts Expand computes, which `plan` prints and `up`  *)
(* makes. No state.                                                        *)
(*                                                                         *)
(* A scenario is a record with the fields of schema.go that decide what    *)
(* exists: lists are sequences, a selector's lists are sets, a count per   *)
(* region is a function. Left out: the syntax and length of slugs, plays,  *)
(* and the fields that only end up in labels, facts and rendered text. The *)
(* result is a set where Expand's order only orders calls that a pool      *)
(* makes in no order.                                                      *)
(***************************************************************************)
EXTENDS Integers, Sequences, FiniteSets, SequencesExt, FiniteSetsExt, Functions, TLC

CONSTANTS
  Shuffle(_, _),  \* math/rand: the members of a set in an order, by seed
  Empty           \* the content of a file with nothing in it

Named(seq) == {seq[i].name : i \in DOMAIN seq}
NamesOf(seq) == [i \in DOMAIN seq |-> seq[i].name]
AllComponents(s) == s.catalog \o s.workloads

-----------------------------------------------------------------------------
(* Load: what is accepted. A scenario's name, agents, dimensions, clusters,   *)
(* components, stories and change orders are checked in this order.           *)

Shared == {"", "shared"}
Departments(s) == ToSet(s.departments) \union Shared

\* checkSelector; an unknown value of a dimension is refused.
Selectable(sel, s) ==
  /\ sel.classes \subseteq ToSet(s.classes) \union {"all"}
  /\ sel.regions \subseteq ToSet(s.regions)
  /\ sel.departments \subseteq Departments(s)

DimensionsAccepted(s) ==
  /\ s.regions # <<>> /\ s.classes # <<>>
  /\ IsInjective(s.regions) /\ IsInjective(s.classes)
  /\ \A r \in ToSet(s.rules) :
       /\ r.class \in ToSet(s.classes) /\ r.department \in Departments(s)
       /\ DOMAIN r.count \subseteq ToSet(s.regions) \union {"default"}
  /\ \A c \in ToSet(s.list) :
       /\ c.class \in ToSet(s.classes) /\ c.region \in ToSet(s.regions)
       /\ c.department \in Departments(s)

ComponentsAccepted(s) ==
  /\ IsInjective(NamesOf(AllComponents(s)))
  /\ \A c \in ToSet(AllComponents(s)) :
       /\ c.dir # "" /\ c.department \in Departments(s)
       /\ \A p \in ToSet(c.placement) : Selectable(p, s) /\ Selectable(p.exclude, s)
       /\ \A e \in ToSet(c.external) : e.kind \in {"rds", "bucket", "queue", "cache"}

StoryAccepted(s) ==
  /\ \A k \in ToSet(s.skews) :
       k.component \in Named(AllComponents(s)) /\ Selectable(k.where, s)
  /\ \A o \in ToSet(s.changeOrders) :
       /\ o.component \in Named(AllComponents(s))
       /\ o.landedThrough \in ToSet(s.classes) \union {"bases"}
  /\ \A k \in DOMAIN s.prerequisites :
       /\ k \in ToSet(s.classes) \union {"final"}
       /\ k = Head(s.classes) => s.prerequisites[k] = {}
       /\ s.prerequisites[k] \subseteq {"Released", "Healthy"}
  /\ s.degraded + s.outOfSync + s.progressing <= 100 /\ s.unreleased <= 100

\* validateAgents, the review workflow's lists among them.
AgentsAccepted(s) ==
  /\ IsInjective(NamesOf(s.agents))
  /\ \A a \in ToSet(s.agents) :
       /\ a.component \in Named(AllComponents(s)) \union {""}
       /\ a.component = "" => ~a.rollout
       /\ a.change > 0
  /\ ToSet(s.reviewed) \subseteq Named(AllComponents(s)) /\ IsInjective(s.reviewed)

\* Mutant: an external resource may have the name of a manifest's unit.
UnitsAcceptedApart(spec, c) ==
  /\ spec.units # <<>> /\ IsInjective(NamesOf(spec.units))
  /\ \A u \in ToSet(spec.units) : u.file # ""
  /\ IsInjective(NamesOf(c.external))

\* A component.yaml: the units and the external resources share their slugs.
UnitsAccepted(spec, c) ==
  /\ spec.units # <<>> /\ \A u \in ToSet(spec.units) : u.file # ""
  /\ IsInjective(NamesOf(spec.units) \o NamesOf(c.external))

\* A bundle is a scenario, each directory's component.yaml, and the other
\* files there are, by path.
Accepted(b) ==
  /\ AgentsAccepted(b.scenario) /\ DimensionsAccepted(b.scenario)
  /\ ComponentsAccepted(b.scenario) /\ StoryAccepted(b.scenario)
  /\ \A c \in ToSet(AllComponents(b.scenario)) :
       /\ \A e \in ToSet(c.external) : <<"external", e.kind>> \in DOMAIN b.files
       /\ c.dir \in DOMAIN b.specs /\ UnitsAccepted(b.specs[c.dir], c)

-----------------------------------------------------------------------------
(* Files and LoadFromFiles: a bundle as it is stored, content by path. *)

Paths(b) ==
  {<<"scenario">>} \union
  UNION {{<<c.dir, "component">>} \union {<<c.dir, u.file>> : u \in ToSet(b.specs[c.dir].units)}
           \union {<<"external", e.kind>> : e \in ToSet(c.external)} :
         c \in ToSet(AllComponents(b.scenario))}

Content(b, path) ==
  IF path = <<"scenario">> THEN b.scenario
  ELSE IF path[2] = "component" THEN b.specs[path[1]] ELSE b.files[path]

\* Files wants every manifest there, though Expand does not.
Storable(b) == Paths(b) \subseteq
  DOMAIN b.files \union {<<"scenario">>} \union {<<d, "component">> : d \in DOMAIN b.specs}

\* What does not parse, an empty scenario or component.yaml, is as not there.
FromFiles(files) ==
  LET specs == {p \in DOMAIN files : p # <<"scenario">> /\ p[2] = "component" /\ files[p] # Empty}
  IN
  [scenario |-> files[<<"scenario">>],
   specs |-> [d \in {p[1] : p \in specs} |-> files[<<d, "component">>]],
   files |-> [p \in {q \in DOMAIN files : q # <<"scenario">> /\ q[2] # "component"} |-> files[p]]]

-----------------------------------------------------------------------------
(* expandClusters *)

Count(rule, region) ==
  IF region \in DOMAIN rule.count THEN rule.count[region]
  ELSE IF "default" \in DOMAIN rule.count THEN rule.count["default"] ELSE 0

\* What the rules generate, region by region, then the explicit list.
Asked(s) ==
  LET generated(rule, region) ==
        [n \in 1 .. Count(rule, region) |->
          [name |-> "", class |-> rule.class, department |-> rule.department, region |-> region, index |-> 0]]
      ruled(rule) == FlattenSeq([j \in DOMAIN s.regions |-> generated(rule, s.regions[j])])
  IN FlattenSeq([i \in DOMAIN s.rules |-> ruled(s.rules[i])]) \o s.list

SamePlace(c, d) ==
  /\ c.class = d.class /\ c.region = d.region
  /\ c.department = d.department \/ {c.department, d.department} \subseteq Shared

\* Without an explicit index a cluster is numbered after the highest so far
\* of its class, department and region.
Index(asked) ==
  LET index[n \in DOMAIN asked] ==
        IF asked[n].index # 0 THEN asked[n].index
        ELSE 1 + Max({0} \union {index[m] : m \in {k \in 1 .. n - 1 : SamePlace(asked[k], asked[n])}})
  IN index

\* clusterName: <region>-<class><n>, or <region>-<dept>-<class><n>.
ClusterName(c, n) ==
  c.region \o "-" \o (IF c.department \in Shared THEN "" ELSE c.department \o "-") \o c.class \o ToString(n)

ClusterList(s) ==
  LET asked == Asked(s) IN
  [n \in DOMAIN asked |->
    [name |-> IF asked[n].name # "" THEN asked[n].name ELSE ClusterName(asked[n], Index(asked)[n]),
     class |-> asked[n].class, region |-> asked[n].region,
     department |-> IF asked[n].department \in Shared THEN "shared" ELSE asked[n].department,
     index |-> Index(asked)[n]]]

\* "duplicate cluster" is the one error of Expand itself.
Expandable(s) == IsInjective(NamesOf(ClusterList(s)))
Clusters(s) == ToSet(ClusterList(s))

-----------------------------------------------------------------------------
(* expandComponent *)

In(values, v) == values = {} \/ v \in values
OfClass(values, v) == In(values, v) \/ "all" \in values

\* Every list that is not empty contains the cluster's value.
Matches(sel, c) ==
  OfClass(sel.classes, c.class) /\ In(sel.regions, c.region) /\ In(sel.departments, c.department)

\* An exclusion that names nothing excludes nothing.
Excludes(sel, c) ==
  (sel.classes \union sel.regions \union sel.departments) # {} /\ Matches(sel, c)

\* The union of the rules; no rules means every cluster.
PlacedOn(rules, c) ==
  \/ rules = <<>>
  \/ \E r \in ToSet(rules) :
       /\ Matches(r, c) /\ ~Excludes(r.exclude, c)
       /\ r.maxIndex > 0 => c.index <= r.maxIndex

RootSpace(name) == name \o "-base"
Variant(name, label) == name \o "-" \o label

\* What a unit is rendered from; an external resource, from its kind's template.
Manifest(spec, c, u) ==
  IF u \in Named(c.external)
  THEN <<"external", (CHOOSE e \in ToSet(c.external) : e.name = u).kind>>
  ELSE <<c.dir, (CHOOSE d \in ToSet(spec.units) : d.name = u).file>>

\* A class has a base where the component has a deployment of it; `from` is
\* what a variant is cloned from.
Component(b, c) ==
  LET on == {k \in Clusters(b.scenario) : PlacedOn(c.placement, k)}
      spec == b.specs[c.dir]
  IN
  [name |-> c.name, painted |-> c.liveStatus # "none",
   units |-> NamesOf(spec.units) \o NamesOf(c.external),
   manifest |-> [u \in Named(spec.units) \union Named(c.external) |-> Manifest(spec, c, u)],
   root |-> RootSpace(c.name),
   bases |-> {[slug |-> Variant(c.name, k.class), from |-> RootSpace(c.name)] : k \in on},
   deployments |-> {[slug |-> Variant(c.name, k.name), from |-> Variant(c.name, k.class)] : k \in on},
   ready |-> \A u \in ToSet(spec.units) : <<c.dir, u.file>> \in DOMAIN b.files]

\* selectStory: each share is taken from what the ones before left.
Take(seq, percent) == (Len(seq) * percent) \div 100
Taken(seq, percent) == SubSeq(seq, 1, Take(seq, percent))
Rest(seq, percent) == SubSeq(seq, Take(seq, percent) + 1, Len(seq))
Unreleased(s, spaces) ==
  LET healthy == Rest(Rest(Rest(Shuffle(spaces, s.seed), s.degraded), s.outOfSync), s.progressing)
  IN ToSet(Taken(healthy, s.unreleased))

-----------------------------------------------------------------------------
(* total, and the whole of Expand *)

\* What up makes for the components C: bases, deployments, and of each unit one
\* in the root base and one in each variant, with a link to the one it is of.
BasesFor(C) == UNION {{m} \X m.bases : m \in C}
DeploymentsFor(C) == UNION {{m} \X m.deployments : m \in C}
LinksFor(C) ==
  UNION {{m} \X (1 .. Len(m.units)) \X (({"base"} \X m.bases) \union ({"deployment"} \X m.deployments)) : m \in C}
UnitsFor(C) ==
  LinksFor(C) \union UNION {{m} \X (1 .. Len(m.units)) \X {<<"root", [slug |-> m.root]>>} : m \in C}

\* Counted over every component, with manifests or without.
Totals(clusters, models, unreleased) ==
  LET bases == Cardinality(BasesFor(models))
      deployments == Cardinality(DeploymentsFor(models))
  IN
  [clusters |-> Cardinality(clusters), components |-> Cardinality(models),
   spaces |-> 1 + Cardinality(clusters) + Cardinality(models) + bases + deployments,
   units |-> Cardinality(UnitsFor(models)), links |-> Cardinality(LinksFor(models)),
   releases |-> deployments - Cardinality(unreleased)]

\* The class bases of the stages a change order is walked through; a class its
\* component has no deployment of has no base.
StageBases(s, o) ==
  LET upTo(n) == \E i \in n .. Len(s.classes) : s.classes[i] = o.landedThrough IN
  {Variant(o.component, s.classes[n]) : n \in {n \in DOMAIN s.classes : o.landedThrough # "bases" /\ upTo(n)}}

Expand(b) ==
  LET s == b.scenario
      models == {Component(b, c) : c \in ToSet(AllComponents(s))}
      unreleased == Unreleased(s, UNION {{d.slug : d \in m.deployments} : m \in models})
  IN
  [home |-> s.name \o "-platform", clusters |-> Clusters(s), components |-> models,
   unreleased |-> unreleased,
   stories |-> [i \in DOMAIN s.changeOrders |->
                 [component |-> s.changeOrders[i].component, bases |-> StageBases(s, s.changeOrders[i])]],
   totals |-> Totals(Clusters(s), models, unreleased)]

Readable(files) ==
  /\ <<"scenario">> \in DOMAIN files /\ files[<<"scenario">>] # Empty
  /\ Accepted(FromFiles(files)) /\ Expandable(FromFiles(files).scenario)
=============================================================================

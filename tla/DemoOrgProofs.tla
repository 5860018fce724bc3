--------------------------- MODULE DemoOrgProofs ---------------------------
(***************************************************************************)
(* Theorems about DemoOrg, for any components, clusters and units, any     *)
(* slugs that somebody else has taken, and any runs and mishaps.           *)
(***************************************************************************)
EXTENDS DemoOrg, FiniteSetTheorems, TLAPS

USE ScenarioAssumption, BoundsAssumption

-----------------------------------------------------------------------------
(* The spaces *)

LEMMA RootIs ==
  ASSUME NEW x \in Roots
  PROVE  x[1] = "root" /\ x[2] \in Component /\ x = Root(x[2]) /\ x \in Space
BY DEF Roots, Root, Space, Variants

LEMMA ClassBaseIs ==
  ASSUME NEW b \in ClassBases
  PROVE  /\ b[1] = "class" /\ b[2] \in Component /\ b \in ClassBasesOf(b[2]) /\ b \in Space
         /\ Upstream(b) = Root(b[2]) /\ Upstream(b) \in Roots
BY DEF ClassBases, ClassBasesOf, ClassBase, Upstream, Roots, Space, Variants

LEMMA DeploymentIs ==
  ASSUME NEW d \in Deployments
  PROVE  /\ d[1] = "deployment" /\ d[2] \in Component /\ d \in DeploymentsOf(d[2]) /\ d \in Space
         /\ d[3] \in Placement[d[2]] /\ d[3] \in Cluster /\ d \in Targeted(d[3])
         /\ Upstream(d) \in ClassBasesOf(d[2]) /\ Upstream(d) \in ClassBases
         /\ Upstream(d)[2] = d[2]
<1>1. PICK c \in Component : d \in DeploymentsOf(c)
  BY DEF Deployments
<1>2. PICK k \in Placement[c] : d = Deployment(c, k)
  BY <1>1 DEF DeploymentsOf
<1>3. d[1] = "deployment" /\ d[2] = c /\ d[3] = k /\ k \in Cluster
  BY <1>2 DEF Deployment
<1>4. Upstream(d) = ClassBase(c, ClassOf[k])
  BY <1>3 DEF Upstream
<1>5. ClassBase(c, ClassOf[k]) \in ClassBasesOf(c)
  BY DEF ClassBasesOf, ClassesOf
<1>6. ClassBase(c, ClassOf[k])[2] = c
  BY DEF ClassBase
<1>7. Upstream(d) \in ClassBases
  BY <1>4, <1>5 DEF ClassBases
<1> QED
  BY <1>1, <1>3, <1>4, <1>5, <1>6, <1>7 DEF Targeted, Space, Variants

LEMMA ClusterIs ==
  ASSUME NEW x \in ClusterSpaces
  PROVE  x[1] = "cluster" /\ x[2] \in Cluster /\ x = ClusterSpace(x[2]) /\ x \in Space
BY DEF ClusterSpaces, ClusterSpace, Space

LEMMA HomeIs == Home[1] = "home" /\ Definition[1] = "scenario" /\ Home \in Space /\ Definition \in Space
BY DEF Home, Definition, Space

LEMMA EntityIs ==
  ASSUME NEW c \in Component
  PROVE  Entity(c)[1] = "component" /\ Entity(c)[2] = c /\ Entity(c) \notin Space
<1>1. Entity(c)[1] = "component" /\ Entity(c)[2] = c
  BY DEF Entity
<1>2. \A s \in Space : s[1] # "component"
  BY RootIs, ClassBaseIs, DeploymentIs, ClusterIs, HomeIs DEF Space, Variants
<1> QED BY <1>1, <1>2

LEMMA OfComponent ==
  ASSUME NEW c \in Component
  PROVE  /\ Root(c) \in Roots /\ Root(c)[2] = c
         /\ \A b \in ClassBasesOf(c) : b \in ClassBases /\ b[2] = c /\ Upstream(b) = Root(c)
         /\ \A d \in DeploymentsOf(c) : d \in Deployments /\ d[2] = c /\ Upstream(d) \in ClassBasesOf(c)
         /\ Units[c] \subseteq Unit /\ Units[c] # {}
<1>1. \A b \in ClassBasesOf(c) : b \in ClassBases /\ b[2] = c
  BY DEF ClassBasesOf, ClassBases, ClassBase
<1>2. \A d \in DeploymentsOf(c) : d \in Deployments /\ d[2] = c
  BY DEF DeploymentsOf, Deployments, Deployment
<1>3. \A b \in ClassBasesOf(c) : Upstream(b) = Root(c)
  BY <1>1, ClassBaseIs
<1>4. \A d \in DeploymentsOf(c) : Upstream(d) \in ClassBasesOf(c)
  BY <1>2, DeploymentIs
<1> QED
  BY <1>1, <1>2, <1>3, <1>4 DEF Roots, Root, Unit

\* Each space is of one kind.
LEMMA Kinds ==
  /\ Space = {Home, Definition} \union ClusterSpaces \union Roots \union ClassBases \union Deployments
  /\ \A x \in Roots : x \notin ClassBases /\ x \notin Deployments /\ x \notin ClusterSpaces
  /\ \A x \in ClassBases : x \notin Deployments /\ x \notin ClusterSpaces
  /\ \A x \in Deployments : x \notin ClusterSpaces
  /\ \A x \in {Home, Definition} : x \notin Roots /\ x \notin ClassBases /\ x \notin Deployments /\ x \notin ClusterSpaces
  /\ Home # Definition
<1>1. \A x \in Roots : x[1] = "root"
  BY RootIs
<1>2. \A x \in ClassBases : x[1] = "class"
  BY ClassBaseIs
<1>3. \A x \in Deployments : x[1] = "deployment"
  BY DeploymentIs
<1>4. \A x \in ClusterSpaces : x[1] = "cluster"
  BY ClusterIs
<1> QED
  BY <1>1, <1>2, <1>3, <1>4, HomeIs DEF Space, Variants

LEMMA Numbers ==
  ASSUME NEW c \in Component
  PROVE  Cardinality(Placement[c]) \in Nat /\ (Cardinality(Placement[c]) = 0 <=> Placement[c] = {})
<1>1. IsFiniteSet(Placement[c])
  BY FS_Subset
<1> QED BY <1>1, FS_CardinalityType, FS_EmptySet

-----------------------------------------------------------------------------
(* What every state of the org and of a run is *)

OrgTypeOK ==
  /\ org \in [owner: [Space -> {"none", "ours", "other"}],
             component: [Component -> {"none", "ours", "orphan", "claimed", "other"}],
             target: SUBSET Cluster, patched: SUBSET Deployments,
             layers: [Space -> [Unit -> SUBSET Layer]],
             from: [Space -> [Unit -> SUBSET Revision]],
             mark: [Space -> Nat]]
  /\ \A s \in Space : \A u \in Has(s) : "unit" \in org.layers[s][u]

Entities == {Entity(c) : c \in Component}

RunTypeOK ==
  /\ known \subseteq Space \union Entities
  /\ at \in 0 .. Len(Pools) /\ todo \subseteq Space \union Entities
  /\ command \in {"up", "down"} /\ outcome \in {"none", "running", "failed", "ok"}
  /\ {failed, cut, torn} \subseteq BOOLEAN
  /\ runs \in 0 .. MaxRuns /\ events \in 0 .. MaxEvents

\* Whose a space is goes with what is in it and what it stands for; only a
\* clone bears the label of what it was cloned from.
OwnInv ==
  /\ Ours(Definition)
  /\ \A s \in Space : org.owner[s] = "none" => Has(s) = {} /\ org.mark[s] = 0
  /\ \A k \in org.target : Ours(ClusterSpace(k))
  /\ \A d \in org.patched : Ours(d)
  /\ \A v \in ClassBases \union Deployments : Ours(v) => org.owner[Upstream(v)] # "other"

\* What is in a root base; what a class base was cloned at and has; what a
\* deployment was cloned at and has, and that its class base has it still.
RootUnits ==
  \A c \in Component : \A u \in Unit :
    /\ org.layers[Root(c)][u] \subseteq {"unit", "data", "hash"}
    /\ "hash" \in org.layers[Root(c)][u] => "data" \in org.layers[Root(c)][u]
    /\ org.owner[Root(c)] # "other" /\ u \in Has(Root(c)) => u \in Units[c]
ClassUnits ==
  \A b \in ClassBases : Ours(b) =>
    /\ \A u \in Has(b) : /\ org.from[b][u] = {"data"} /\ "data" \in org.layers[b][u]
                         /\ "hash" \in org.layers[Upstream(b)][u]
    /\ org.mark[b] # 0 => org.mark[b] = 1 /\ Has(b) = Units[b[2]] /\ Bears(b, "policy")
DeploymentUnits ==
  \A d \in Deployments : Ours(d) => \A u \in Has(d) :
    /\ d \in org.patched /\ org.from[d][u] = Revision
    /\ {"data", "policy"} \subseteq org.layers[d][u]
    /\ Revision \subseteq org.layers[Upstream(d)][u]
UnitsInv == RootUnits /\ ClassUnits /\ DeploymentUnits

PlaceInv ==
  /\ at = 0 => todo = {}
  /\ at # 0 => outcome = "running"

Behind == \A i \in 1 .. at - 1 : \A x \in UpItems(UpPools[i]) : Stands(UpPools[i], x)
InHand == ~failed => \A x \in UpItems(pool) \ todo : Stands(pool, x)

\* What a run of up knows of is there; the pools behind it stand as they were
\* left, and of the pool in hand, unless a call of it has failed, all but what
\* is to do.
UpInv ==
  command = "up" /\ at # 0 =>
    /\ \A s \in known \intersect Space : org.owner[s] # "none"
    /\ \A s \in known \intersect ({Home} \union ClusterSpaces \union Roots) : Ours(s)
    /\ \A c \in Component : Entity(c) \in known => org.component[c] = "ours"
    /\ todo \subseteq UpItems(pool)
    /\ pool = "units" => \A x \in todo : Cloneable(x)
    /\ Behind /\ InHand

\* What a run of down has to do is the demo's; of the pools behind it nothing
\* is left.
DownInv ==
  command = "down" /\ at # 0 =>
    /\ todo \subseteq DownItems(pool)
    /\ ~failed => DownItems(pool) \subseteq todo
    /\ \A i \in 1 .. at - 1 : DownItems(DownPools[i]) = {}

\* A run that fails had a mishap, or was one of up that met what is somebody
\* else's.
Theirs ==
  \/ \E s \in Space : org.owner[s] = "other"
  \/ \E c \in Component : org.component[c] \in {"claimed", "other"}
SlipInv ==
  (at # 0 /\ failed) \/ (at = 0 /\ outcome = "failed") => cut \/ (command = "up" /\ Theirs)

OrgInv == OrgTypeOK /\ OwnInv /\ UnitsInv
Inv == OrgInv /\ RunTypeOK /\ PlaceInv /\ UpInv /\ DownInv /\ SlipInv /\ DownLeavesNothing

LEMMA PoolCount == Len(UpPools) = 10 /\ Len(DownPools) = 6
BY DEF UpPools, DownPools

LEMMA UpPool ==
  ASSUME RunTypeOK, command = "up", at # 0
  PROVE  /\ at \in 1 .. 10 /\ pool = UpPools[at]
         /\ pool = "home" <=> at = 1
         /\ pool = "clusters" <=> at = 2
         /\ pool = "bases" <=> at = 3
         /\ pool = "protections" <=> at = 4
         /\ pool = "spaces" <=> at = 5
         /\ pool = "patches" <=> at = 6
         /\ pool = "units" <=> at = 7
         /\ pool = "unitLabels" <=> at = 8
         /\ pool = "variation" <=> at = 9
         /\ pool = "shields" <=> at = 10
<1>2. pool = UpPools[at] /\ Len(Pools) = 10
  BY PoolCount DEF pool, Pools
<1>1. at \in 1 .. 10
  BY <1>2 DEF RunTypeOK
<1> QED
  BY <1>1, <1>2 DEF UpPools

-----------------------------------------------------------------------------
(* What a call of up does, by pool *)

Takes(s) ==
  /\ Create(s, IF s \in ClassBases \union Deployments THEN org.owner[Upstream(s)] ELSE "ours")
  /\ known' = known \union {s}
  /\ \/ s \in {Home} \union ClusterSpaces \union Roots /\ at <= 3 /\ org.owner[s] # "other"
     \/ s \in ClassBases /\ at = 3 /\ Upstream(s) \in known
     \/ s \in Deployments /\ at = 5

Connects(k) ==
  /\ at = 2 /\ k \in Cluster /\ ClusterSpace(k) \in known
  /\ org' = [org EXCEPT !.target = @ \union {k}] /\ UNCHANGED known

Adopts(c) == at = 3 /\ c \in Component /\ EnsureComponent(c)

Fills(c, u) ==
  /\ at = 3 /\ c \in Component /\ Root(c) \in known /\ u \in Units[c]
  /\ "hash" \notin org.layers[Root(c)][u]
  /\ RootUnit(c, u) /\ UNCHANGED known

Clones(V) ==
  /\ CloneInto(V) /\ UNCHANGED known
  /\ \/ /\ at = 3
        /\ \E c \in Component : V \subseteq ClassBasesOf(c) /\ Hashed(c) /\ Root(c) \in known
        /\ \A b \in V : Ours(b)
     \/ at = 7 /\ V \subseteq Deployments /\ \A d \in V : Cloneable(d)

MarksClass(b) ==
  /\ at = 3 /\ b \in ClassBases /\ {b, Root(b[2])} \subseteq known /\ Hashed(b[2])
  /\ Cloned(b) /\ Bears(b, "policy")
  /\ Mark(b, 1) /\ UNCHANGED known

MarksRoot(c) ==
  /\ at = 9 /\ c \in Component
  /\ \A w \in Selected(c) : "variation" \in org.layers[w[1]][w[2]]
  /\ Mark(Root(c), Cardinality(Placement[c])) /\ UNCHANGED known

Stamps(V, U, layer) ==
  /\ Stamp(V, U, layer) /\ UNCHANGED known
  /\ \/ at = 3 /\ V \subseteq ClassBases /\ layer = "policy"
     \/ at = 4 /\ V \subseteq ClassBases /\ layer = "protection"
     \/ /\ at >= 8 /\ V \subseteq Deployments /\ layer \in {"labels", "variation", "protection"}
        /\ layer # "protection" => V \subseteq org.patched

Turns(S) ==
  /\ at = 6 /\ S \subseteq Deployments /\ \A d \in S : Ours(d)
  /\ org' = [org EXCEPT !.patched = @ \union S] /\ UNCHANGED known

UpEffect ==
  \/ \E s \in Space : Takes(s)
  \/ \E k \in Cluster : Connects(k)
  \/ \E c \in Component : Adopts(c)
  \/ \E c \in Component : \E u \in Units[c] : Fills(c, u)
  \/ \E V \in SUBSET (ClassBases \union Deployments) : Clones(V)
  \/ \E b \in ClassBases : MarksClass(b)
  \/ \E c \in Component : MarksRoot(c)
  \/ \E V \in SUBSET (ClassBases \union Deployments) : \E U, layer : Stamps(V, U, layer)
  \/ \E S \in SUBSET Deployments : Turns(S)

LEMMA BasesEffect ==
  ASSUME RunTypeOK, command = "up", at = 3, NEW c \in Component, NEW P, ComponentBases(c, P)
  PROVE  UpEffect
<1>0. /\ Root(c) \in Roots /\ Root(c) \in Space /\ Root(c) \notin ClassBases /\ Root(c) \notin Deployments
      /\ \A b \in ClassBasesOf(c) : b \in ClassBases /\ b[2] = c /\ b \in Space /\ Upstream(b) = Root(c)
  BY OfComponent, RootIs, ClassBaseIs, Kinds
<1>1. CASE Entity(c) \notin known
  <2>1. Adopts(c)
    BY <1>1 DEF ComponentBases, Adopts
  <2> QED BY <2>1 DEF UpEffect
<1>2. CASE Entity(c) \in known /\ Root(c) \notin known
  <2>1. EnsureSpace(Root(c))
    BY <1>2 DEF ComponentBases
  <2>2. Takes(Root(c))
    BY <1>0, <2>1 DEF EnsureSpace, Takes
  <2> QED BY <1>0, <2>2 DEF UpEffect
<1>3. CASE {Entity(c), Root(c)} \subseteq known /\ ~Hashed(c)
  <2>1. (\E u \in Units[c] : "hash" \notin org.layers[Root(c)][u] /\ RootUnit(c, u)) /\ UNCHANGED known
    BY <1>3 DEF ComponentBases
  <2>2. PICK u \in Units[c] : "hash" \notin org.layers[Root(c)][u] /\ RootUnit(c, u)
    BY <2>1
  <2>3. Fills(c, u)
    BY <1>3, <2>1, <2>2 DEF Fills
  <2> QED BY <2>3 DEF UpEffect
<1>4. CASE {Entity(c), Root(c)} \subseteq known /\ Hashed(c)
  <2>1. CASE ~(ClassBasesOf(c) \subseteq known)
    <3>1. PICK b \in ClassBasesOf(c) \ known : CloneSpace(b)
      BY <1>4, <2>1 DEF ComponentBases
    <3>2. Takes(b)
      BY <1>0, <1>4, <3>1 DEF CloneSpace, Takes
    <3> QED BY <1>0, <3>2 DEF UpEffect
  <2>2. CASE ClassBasesOf(c) \subseteq known /\ \E b \in ClassBasesOf(c) : ~Cloned(b)
    <3> DEFINE V == {b \in ClassBasesOf(c) \intersect P : Ours(b)}
    <3>1. CloneInto(V) /\ UNCHANGED known
      BY <1>4, <2>2 DEF ComponentBases
    <3>2. Clones(V)
      BY <1>4, <3>1 DEF Clones
    <3> QED BY <1>0, <3>2 DEF UpEffect
  <2>3. CASE ClassBasesOf(c) \subseteq known /\ \A b \in ClassBasesOf(c) : Cloned(b)
    <3>1. PICK b \in ClassBasesOf(c) : org.mark[b] = 0 /\ ClassFunctions(b)
      BY <1>4, <2>3 DEF ComponentBases
    <3>2. CASE Bears(b, "policy")
      <4>1. MarksClass(b)
        BY <1>0, <1>4, <2>3, <3>1, <3>2 DEF ClassFunctions, MarksClass
      <4> QED BY <1>0, <4>1 DEF UpEffect
    <3>3. CASE ~Bears(b, "policy")
      <4>1. PICK U \in (SUBSET Lacking(b, "policy")) \ {{}} : Stamp({b}, U, "policy")
        BY <3>1, <3>3 DEF ClassFunctions
      <4>2. Stamps({b}, U, "policy")
        BY <1>0, <3>1, <4>1 DEF ClassFunctions, Stamps
      <4> QED BY <1>0, <4>2 DEF UpEffect
    <3> QED BY <3>2, <3>3
  <2> QED BY <2>1, <2>2, <2>3
<1> QED BY <1>1, <1>2, <1>3, <1>4

LEMMA UpCallEffect ==
  ASSUME OrgTypeOK, RunTypeOK, UpInv, command = "up", at # 0, NEW x \in todo, NEW P, UpCall(x, P)
  PROVE  UpEffect
<1>0. x \in UpItems(pool)
  BY DEF UpInv
<1> USE UpPool
<1>1. CASE at = 1
  <2>1. EnsureSpace(Home)
    BY <1>0, <1>1 DEF UpItems, UpCall
  <2>2. Takes(Home)
    BY <1>1, <2>1, Kinds DEF EnsureSpace, Takes
  <2> QED BY <2>2, HomeIs DEF UpEffect
<1>2. CASE at = 2
  <2>1. x \in ClusterSpaces /\ x[2] \in Cluster /\ x = ClusterSpace(x[2]) /\ x \in Space
    BY <1>0, <1>2, ClusterIs DEF UpItems
  <2>2. CASE x \notin known
    <3>1. EnsureSpace(x)
      BY <1>2, <2>2 DEF UpCall
    <3>2. Takes(x)
      BY <1>2, <2>1, <3>1, Kinds DEF EnsureSpace, Takes
    <3> QED BY <2>1, <3>2 DEF UpEffect
  <2>3. CASE x \in known
    <3>1. Connects(x[2])
      BY <1>2, <2>1, <2>3 DEF UpCall, Connects
    <3> QED BY <2>1, <3>1 DEF UpEffect
  <2> QED BY <2>2, <2>3
<1>3. CASE at = 3
  <2>1. x[2] \in Component
    BY <1>0, <1>3, RootIs DEF UpItems
  <2>2. ComponentBases(x[2], P)
    BY <1>3 DEF UpCall
  <2> QED BY <1>3, <2>1, <2>2, BasesEffect
<1>4. CASE at = 4
  <2>1. x \in ClassBases
    BY <1>0, <1>4 DEF UpItems
  <2>2. Stamps({x}, Unit, "protection")
    BY <1>4, <2>1 DEF UpCall, Stamps
  <2> QED BY <2>1, <2>2 DEF UpEffect
<1>5. CASE at = 5
  <2>1. x \in Deployments
    BY <1>0, <1>5 DEF UpItems
  <2>2. CloneSpace(x)
    BY <1>5 DEF UpCall
  <2>3. Takes(x)
    BY <1>5, <2>1, <2>2 DEF CloneSpace, Takes
  <2> QED BY <2>1, <2>3, DeploymentIs DEF UpEffect
<1>6. CASE at = 6
  <2> DEFINE S == Turned(x[2]) \intersect P
  <2>1. org' = [org EXCEPT !.patched = @ \union S] /\ UNCHANGED known
    BY <1>6 DEF UpCall
  <2>2. S \subseteq Deployments /\ \A d \in S : Ours(d)
    BY DEF Turned, Targeted
  <2>3. Turns(S)
    BY <1>6, <2>1, <2>2 DEF Turns
  <2> QED BY <2>2, <2>3 DEF UpEffect
<1>7. CASE at = 7
  <2> DEFINE V == {x} \intersect P
  <2>1. x \in Deployments /\ Cloneable(x)
    BY <1>0, <1>7 DEF UpItems, UpInv
  <2>2. CloneInto(V) /\ UNCHANGED known
    BY <1>7 DEF UpCall
  <2>3. Clones(V)
    BY <1>7, <2>1, <2>2 DEF Clones
  <2> QED BY <2>1, <2>3 DEF UpEffect
<1>8. CASE at = 8
  <2> DEFINE V == Targeted(x[2]) \intersect org.patched \intersect P
  <2>1. Stamp(V, Unit, "labels") /\ UNCHANGED known
    BY <1>8 DEF UpCall
  <2>2. V \subseteq Deployments
    BY DEF Targeted
  <2>3. Stamps(V, Unit, "labels")
    BY <1>8, <2>1, <2>2 DEF Stamps
  <2> QED BY <2>2, <2>3 DEF UpEffect
<1>9. CASE at = 9
  <2>1. PICK c \in Component : x = Root(c)
    BY <1>0, <1>9 DEF UpItems
  <2>2. x[2] = c
    BY <2>1, OfComponent
  <2>3. DeploymentFunctions(c) /\ UNCHANGED known
    BY <1>9, <2>2 DEF UpCall
  <2> DEFINE left == {w \in Selected(c) : "variation" \notin org.layers[w[1]][w[2]]}
  <2>4. CASE left = {}
    <3>1. Mark(Root(c), Cardinality(Placement[c]))
      BY <2>3, <2>4 DEF DeploymentFunctions
    <3>2. MarksRoot(c)
      BY <1>9, <2>3, <2>4, <3>1 DEF MarksRoot
    <3> QED BY <3>2 DEF UpEffect
  <2>5. CASE left # {}
    <3>1. PICK w \in left : Stamp({w[1]}, {w[2]}, "variation")
      BY <2>3, <2>5 DEF DeploymentFunctions
    <3>2. w[1] \in Deployments \intersect org.patched
      BY <2>1, OfComponent DEF Selected
    <3>3. Stamps({w[1]}, {w[2]}, "variation")
      BY <1>9, <2>3, <3>1, <3>2 DEF Stamps
    <3> QED BY <3>2, <3>3 DEF UpEffect
  <2> QED BY <2>4, <2>5
<1>10. CASE at = 10
  <2>1. x \in Deployments
    BY <1>0, <1>10 DEF UpItems
  <2>2. Stamps({x}, Unit, "protection")
    BY <1>10, <2>1 DEF UpCall, Stamps
  <2> QED BY <2>1, <2>2 DEF UpEffect
<1> QED BY <1>1, <1>2, <1>3, <1>4, <1>5, <1>6, <1>7, <1>8, <1>9, <1>10

-----------------------------------------------------------------------------
(* What each effect leaves of the org *)

LEMMA TakesFields ==
  ASSUME OrgTypeOK, NEW s \in Space, Takes(s)
  PROVE  /\ org.owner[s] = "none" => org'.owner[s] =
              IF s \in ClassBases \union Deployments THEN org.owner[Upstream(s)] ELSE "ours"
         /\ org.owner[s] # "none" => org'.owner[s] = org.owner[s]
         /\ \A v \in Space : v # s => org'.owner[v] = org.owner[v]
         /\ org'.component = org.component /\ org'.target = org.target /\ org'.patched = org.patched
         /\ org'.layers = org.layers /\ org'.from = org.from /\ org'.mark = org.mark
         /\ known' = known \union {s} /\ OrgTypeOK'
<1>1. s \in ClassBases \union Deployments => org.owner[Upstream(s)] \in {"none", "ours", "other"}
  BY ClassBaseIs, DeploymentIs, RootIs DEF OrgTypeOK
<1> DEFINE o == IF s \in ClassBases \union Deployments THEN org.owner[Upstream(s)] ELSE "ours"
<1>2. o \in {"none", "ours", "other"}
  BY <1>1
<1>3. org' = [org EXCEPT !.owner[s] = IF @ = "none" THEN o ELSE @] /\ known' = known \union {s}
  BY DEF Takes, Create
<1> HIDE DEF o
<1>4. /\ org'.owner = [org.owner EXCEPT ![s] = IF org.owner[s] = "none" THEN o ELSE org.owner[s]]
      /\ org'.component = org.component /\ org'.target = org.target /\ org'.patched = org.patched
      /\ org'.layers = org.layers /\ org'.from = org.from /\ org'.mark = org.mark
  BY <1>3 DEF OrgTypeOK
<1>5. OrgTypeOK'
  BY <1>2, <1>3, <1>4 DEF OrgTypeOK, Has
<1>6. /\ org.owner[s] = "none" => org'.owner[s] = o
      /\ org.owner[s] # "none" => org'.owner[s] = org.owner[s]
      /\ \A v \in Space : v # s => org'.owner[v] = org.owner[v]
  BY <1>4 DEF OrgTypeOK
<1> QED BY <1>3, <1>4, <1>5, <1>6 DEF o

LEMMA ConnectsFields ==
  ASSUME OrgTypeOK, NEW k \in Cluster, Connects(k)
  PROVE  /\ org'.target = org.target \union {k}
         /\ org'.component = org.component /\ org'.owner = org.owner /\ org'.patched = org.patched
         /\ org'.layers = org.layers /\ org'.from = org.from /\ org'.mark = org.mark
         /\ known' = known /\ OrgTypeOK'
BY DEF Connects, OrgTypeOK, Has

LEMMA AdoptsFields ==
  ASSUME OrgTypeOK, NEW c \in Component, Adopts(c)
  PROVE  /\ org'.component = [org.component EXCEPT ![c] = "ours"]
         /\ org.component[c] \in {"none", "ours", "orphan"}
         /\ org'.target = org.target /\ org'.owner = org.owner /\ org'.patched = org.patched
         /\ org'.layers = org.layers /\ org'.from = org.from /\ org'.mark = org.mark
         /\ known' = known \union {Entity(c)} /\ OrgTypeOK'
BY DEF Adopts, EnsureComponent, OrgTypeOK, Has

LEMMA MarkFields ==
  ASSUME OrgTypeOK, NEW s \in Space, NEW n \in Nat, Mark(s, n)
  PROVE  /\ org'.mark[s] = n /\ \A v \in Space : v # s => org'.mark[v] = org.mark[v]
         /\ org'.component = org.component /\ org'.target = org.target /\ org'.owner = org.owner
         /\ org'.patched = org.patched /\ org'.layers = org.layers /\ org'.from = org.from
         /\ OrgTypeOK'
BY DEF Mark, OrgTypeOK, Has

LEMMA TurnsFields ==
  ASSUME OrgTypeOK, NEW S \in SUBSET Deployments, Turns(S)
  PROVE  /\ org'.patched = org.patched \union S
         /\ org'.component = org.component /\ org'.target = org.target /\ org'.owner = org.owner
         /\ org'.layers = org.layers /\ org'.from = org.from /\ org'.mark = org.mark
         /\ known' = known /\ OrgTypeOK'
BY DEF Turns, OrgTypeOK, Has

LEMMA FillsFields ==
  ASSUME OrgTypeOK, NEW c \in Component, NEW u \in Units[c], Fills(c, u)
  PROVE  /\ org'.owner = org.owner
         /\ org'.component = org.component /\ org'.target = org.target /\ org'.patched = org.patched
         /\ org'.from = org.from /\ org'.mark = org.mark
         /\ \A v \in Space, w \in Unit : v # Root(c) \/ w # u => org'.layers[v][w] = org.layers[v][w]
         /\ org'.layers[Root(c)][u] = org.layers[Root(c)][u] \union
              (IF org.layers[Root(c)][u] = {} THEN {"unit"}
               ELSE IF "data" \notin org.layers[Root(c)][u] THEN {"data"} ELSE {"hash"})
         /\ known' = known /\ OrgTypeOK'
<1>0. Root(c) \in Space /\ u \in Unit
  BY OfComponent, RootIs
<1> DEFINE new == org.layers[Root(c)][u] \union
              (IF org.layers[Root(c)][u] = {} THEN {"unit"}
               ELSE IF "data" \notin org.layers[Root(c)][u] THEN {"data"} ELSE {"hash"})
<1>1. new \in SUBSET Layer /\ "unit" \in new
  BY <1>0 DEF OrgTypeOK, Layer, Has
<1>2. org' = [org EXCEPT !.layers[Root(c)][u] = new] /\ known' = known
  BY DEF Fills, RootUnit
<1> HIDE DEF new
<1>3. /\ org'.owner = org.owner
      /\ org'.component = org.component /\ org'.target = org.target /\ org'.patched = org.patched
      /\ org'.from = org.from /\ org'.mark = org.mark
      /\ org'.layers = [org.layers EXCEPT ![Root(c)][u] = new]
  BY <1>2 DEF OrgTypeOK
<1>4. org'.layers \in [Space -> [Unit -> SUBSET Layer]]
  BY <1>0, <1>1, <1>3 DEF OrgTypeOK
<1>5. \A v \in Space, w \in Unit : v # Root(c) \/ w # u => org'.layers[v][w] = org.layers[v][w]
  BY <1>0, <1>3 DEF OrgTypeOK
<1>6. org'.layers[Root(c)][u] = new
  BY <1>0, <1>3 DEF OrgTypeOK
<1>7. \A s \in Space : \A w \in Has(s)' : "unit" \in org'.layers[s][w]
  BY <1>0, <1>1, <1>5, <1>6 DEF OrgTypeOK, Has
<1>8. OrgTypeOK'
  BY <1>2, <1>3, <1>4, <1>7 DEF OrgTypeOK
<1> QED BY <1>2, <1>3, <1>5, <1>6, <1>8 DEF new

LEMMA StampsFields ==
  ASSUME OrgTypeOK, NEW V \in SUBSET (ClassBases \union Deployments), NEW U, NEW layer, Stamps(V, U, layer)
  PROVE  /\ org'.owner = org.owner
         /\ org'.component = org.component /\ org'.target = org.target /\ org'.patched = org.patched
         /\ org'.from = org.from /\ org'.mark = org.mark
         /\ \A v \in Space, w \in Unit : org'.layers[v][w] =
              IF v \in V /\ w \in U \intersect Has(v) THEN org.layers[v][w] \union {layer} ELSE org.layers[v][w]
         /\ \A v \in Space : Has(v)' = Has(v)
         /\ \A v \in Space : \A l : Bears(v, l) => Bears(v, l)'
         /\ known' = known /\ OrgTypeOK'
<1>1. layer \in Layer
  BY DEF Stamps, Layer
<1>2. org' = [org EXCEPT !.layers = [v \in Space |-> [w \in Unit |->
        IF v \in V /\ w \in U \intersect Has(v) THEN org.layers[v][w] \union {layer} ELSE org.layers[v][w]]]] /\ known' = known
  BY DEF Stamps, Stamp
<1>3. /\ org'.owner = org.owner
      /\ org'.component = org.component /\ org'.target = org.target /\ org'.patched = org.patched
      /\ org'.from = org.from /\ org'.mark = org.mark
      /\ org'.layers = [v \in Space |-> [w \in Unit |->
           IF v \in V /\ w \in U \intersect Has(v) THEN org.layers[v][w] \union {layer} ELSE org.layers[v][w]]]
  BY <1>2 DEF OrgTypeOK
<1>4. \A v \in Space, w \in Unit : org'.layers[v][w] =
        IF v \in V /\ w \in U \intersect Has(v) THEN org.layers[v][w] \union {layer} ELSE org.layers[v][w]
  BY <1>3
<1>11. \A v \in Space, w \in Unit : org.layers[v][w] \subseteq org'.layers[v][w]
  <2> TAKE v \in Space, w \in Unit
  <2>1. org'.layers[v][w] = org.layers[v][w] \union {layer} \/ org'.layers[v][w] = org.layers[v][w]
    BY <1>4, Zenon
  <2> QED BY <2>1
<1>5. \A v \in Space : Has(v)' = Has(v)
  <2> SUFFICES ASSUME NEW v \in Space, NEW w \in Unit
               PROVE  org'.layers[v][w] # {} <=> org.layers[v][w] # {}
    BY DEF Has
  <2>1. w \in Has(v) <=> org.layers[v][w] # {}
    BY DEF Has
  <2>2. CASE v \in V /\ w \in U \intersect Has(v)
    <3>1. org'.layers[v][w] = org.layers[v][w] \union {layer} /\ org.layers[v][w] # {}
      BY <1>4, <2>1, <2>2, Zenon
    <3> QED BY <3>1
  <2>3. CASE ~(v \in V /\ w \in U \intersect Has(v))
    <3>1. org'.layers[v][w] = org.layers[v][w]
      BY <1>4, <2>3
    <3> QED BY <3>1
  <2> QED BY <2>2, <2>3
<1>6. org'.layers \in [Space -> [Unit -> SUBSET Layer]]
  BY <1>1, <1>3 DEF OrgTypeOK
<1>9. \A v \in Space : \A u \in Has(v)' : "unit" \in org'.layers[v][u]
  <2> SUFFICES ASSUME NEW v \in Space, NEW u \in Has(v) PROVE "unit" \in org'.layers[v][u]
    BY <1>5
  <2>1. "unit" \in org.layers[v][u] /\ u \in Unit
    BY DEF OrgTypeOK, Has
  <2> QED BY <1>11, <2>1
<1>10. org' \in [owner: [Space -> {"none", "ours", "other"}],
             component: [Component -> {"none", "ours", "orphan", "claimed", "other"}],
             target: SUBSET Cluster, patched: SUBSET Deployments,
             layers: [Space -> [Unit -> SUBSET Layer]],
             from: [Space -> [Unit -> SUBSET Revision]],
             mark: [Space -> Nat]]
  BY <1>2, <1>3, <1>6 DEF OrgTypeOK
<1>7. OrgTypeOK'
  BY <1>9, <1>10 DEF OrgTypeOK
<1>8. \A v \in Space : \A l : Bears(v, l) => Bears(v, l)'
  <2> SUFFICES ASSUME NEW v \in Space, NEW l, Bears(v, l), NEW u \in Has(v) PROVE l \in org'.layers[v][u]
    BY <1>5 DEF Bears
  <2>1. l \in org.layers[v][u] /\ u \in Unit
    BY DEF Bears, Has
  <2> QED BY <1>11, <2>1
<1> QED BY <1>2, <1>3, <1>4, <1>5, <1>7, <1>8

LEMMA ClonesFields ==
  ASSUME OrgTypeOK, NEW V \in SUBSET (ClassBases \union Deployments), Clones(V)
  PROVE  /\ org'.owner = org.owner
         /\ org'.component = org.component /\ org'.target = org.target /\ org'.patched = org.patched
         /\ org'.mark = org.mark
         /\ \A v \in Space, w \in Unit :
              IF v \in V /\ w \notin Has(v)
              THEN /\ org'.layers[v][w] = org.layers[Upstream(v)][w] \ {"hash", "protection"}
                   /\ org'.from[v][w] = org.layers[Upstream(v)][w] \intersect Revision
              ELSE org'.layers[v][w] = org.layers[v][w] /\ org'.from[v][w] = org.from[v][w]
         /\ \A v \in Space : Has(v)' = IF v \in V THEN Has(v) \union Has(Upstream(v)) ELSE Has(v)
         /\ known' = known /\ OrgTypeOK'
<1>0. \A v \in V : Upstream(v) \in Space
  BY ClassBaseIs, DeploymentIs, RootIs
<1> DEFINE L == [v \in Space |-> [u \in Unit |->
                  IF v \in V /\ u \notin Has(v) THEN org.layers[Upstream(v)][u] \ {"hash", "protection"} ELSE org.layers[v][u]]]
           F == [v \in Space |-> [u \in Unit |->
                  IF v \in V /\ u \notin Has(v) THEN org.layers[Upstream(v)][u] \intersect Revision ELSE org.from[v][u]]]
<1>1. org' = [org EXCEPT !.layers = L, !.from = F] /\ known' = known
  BY DEF Clones, CloneInto
<1>2. L \in [Space -> [Unit -> SUBSET Layer]]
  BY <1>0 DEF OrgTypeOK
<1>3. F \in [Space -> [Unit -> SUBSET Revision]]
  BY <1>0 DEF OrgTypeOK
<1>4. \A v \in Space, w \in Unit :
        IF v \in V /\ w \notin Has(v)
        THEN /\ L[v][w] = org.layers[Upstream(v)][w] \ {"hash", "protection"}
             /\ F[v][w] = org.layers[Upstream(v)][w] \intersect Revision
        ELSE L[v][w] = org.layers[v][w] /\ F[v][w] = org.from[v][w]
  OBVIOUS
<1> HIDE DEF L, F
<1>5. /\ org'.owner = org.owner
      /\ org'.component = org.component /\ org'.target = org.target /\ org'.patched = org.patched
      /\ org'.mark = org.mark /\ org'.layers = L /\ org'.from = F
  BY <1>1 DEF OrgTypeOK
<1>6. \A s \in Space, u \in Unit : L[s][u] # {} => "unit" \in L[s][u]
  <2> SUFFICES ASSUME NEW s \in Space, NEW u \in Unit, L[s][u] # {} PROVE "unit" \in L[s][u]
    OBVIOUS
  <2>1. \A v \in Space : org.layers[v][u] # {} => "unit" \in org.layers[v][u]
    BY DEF OrgTypeOK, Has
  <2> QED BY <1>0, <1>4, <2>1
<1>7. ASSUME NEW v \in Space PROVE Has(v)' = IF v \in V THEN Has(v) \union Has(Upstream(v)) ELSE Has(v)
  <2>1. Has(v)' = {w \in Unit : L[v][w] # {}} /\ Has(v) = {w \in Unit : org.layers[v][w] # {}}
    BY <1>5 DEF Has
  <2>2. CASE v \in V
    <3>1. Has(Upstream(v)) = {w \in Unit : org.layers[Upstream(v)][w] # {}}
      BY DEF Has
    <3>2. ASSUME NEW w \in Unit
          PROVE  L[v][w] # {} <=> org.layers[v][w] # {} \/ org.layers[Upstream(v)][w] # {}
      <4>1. CASE w \notin Has(v)
        <5>1. L[v][w] = org.layers[Upstream(v)][w] \ {"hash", "protection"} /\ org.layers[v][w] = {}
          BY <1>4, <2>2, <4>1 DEF Has
        <5>2. org.layers[Upstream(v)][w] # {} => "unit" \in org.layers[Upstream(v)][w]
          BY <1>0, <2>2 DEF OrgTypeOK, Has
        <5> QED BY <5>1, <5>2
      <4>2. CASE w \in Has(v)
        <5>1. L[v][w] = org.layers[v][w] /\ org.layers[v][w] # {}
          BY <1>4, <4>2 DEF Has
        <5> QED BY <5>1
      <4> QED BY <4>1, <4>2
    <3> QED BY <2>1, <2>2, <3>1, <3>2
  <2>3. CASE v \notin V
    <3>1. \A w \in Unit : L[v][w] = org.layers[v][w]
      BY <1>4, <2>3
    <3> QED BY <2>1, <2>3, <3>1
  <2> QED BY <2>2, <2>3
<1>8. OrgTypeOK'
  BY <1>1, <1>2, <1>3, <1>5, <1>6 DEF OrgTypeOK, Has
<1> QED BY <1>1, <1>4, <1>5, <1>7, <1>8

-----------------------------------------------------------------------------
(* What the pools behind have made *)

LEMMA Past ==
  ASSUME RunTypeOK, UpInv, command = "up", at # 0
  PROVE  /\ at > 2 => \A k \in Cluster : ClusterSpace(k) \in known /\ k \in org.target
         /\ at > 3 => \A c \in Component :
              /\ {Root(c), Entity(c)} \union ClassBasesOf(c) \subseteq known
              /\ Hashed(c) /\ Ours(Root(c)) /\ org.component[c] = "ours"
              /\ \A b \in ClassBasesOf(c) : Cloned(b) /\ org.mark[b] = 1 /\ org.owner[b] # "none"
         /\ at > 4 => \A b \in ClassBases : Bears(b, "protection")
         /\ at > 5 => \A d \in Deployments :
              org.owner[Upstream(d)] # "other" => d \in known /\ org.owner[d] # "none"
         /\ at > 6 => \A d \in Deployments : Ours(d) => d \in org.patched
         /\ at > 7 => \A d \in Deployments : Cloneable(d) => Cloned(d)
         /\ at > 8 => \A d \in org.patched \intersect Deployments : Bears(d, "labels")
         /\ at > 9 => \A c \in Varying : org.mark[Root(c)] = Cardinality(Placement[c])
         /\ at > 1 => Home \in known /\ Ours(Home)
<1>0. at \in 1 .. 10
  BY UpPool
<1>b. \A i \in 1 .. at - 1 : \A x \in UpItems(UpPools[i]) : Stands(UpPools[i], x)
  BY DEF UpInv, Behind
<1>u. /\ UpPools[1] = "home" /\ UpPools[2] = "clusters" /\ UpPools[3] = "bases" /\ UpPools[4] = "protections"
      /\ UpPools[5] = "spaces" /\ UpPools[6] = "patches" /\ UpPools[7] = "units" /\ UpPools[8] = "unitLabels"
      /\ UpPools[9] = "variation"
  BY DEF UpPools
<1>1. ASSUME at > 2, NEW k \in Cluster PROVE ClusterSpace(k) \in known /\ k \in org.target
  <2>1. ClusterSpace(k) \in UpItems("clusters") /\ ClusterSpace(k)[2] = k
    BY DEF UpItems, ClusterSpaces, ClusterSpace
  <2>2. Stands("clusters", ClusterSpace(k))
    BY <1>0, <1>1, <1>b, <1>u, <2>1
  <2> QED BY <2>1, <2>2 DEF Stands
<1>2. ASSUME at > 3, NEW c \in Component
      PROVE  /\ {Root(c), Entity(c)} \union ClassBasesOf(c) \subseteq known
             /\ Hashed(c) /\ Ours(Root(c)) /\ org.component[c] = "ours"
             /\ \A b \in ClassBasesOf(c) : Cloned(b) /\ org.mark[b] = 1 /\ org.owner[b] # "none"
  <2>1. Root(c) \in UpItems("bases") /\ Root(c)[2] = c /\ Root(c) \in Space /\ Root(c) \in Roots
    BY OfComponent, RootIs DEF UpItems
  <2>2. Stands("bases", Root(c))
    BY <1>0, <1>2, <1>b, <1>u, <2>1
  <2>3. /\ {Root(c), Entity(c)} \union ClassBasesOf(c) \subseteq known /\ Hashed(c)
        /\ \A b \in ClassBasesOf(c) : Cloned(b) /\ org.mark[b] = 1
    BY <2>1, <2>2 DEF Stands
  <2>4. \A b \in ClassBasesOf(c) : b \in Space
    BY OfComponent, ClassBaseIs
  <2> QED BY <2>1, <2>3, <2>4 DEF UpInv
<1>3. ASSUME at > 4, NEW b \in ClassBases PROVE Bears(b, "protection")
  <2>1. b \in known
    BY <1>0, <1>2, <1>3, ClassBaseIs
  <2>2. Stands("protections", b)
    BY <1>0, <1>3, <1>b, <1>u, <2>1 DEF UpItems
  <2> QED BY <2>2 DEF Stands
<1>4. ASSUME at > 5, NEW d \in Deployments, org.owner[Upstream(d)] # "other"
      PROVE  d \in known /\ org.owner[d] # "none"
  <2>1. Stands("spaces", d)
    BY <1>0, <1>4, <1>b, <1>u DEF UpItems
  <2> QED BY <1>4, <2>1, DeploymentIs DEF Stands, UpInv
<1>5. ASSUME at > 6, NEW d \in Deployments, Ours(d) PROVE d \in org.patched
  <2>1. ClusterSpace(d[3]) \in UpItems("patches") /\ ClusterSpace(d[3])[2] = d[3]
    BY DeploymentIs DEF UpItems, ClusterSpaces, ClusterSpace
  <2>2. Stands("patches", ClusterSpace(d[3]))
    BY <1>0, <1>5, <1>b, <1>u, <2>1
  <2>3. d \in Turned(d[3])
    BY <1>5, DeploymentIs DEF Turned
  <2> QED BY <2>1, <2>2, <2>3 DEF Stands
<1>6. ASSUME at > 7, NEW d \in Deployments, Cloneable(d) PROVE Cloned(d)
  <2>1. Stands("units", d)
    BY <1>0, <1>6, <1>b, <1>u DEF UpItems
  <2> QED BY <1>6, <2>1 DEF Stands
<1>7. ASSUME at > 8, NEW d \in org.patched \intersect Deployments PROVE Bears(d, "labels")
  <2>1. ClusterSpace(d[3]) \in UpItems("unitLabels") /\ ClusterSpace(d[3])[2] = d[3]
    BY DeploymentIs DEF UpItems, ClusterSpaces, ClusterSpace
  <2>2. Stands("unitLabels", ClusterSpace(d[3]))
    BY <1>0, <1>7, <1>b, <1>u, <2>1
  <2> QED BY <2>1, <2>2, DeploymentIs DEF Stands
<1>8. ASSUME at > 9, NEW c \in Varying PROVE org.mark[Root(c)] = Cardinality(Placement[c])
  <2>1. Root(c) \in UpItems("variation") /\ Root(c)[2] = c
    BY OfComponent DEF UpItems
  <2>2. Stands("variation", Root(c))
    BY <1>0, <1>8, <1>b, <1>u, <2>1
  <2> QED BY <2>1, <2>2 DEF Stands
<1>9. ASSUME at > 1 PROVE Home \in known /\ Ours(Home)
  <2>1. Stands("home", Home)
    BY <1>0, <1>9, <1>b, <1>u DEF UpItems
  <2> QED BY <2>1, HomeIs DEF Stands, UpInv
<1> QED BY <1>1, <1>2, <1>3, <1>4, <1>5, <1>6, <1>7, <1>8, <1>9

\* The spaces a call of up works on are the demo's, as far as it looks at them.
LEMMA Worked ==
  ASSUME RunTypeOK, UpInv, command = "up", at # 0
  PROVE  /\ \A c \in Component : Root(c) \in known => Ours(Root(c))
         /\ \A k \in Cluster : ClusterSpace(k) \in known => Ours(ClusterSpace(k))
         /\ \A b \in ClassBases : b \in known => org.owner[b] # "none"
         /\ \A c \in Component : MarksRoot(c) => Ours(Root(c))
<1>1. \A c \in Component : Root(c) \in Roots /\ Root(c) \in Space
  BY OfComponent, RootIs
<1>2. \A k \in Cluster : ClusterSpace(k) \in ClusterSpaces /\ ClusterSpace(k) \in Space
  BY DEF ClusterSpaces, Space
<1>3. \A b \in ClassBases : b \in Space
  BY ClassBaseIs
<1> QED BY <1>1, <1>2, <1>3, Past DEF UpInv, MarksRoot

-----------------------------------------------------------------------------
(* A call of up keeps what the org is *)

LEMMA OwnKeeps ==
  ASSUME OwnInv, org'.owner = org.owner,
         \A k \in org'.target : k \in org.target \/ Ours(ClusterSpace(k)),
         \A d \in org'.patched : d \in org.patched \/ Ours(d),
         \A s \in Space : org.owner[s] = "none" => Has(s)' = Has(s) /\ org'.mark[s] = org.mark[s]
  PROVE  OwnInv'
BY DEF OwnInv, Ours

LEMMA UpOwnInv ==
  ASSUME OrgTypeOK, OwnInv, RunTypeOK, UpInv, command = "up", at # 0, UpEffect
  PROVE  OwnInv'
<1> USE DEF OwnInv
<1>1. ASSUME NEW s \in Space, Takes(s) PROVE OwnInv'
  <2>1. ASSUME NEW v \in Space PROVE org'.owner[v] # org.owner[v] => v = s /\ org.owner[v] = "none"
    BY <1>1, TakesFields
  <2>2. /\ org'.target = org.target /\ org'.patched = org.patched
        /\ org'.layers = org.layers /\ org'.from = org.from /\ org'.mark = org.mark
    BY <1>1, TakesFields
  <2>3. \A v \in Space : Has(v)' = Has(v)
    BY <2>2 DEF Has
  <2>4. \A k \in org.target : ClusterSpace(k) \in Space
    BY DEF OrgTypeOK, ClusterSpaces, Space
  <2>5. \A d \in org.patched : d \in Space
    BY DeploymentIs DEF OrgTypeOK
  <2>6. ASSUME NEW v \in ClassBases \union Deployments, Ours(v)' PROVE org'.owner[Upstream(v)] # "other"
    <3>1. v \in Space /\ Upstream(v) \in Space /\ Upstream(v) # v /\ Upstream(v) \in Roots \union ClassBases
      BY ClassBaseIs, DeploymentIs, RootIs, Kinds
    <3>2. CASE s = Upstream(v)
      <4>1. org'.owner[s] = IF org.owner[s] = "none"
              THEN IF s \in ClassBases THEN org.owner[Upstream(s)] ELSE "ours"
              ELSE org.owner[s]
        BY <1>1, <3>1, <3>2, TakesFields, Kinds
      <4>2. s \in ClassBases => Ours(Upstream(s))
        BY <1>1, <3>1, <3>2, ClassBaseIs, OfComponent, Worked, Kinds DEF Takes
      <4>3. Ours(v)
        BY <2>1, <2>6, <3>1, <3>2 DEF Ours
      <4> QED BY <2>6, <3>2, <4>1, <4>2, <4>3 DEF Ours
    <3>3. CASE s # Upstream(v) /\ s # v
      BY <2>1, <2>6, <3>1, <3>3 DEF Ours
    <3>4. CASE s = v
      <4>1. org'.owner[v] = IF org.owner[v] = "none" THEN org.owner[Upstream(v)] ELSE org.owner[v]
        BY <1>1, <2>6, <3>1, <3>4, TakesFields
      <4>2. org'.owner[Upstream(v)] = org.owner[Upstream(v)]
        BY <2>1, <3>1, <3>4
      <4> QED BY <2>6, <4>1, <4>2 DEF Ours
    <3> QED BY <3>2, <3>3, <3>4
  <2>7. ASSUME NEW v \in Space, Ours(v) PROVE Ours(v)'
    BY <2>1, <2>7 DEF Ours
  <2>8. ASSUME NEW v \in Space, org'.owner[v] = "none" PROVE Has(v)' = {} /\ org'.mark[v] = 0
    BY <2>1, <2>2, <2>3, <2>8
  <2> QED BY <2>2, <2>4, <2>5, <2>6, <2>7, <2>8, HomeIs
<1>2. ASSUME NEW k \in Cluster, Connects(k) PROVE OwnInv'
  <2>1. Ours(ClusterSpace(k))
    BY <1>2, Worked DEF Connects
  <2> QED BY <1>2, <2>1, ConnectsFields, OwnKeeps DEF Has
<1>3. ASSUME NEW c \in Component, Adopts(c) PROVE OwnInv'
  BY <1>3, AdoptsFields, OwnKeeps DEF Has
<1>4. ASSUME NEW c \in Component, NEW u \in Units[c], Fills(c, u) PROVE OwnInv'
  <2>1. Ours(Root(c))
    BY <1>4, Worked DEF Fills
  <2>2. \A v \in Space : v # Root(c) => Has(v)' = Has(v)
    BY <1>4, FillsFields DEF Has
  <2> QED BY <1>4, <2>1, <2>2, FillsFields, OwnKeeps DEF Ours
<1>5. ASSUME NEW V \in SUBSET (ClassBases \union Deployments), Clones(V) PROVE OwnInv'
  <2>1. \A v \in V : Ours(v)
    BY <1>5 DEF Clones, Cloneable
  <2>2. \A v \in Space : v \notin V => Has(v)' = Has(v)
    BY <1>5, ClonesFields
  <2> QED BY <1>5, <2>1, <2>2, ClonesFields, OwnKeeps DEF Ours
<1>6. ASSUME NEW b \in ClassBases, MarksClass(b) PROVE OwnInv'
  <2>1. org.owner[b] # "none" /\ b \in Space /\ Mark(b, 1)
    BY <1>6, Worked, ClassBaseIs DEF MarksClass
  <2>2. \A v \in Space : v # b => org'.mark[v] = org.mark[v]
    BY <2>1, MarkFields
  <2> QED BY <2>1, <2>2, MarkFields, OwnKeeps DEF Has
<1>7. ASSUME NEW c \in Component, MarksRoot(c) PROVE OwnInv'
  <2>1. Ours(Root(c)) /\ Root(c) \in Space /\ Mark(Root(c), Cardinality(Placement[c]))
    BY <1>7, Worked, OfComponent, RootIs DEF MarksRoot
  <2>2. \A v \in Space : v # Root(c) => org'.mark[v] = org.mark[v]
    BY <2>1, Numbers, MarkFields
  <2> QED BY <2>1, <2>2, Numbers, MarkFields, OwnKeeps DEF Ours, Has
<1>8. ASSUME NEW V \in SUBSET (ClassBases \union Deployments), NEW U, NEW layer, Stamps(V, U, layer) PROVE OwnInv'
  BY <1>8, StampsFields, OwnKeeps
<1>9. ASSUME NEW S \in SUBSET Deployments, Turns(S) PROVE OwnInv'
  BY <1>9, TurnsFields, OwnKeeps DEF Turns, Has
<1> QED BY <1>1, <1>2, <1>3, <1>4, <1>5, <1>6, <1>7, <1>8, <1>9 DEF UpEffect

LEMMA UpUnitsInv ==
  ASSUME OrgTypeOK, OwnInv, UnitsInv, RunTypeOK, UpInv, command = "up", at # 0, UpEffect
  PROVE  UnitsInv'
<1>r. \A c \in Component : Root(c) \in Space /\ Root(c) \in Roots /\ Root(c) \notin ClassBases \union Deployments
  BY OfComponent, RootIs, Kinds
<1>b. \A b \in ClassBases : /\ b \in Space /\ b[2] \in Component /\ Upstream(b) = Root(b[2]) /\ Upstream(b) \in Space
                            /\ b \notin Deployments
  BY ClassBaseIs, RootIs, Kinds
<1>d. \A d \in Deployments : d \in Space /\ Upstream(d) \in ClassBases /\ Upstream(d) \in Space /\ Upstream(d) \notin Deployments
  BY DeploymentIs, ClassBaseIs, Kinds
<1>1. ASSUME NEW s \in Space, Takes(s) PROVE UnitsInv'
  <2>1. /\ \A v \in Space : org.owner[v] # "none" => org'.owner[v] = org.owner[v]
        /\ org'.patched = org.patched /\ org'.layers = org.layers /\ org'.from = org.from /\ org'.mark = org.mark
    BY <1>1, TakesFields
  <2>2. \A v \in Space : Has(v)' = Has(v) /\ (Bears(v, "policy") => Bears(v, "policy")')
    BY <2>1 DEF Has, Bears
  <2>3. \A v \in Space : Ours(v)' => Ours(v) \/ (Has(v) = {} /\ org.mark[v] = 0)
    BY <2>1 DEF OwnInv, Ours
  <2>4. RootUnits'
    <3>1. \A c \in Component : org.owner[Root(c)] # "other" \/ org'.owner[Root(c)] = "other"
      BY <1>r, <2>1
    <3> QED BY <1>r, <2>1, <2>2, <3>1 DEF UnitsInv, RootUnits
  <2>5. ClassUnits'
    BY <1>b, <2>1, <2>2, <2>3 DEF UnitsInv, ClassUnits
  <2>6. DeploymentUnits'
    BY <1>d, <2>1, <2>2, <2>3 DEF UnitsInv, DeploymentUnits
  <2> QED BY <2>4, <2>5, <2>6 DEF UnitsInv
<1>2. ASSUME org'.layers = org.layers, org'.from = org.from, org'.mark = org.mark, org'.owner = org.owner,
             org.patched \subseteq org'.patched
      PROVE  UnitsInv'
  BY <1>2 DEF UnitsInv, RootUnits, ClassUnits, DeploymentUnits, Has, Bears, Ours
<1>3. ASSUME NEW k \in Cluster, Connects(k) PROVE UnitsInv'
  BY <1>2, <1>3, ConnectsFields
<1>4. ASSUME NEW c \in Component, Adopts(c) PROVE UnitsInv'
  BY <1>2, <1>4, AdoptsFields
<1>5. ASSUME NEW S \in SUBSET Deployments, Turns(S) PROVE UnitsInv'
  BY <1>2, <1>5, TurnsFields
<1>6. ASSUME NEW c \in Component, NEW u \in Units[c], Fills(c, u) PROVE UnitsInv'
  <2>1. /\ \A v \in Space, w \in Unit : v # Root(c) \/ w # u => org'.layers[v][w] = org.layers[v][w]
        /\ org'.layers[Root(c)][u] = org.layers[Root(c)][u] \union
              (IF org.layers[Root(c)][u] = {} THEN {"unit"}
               ELSE IF "data" \notin org.layers[Root(c)][u] THEN {"data"} ELSE {"hash"})
        /\ org'.owner = org.owner /\ org'.patched = org.patched /\ org'.from = org.from /\ org'.mark = org.mark
    BY <1>6, FillsFields
  <2>2. \A e \in Component : Root(e) = Root(c) => e = c
    BY OfComponent
  <2>3. ASSUME NEW v \in ClassBases \union Deployments, NEW w \in Unit PROVE org'.layers[v][w] = org.layers[v][w]
    <3>1. v \in Space /\ v # Root(c)
      BY <1>b, <1>d, <1>r
    <3> QED BY <2>1, <3>1
  <2>4. \A v \in ClassBases \union Deployments : Has(v)' = Has(v) /\ (Bears(v, "policy") => Bears(v, "policy")')
    BY <2>3 DEF Has, Bears
  <2>5. RootUnits'
    <3> SUFFICES ASSUME NEW e \in Component, NEW w \in Unit
                 PROVE  /\ org'.layers[Root(e)][w] \subseteq {"unit", "data", "hash"}
                        /\ "hash" \in org'.layers[Root(e)][w] => "data" \in org'.layers[Root(e)][w]
                        /\ org.owner[Root(e)] # "other" /\ org'.layers[Root(e)][w] # {} => w \in Units[e]
      BY <2>1 DEF RootUnits, Has
    <3>1. CASE e = c /\ w = u
      <4>1. /\ org.layers[Root(c)][u] \subseteq {"unit", "data", "hash"}
            /\ "hash" \in org.layers[Root(c)][u] => "data" \in org.layers[Root(c)][u]
        BY <3>1 DEF UnitsInv, RootUnits
      <4> QED BY <2>1, <3>1, <4>1
    <3>2. CASE ~(e = c /\ w = u)
      <4>1. org'.layers[Root(e)][w] = org.layers[Root(e)][w]
        BY <1>r, <2>1, <2>2, <3>2
      <4> QED BY <4>1 DEF UnitsInv, RootUnits, Has
    <3> QED BY <3>1, <3>2
  <2>6. \A v \in Space, w \in Unit : org.layers[v][w] \subseteq org'.layers[v][w]
    BY <2>1
  <2>7. ClassUnits'
    <3>1. \A b \in ClassBases : Has(b) \subseteq Unit
      BY DEF Has
    <3> QED BY <1>b, <2>1, <2>3, <2>4, <2>6, <3>1 DEF UnitsInv, ClassUnits, Ours
  <2>8. DeploymentUnits'
    <3>1. \A d \in Deployments : Has(d) \subseteq Unit
      BY DEF Has
    <3> QED BY <1>d, <2>1, <2>3, <2>4, <3>1 DEF UnitsInv, DeploymentUnits, Ours
  <2> QED BY <2>5, <2>7, <2>8 DEF UnitsInv
<1>7. ASSUME NEW V \in SUBSET (ClassBases \union Deployments), Clones(V) PROVE UnitsInv'
  <2>1. /\ org'.owner = org.owner /\ org'.patched = org.patched /\ org'.mark = org.mark
        /\ \A v \in Space : Has(v)' = IF v \in V THEN Has(v) \union Has(Upstream(v)) ELSE Has(v)
    BY <1>7, ClonesFields
  <2>2. \A v \in Space, w \in Unit :
              IF v \in V /\ w \notin Has(v)
              THEN /\ org'.layers[v][w] = org.layers[Upstream(v)][w] \ {"hash", "protection"}
                   /\ org'.from[v][w] = org.layers[Upstream(v)][w] \intersect Revision
              ELSE org'.layers[v][w] = org.layers[v][w] /\ org'.from[v][w] = org.from[v][w]
    BY <1>7, ClonesFields
  <2>3. RootUnits'
    <3>1. \A c \in Component, w \in Unit : org'.layers[Root(c)][w] = org.layers[Root(c)][w]
      BY <1>r, <2>2
    <3>2. \A c \in Component : Has(Root(c))' = Has(Root(c))
      BY <1>r, <2>1
    <3> QED BY <2>1, <3>1, <3>2 DEF UnitsInv, RootUnits
  <2>4. \A v \in Space : \A w \in Has(v) : w \in Unit /\ org'.layers[v][w] = org.layers[v][w] /\ org'.from[v][w] = org.from[v][w]
    BY <2>2 DEF Has
  <2>5. CASE at = 3
    <3>1. PICK c \in Component : V \subseteq ClassBasesOf(c) /\ Hashed(c) /\ Root(c) \in known /\ \A b \in V : Ours(b)
      BY <1>7, <2>5 DEF Clones
    <3>2. Ours(Root(c))
      BY <3>1, Worked
    <3>3. \A v \in V : v \in ClassBases /\ v[2] = c /\ Upstream(v) = Root(c)
      BY <3>1, OfComponent
    <3>4. ASSUME NEW w \in Has(Root(c))
          PROVE  /\ w \in Units[c] /\ "hash" \in org.layers[Root(c)][w] /\ "data" \in org.layers[Root(c)][w]
                 /\ org.layers[Root(c)][w] \intersect Revision = {"data"}
      <4>1. w \in Unit
        BY DEF Has
      <4>2. w \in Units[c]
        BY <3>2, <4>1 DEF UnitsInv, RootUnits, Ours
      <4>3. "hash" \in org.layers[Root(c)][w]
        BY <3>1, <4>2 DEF Hashed
      <4>4. "data" \in org.layers[Root(c)][w] /\ org.layers[Root(c)][w] \subseteq {"unit", "data", "hash"}
        BY <4>1, <4>3 DEF UnitsInv, RootUnits
      <4> QED BY <4>2, <4>3, <4>4 DEF Revision
    <3>5. ClassUnits'
      <4> SUFFICES ASSUME NEW b \in ClassBases, Ours(b)
                   PROVE /\ \A u \in Has(b)' : /\ org'.from[b][u] = {"data"} /\ "data" \in org'.layers[b][u]
                                               /\ "hash" \in org'.layers[Upstream(b)][u]
                         /\ org.mark[b] # 0 => org.mark[b] = 1 /\ Has(b)' = Units[b[2]] /\ Bears(b, "policy")'
        BY <2>1 DEF ClassUnits, Ours
      <4>0. \A w \in Unit : org'.layers[Upstream(b)][w] = org.layers[Upstream(b)][w]
        BY <1>b, <1>r, <2>2
      <4>1. ASSUME NEW u \in Has(b)' 
            PROVE  /\ org'.from[b][u] = {"data"} /\ "data" \in org'.layers[b][u]
                   /\ "hash" \in org'.layers[Upstream(b)][u]
        <5>1. CASE u \in Has(b)
          BY <1>b, <2>4, <4>0, <5>1 DEF UnitsInv, ClassUnits
        <5>2. CASE u \notin Has(b)
          <6>1. b \in V /\ u \in Has(Root(c)) /\ Upstream(b) = Root(c) /\ u \in Unit
            BY <1>b, <2>1, <3>3, <5>2 DEF Has
          <6>2. /\ org'.layers[b][u] = org.layers[Root(c)][u] \ {"hash", "protection"}
                /\ org'.from[b][u] = org.layers[Root(c)][u] \intersect Revision
            BY <1>b, <2>2, <5>2, <6>1
          <6> QED BY <3>4, <4>0, <6>1, <6>2
        <5> QED BY <5>1, <5>2
      <4>2. ASSUME org.mark[b] # 0 PROVE org.mark[b] = 1 /\ Has(b)' = Units[b[2]] /\ Bears(b, "policy")'
        <5>1. org.mark[b] = 1 /\ Has(b) = Units[b[2]] /\ Bears(b, "policy")
          BY <4>2 DEF UnitsInv, ClassUnits
        <5>2. Has(b)' = Has(b)
          <6>1. CASE b \in V
            <7>1. Has(b)' = Has(b) \union Has(Root(c)) /\ b[2] = c
              BY <1>b, <2>1, <3>3, <6>1
            <7> QED BY <3>4, <5>1, <7>1
          <6>2. CASE b \notin V
            BY <1>b, <2>1, <6>2
          <6> QED BY <6>1, <6>2
        <5> QED BY <1>b, <2>4, <5>1, <5>2 DEF Bears
      <4> QED BY <4>1, <4>2
    <3>6. DeploymentUnits'
      <4> SUFFICES ASSUME NEW d \in Deployments, Ours(d), NEW u \in Has(d)'
                   PROVE  /\ d \in org.patched /\ org'.from[d][u] = Revision
                          /\ {"data", "policy"} \subseteq org'.layers[d][u]
                          /\ Revision \subseteq org'.layers[Upstream(d)][u]
        BY <2>1 DEF DeploymentUnits, Ours
      <4>1. d \notin V /\ u \in Has(d)
        BY <1>b, <1>d, <2>1, <3>3
      <4>2. /\ d \in org.patched /\ org.from[d][u] = Revision
            /\ {"data", "policy"} \subseteq org.layers[d][u]
            /\ Revision \subseteq org.layers[Upstream(d)][u]
        BY <4>1 DEF UnitsInv, DeploymentUnits
      <4>3. u \in Has(Upstream(d))
        BY <4>1, <4>2 DEF Has, Revision
      <4> QED BY <1>d, <2>4, <4>1, <4>2, <4>3
    <3> QED BY <2>3, <3>5, <3>6 DEF UnitsInv
  <2>6. CASE at = 7 /\ V \subseteq Deployments /\ \A d \in V : Cloneable(d)
    <3>1. \A b \in ClassBases : b \notin V
      BY <1>b, <2>6
    <3>2. \A c \in Component : Root(c) \notin V
      BY <1>r
    <3>3. ClassUnits'
      <4>1. \A b \in ClassBases : Has(b)' = Has(b) /\ (Bears(b, "policy") => Bears(b, "policy")')
        BY <1>b, <2>1, <2>4, <3>1 DEF Bears
      <4>2. \A b \in ClassBases : \A u \in Has(b) : /\ org'.layers[Upstream(b)][u] = org.layers[Upstream(b)][u]
                                                    /\ org'.from[b][u] = org.from[b][u] /\ org'.layers[b][u] = org.layers[b][u]
        BY <1>b, <1>r, <2>2, <2>4 DEF Has
      <4> QED BY <2>1, <4>1, <4>2 DEF UnitsInv, ClassUnits, Ours
    <3>4. ASSUME NEW b \in ClassBases, Ours(b), NEW u \in Has(b)
          PROVE  Revision \subseteq org.layers[b][u]
      <4>1. org.mark[b] = 1 /\ Bears(b, "protection")
        BY <1>b, <2>6, Past, ClassBaseIs
      <4>2. "data" \in org.layers[b][u] /\ Bears(b, "policy")
        BY <3>4, <4>1 DEF UnitsInv, ClassUnits
      <4> QED BY <4>1, <4>2 DEF Bears, Revision
    <3>5. ASSUME NEW d \in Deployments, Ours(d) PROVE Ours(Upstream(d))
      <4>1. org.owner[Upstream(d)] # "none"
        <5>1. Upstream(d) \in ClassBasesOf(d[2]) /\ d[2] \in Component
          BY DeploymentIs
        <5> QED BY <2>6, <5>1, Past
      <4> QED BY <1>d, <3>5, <4>1 DEF OwnInv, OrgTypeOK, Ours
    <3>6. DeploymentUnits'
      <4> SUFFICES ASSUME NEW d \in Deployments, Ours(d), NEW u \in Has(d)'
                   PROVE  /\ d \in org.patched /\ org'.from[d][u] = Revision
                          /\ {"data", "policy"} \subseteq org'.layers[d][u]
                          /\ Revision \subseteq org'.layers[Upstream(d)][u]
        BY <2>1 DEF DeploymentUnits, Ours
      <4>1. CASE u \in Has(d)
        <5>1. /\ d \in org.patched /\ org.from[d][u] = Revision
              /\ {"data", "policy"} \subseteq org.layers[d][u]
              /\ Revision \subseteq org.layers[Upstream(d)][u]
          BY <4>1 DEF UnitsInv, DeploymentUnits
        <5>2. u \in Has(Upstream(d))
          BY <4>1, <5>1 DEF Has, Revision
        <5> QED BY <1>d, <2>4, <4>1, <5>1, <5>2
      <4>2. CASE u \notin Has(d)
        <5>1. d \in V /\ u \in Has(Upstream(d)) /\ u \in Unit
          BY <1>d, <2>1, <4>2 DEF Has
        <5>2. /\ org'.layers[d][u] = org.layers[Upstream(d)][u] \ {"hash", "protection"}
              /\ org'.from[d][u] = org.layers[Upstream(d)][u] \intersect Revision
          BY <1>d, <2>2, <4>2, <5>1
        <5>3. Revision \subseteq org.layers[Upstream(d)][u]
          BY <1>d, <3>4, <3>5, <5>1
        <5>4. org'.layers[Upstream(d)][u] = org.layers[Upstream(d)][u]
          BY <1>d, <2>4, <5>1
        <5> QED BY <2>6, <5>1, <5>2, <5>3, <5>4 DEF Cloneable, Revision
      <4> QED BY <4>1, <4>2
    <3> QED BY <2>3, <3>3, <3>6 DEF UnitsInv
  <2> QED BY <1>7, <2>5, <2>6 DEF Clones
<1>8. ASSUME NEW b \in ClassBases, MarksClass(b) PROVE UnitsInv'
  <2>1. b \in Space /\ Mark(b, 1)
    BY <1>b, <1>8 DEF MarksClass
  <2>2. /\ org'.owner = org.owner /\ org'.patched = org.patched /\ org'.layers = org.layers /\ org'.from = org.from
        /\ org'.mark[b] = 1 /\ \A v \in Space : v # b => org'.mark[v] = org.mark[v]
    BY <2>1, MarkFields
  <2>3. \A v : Has(v)' = Has(v) /\ (Bears(v, "policy") => Bears(v, "policy")') /\ Ours(v)' = Ours(v)
    BY <2>2 DEF Has, Bears, Ours
  <2>4. Ours(b) => Has(b) = Units[b[2]] /\ Bears(b, "policy")
    <3>1. Ours(Root(b[2])) /\ b[2] \in Component /\ Upstream(b) = Root(b[2])
      BY <1>b, <1>8, Worked DEF MarksClass
    <3>2. Has(Root(b[2])) \subseteq Units[b[2]]
      BY <3>1 DEF UnitsInv, RootUnits, Ours, Has
    <3>3. Units[b[2]] \subseteq Has(Root(b[2]))
      BY <1>8, <3>1, OfComponent DEF MarksClass, Hashed, Has
    <3>4. Ours(b) => Has(b) = Has(Upstream(b))
      BY <1>8 DEF MarksClass, Cloned
    <3>5. Bears(b, "policy")
      BY <1>8 DEF MarksClass
    <3>7. Has(Root(b[2])) = Units[b[2]]
      BY <3>2, <3>3
    <3>6. Has(Upstream(b)) = Units[b[2]]
      BY <3>1, <3>7
    <3> QED BY <3>4, <3>5, <3>6
  <2>5. RootUnits' /\ DeploymentUnits'
    BY <2>2, <2>3 DEF UnitsInv, RootUnits, DeploymentUnits
  <2>6. ClassUnits'
    BY <1>b, <2>2, <2>3, <2>4 DEF UnitsInv, ClassUnits
  <2> QED BY <2>5, <2>6 DEF UnitsInv
<1>9. ASSUME NEW c \in Component, MarksRoot(c) PROVE UnitsInv'
  <2>1. Mark(Root(c), Cardinality(Placement[c]))
    BY <1>9 DEF MarksRoot
  <2>2. /\ org'.owner = org.owner /\ org'.patched = org.patched /\ org'.layers = org.layers /\ org'.from = org.from
        /\ \A v \in Space : v # Root(c) => org'.mark[v] = org.mark[v]
    BY <1>r, <2>1, Numbers, MarkFields
  <2>3. \A v : Has(v)' = Has(v) /\ (Bears(v, "policy") => Bears(v, "policy")') /\ Ours(v)' = Ours(v)
    BY <2>2 DEF Has, Bears, Ours
  <2>4. \A b \in ClassBases : org'.mark[b] = org.mark[b]
    BY <1>b, <1>r, <2>2
  <2> QED BY <2>2, <2>3, <2>4 DEF UnitsInv, RootUnits, ClassUnits, DeploymentUnits
<1>10. ASSUME NEW V \in SUBSET (ClassBases \union Deployments), NEW U, NEW layer, Stamps(V, U, layer) PROVE UnitsInv'
  <2>1. /\ org'.owner = org.owner /\ org'.patched = org.patched /\ org'.from = org.from /\ org'.mark = org.mark
        /\ \A v \in Space : Has(v)' = Has(v) /\ (Bears(v, "policy") => Bears(v, "policy")')
    BY <1>10, StampsFields
  <2>2. \A v \in Space, w \in Unit : org'.layers[v][w] =
              IF v \in V /\ w \in U \intersect Has(v) THEN org.layers[v][w] \union {layer} ELSE org.layers[v][w]
    BY <1>10, StampsFields
  <2>3. ASSUME NEW v \in Space, NEW w \in Unit PROVE org.layers[v][w] \subseteq org'.layers[v][w]
    <3>1. \/ org'.layers[v][w] = org.layers[v][w] \union {layer}
          \/ org'.layers[v][w] = org.layers[v][w]
      BY <2>2
    <3> QED BY <3>1
  <2>4. \A c \in Component, w \in Unit : org'.layers[Root(c)][w] = org.layers[Root(c)][w]
    BY <1>r, <2>2
  <2>5. \A v : Has(v) \subseteq Unit
    BY DEF Has
  <2>6. RootUnits'
    BY <1>r, <2>1, <2>4 DEF UnitsInv, RootUnits
  <2>7. ClassUnits'
    BY <1>b, <2>1, <2>3, <2>5 DEF UnitsInv, ClassUnits, Ours
  <2>8. DeploymentUnits'
    BY <1>d, <2>1, <2>3, <2>5 DEF UnitsInv, DeploymentUnits, Ours
  <2> QED BY <2>6, <2>7, <2>8 DEF UnitsInv
<1> QED BY <1>1, <1>3, <1>4, <1>5, <1>6, <1>7, <1>8, <1>9, <1>10 DEF UpEffect

\* What no call of up undoes: what it knows of, whose a space is, the units of
\* a hashed root, a layer on all units of a space, a marker; and the pools in
\* which units, owners and what it knows of may still change.
UpKeeping ==
  /\ known \subseteq known' /\ (at \in {4, 6, 7, 8, 9, 10} => known' = known)
  /\ org.target \subseteq org'.target
  /\ org.patched \subseteq org'.patched /\ (at > 6 => org'.patched = org.patched)
  /\ \A c \in Component : org.component[c] \in {"ours", "claimed", "other"} => org'.component[c] = org.component[c]
  /\ \A v \in Space : org.owner[v] # "none" \/ at > 5 => org'.owner[v] = org.owner[v]
  /\ \A c \in Component : Hashed(c) => Hashed(c)' /\ Has(Root(c))' = Has(Root(c))
  /\ \A v \in ClassBases \union Deployments :
       /\ \/ Has(v)' = Has(v)
          \/ /\ Has(v)' = Has(v) \union Has(Upstream(v))
             /\ at = IF v \in ClassBases THEN 3 ELSE 7
       /\ Has(v)' = Has(v) => \A l : Bears(v, l) => Bears(v, l)'
  /\ \A b \in ClassBases : org.mark[b] = 1 => org'.mark[b] = 1
  /\ \A c \in Component : org.mark[Root(c)] = Cardinality(Placement[c]) => org'.mark[Root(c)] = org.mark[Root(c)]

LEMMA UpKeeps ==
  ASSUME OrgTypeOK, OwnInv, UnitsInv, RunTypeOK, UpInv, command = "up", at # 0, UpEffect
  PROVE  UpKeeping
<1>n. at \in 1 .. 10
  BY UpPool
<1>r. \A c \in Component : Root(c) \in Space /\ Root(c) \in Roots /\ Root(c) \notin ClassBases \union Deployments
  BY OfComponent, RootIs, Kinds
<1>v. \A v \in ClassBases \union Deployments : v \in Space /\ Upstream(v) \in Space
  BY ClassBaseIs, DeploymentIs, RootIs
<1>c. \A v \in ClassBases : v \notin Deployments
  BY Kinds
<1>i. \A c, e \in Component : Root(e) = Root(c) => e = c
  BY OfComponent
<1>u. \A c \in Component : Units[c] \subseteq Unit
  BY OfComponent
<1>h. ASSUME org'.layers = org.layers
      PROVE  /\ \A v : Has(v)' = Has(v) /\ \A l : Bears(v, l) => Bears(v, l)'
             /\ \A c \in Component : Hashed(c) => Hashed(c)'
  BY <1>h DEF Has, Bears, Hashed
<1>1. ASSUME NEW s \in Space, Takes(s) PROVE UpKeeping
  <2>1. /\ org'.component = org.component /\ org'.target = org.target /\ org'.patched = org.patched
        /\ org'.layers = org.layers /\ org'.from = org.from /\ org'.mark = org.mark
        /\ known' = known \union {s}
        /\ \A v \in Space : org.owner[v] # "none" => org'.owner[v] = org.owner[v]
    BY <1>1, TakesFields
  <2>2. at <= 3 \/ at = 5
    BY <1>1, <1>n DEF Takes
  <2> QED BY <1>n, <1>h, <2>1, <2>2 DEF UpKeeping
<1>2. ASSUME NEW k \in Cluster, Connects(k) PROVE UpKeeping
  BY <1>2, <1>n, <1>h, ConnectsFields DEF UpKeeping, Connects
<1>3. ASSUME NEW c \in Component, Adopts(c) PROVE UpKeeping
  <2>1. /\ org'.target = org.target /\ org'.owner = org.owner /\ org'.patched = org.patched
        /\ org'.layers = org.layers /\ org'.from = org.from /\ org'.mark = org.mark
        /\ org'.component = [org.component EXCEPT ![c] = "ours"]
        /\ known' = known \union {Entity(c)} /\ at = 3
    BY <1>3, AdoptsFields DEF Adopts
  <2>2. \A e \in Component : org.component[e] \in {"ours", "claimed", "other"} => org'.component[e] = org.component[e]
    BY <1>3, <2>1, AdoptsFields DEF OrgTypeOK
  <2> QED BY <1>h, <2>1, <2>2 DEF UpKeeping
<1>4. ASSUME NEW c \in Component, NEW u \in Units[c], Fills(c, u) PROVE UpKeeping
  <2>1. /\ org'.owner = org.owner
        /\ org'.component = org.component /\ org'.target = org.target /\ org'.patched = org.patched
        /\ org'.mark = org.mark /\ known' = known /\ at = 3
    BY <1>4, FillsFields DEF Fills
  <2>2. \A v \in Space, w \in Unit : v # Root(c) => org'.layers[v][w] = org.layers[v][w]
    BY <1>4, FillsFields
  <2>3. \A v \in Space : v # Root(c) => Has(v)' = Has(v)
    BY <2>2 DEF Has
  <2>4. \A v \in Space : v # Root(c) => \A l : Bears(v, l) => Bears(v, l)'
    BY <2>2, <2>3 DEF Bears, Has
  <2>5. ~Hashed(c)
    BY <1>4 DEF Fills, Hashed
  <2>6. ASSUME NEW e \in Component, Hashed(e) PROVE Hashed(e)' /\ Has(Root(e))' = Has(Root(e))
    <3>1. Root(e) # Root(c) /\ Root(e) \in Space
      BY <1>i, <1>r, <2>5, <2>6
    <3> QED BY <1>u, <2>2, <2>3, <2>6, <3>1 DEF Hashed
  <2>7. \A v \in ClassBases \union Deployments : v # Root(c)
    BY <1>r
  <2> QED BY <1>v, <2>1, <2>3, <2>4, <2>6, <2>7 DEF UpKeeping
<1>5. ASSUME NEW V \in SUBSET (ClassBases \union Deployments), Clones(V) PROVE UpKeeping
  <2>1. /\ org'.owner = org.owner
        /\ org'.component = org.component /\ org'.target = org.target /\ org'.patched = org.patched
        /\ org'.mark = org.mark /\ known' = known
        /\ \A v \in Space : Has(v)' = IF v \in V THEN Has(v) \union Has(Upstream(v)) ELSE Has(v)
    BY <1>5, ClonesFields
  <2>2. \A v \in Space, w \in Unit : v \notin V => org'.layers[v][w] = org.layers[v][w]
    BY <1>5, ClonesFields
  <2>3. \A c \in Component : Hashed(c) => Hashed(c)' /\ Has(Root(c))' = Has(Root(c))
    BY <1>r, <1>u, <2>1, <2>2 DEF Hashed
  <2>4. ASSUME NEW v \in ClassBases \union Deployments
        PROVE  /\ \/ Has(v)' = Has(v)
                  \/ /\ Has(v)' = Has(v) \union Has(Upstream(v))
                     /\ at = IF v \in ClassBases THEN 3 ELSE 7
               /\ Has(v)' = Has(v) => \A l : Bears(v, l) => Bears(v, l)'
    <3>0. ASSUME Has(v)' = Has(v), NEW l, Bears(v, l) PROVE Bears(v, l)'
      <4>1. \A w \in Has(v) : org'.layers[v][w] = org.layers[v][w]
        BY <1>v, <1>5, ClonesFields DEF Has
      <4> QED BY <3>0, <4>1 DEF Bears
    <3>1. CASE v \in V
      <4>1. (v \in ClassBases /\ at = 3) \/ (v \in Deployments /\ at = 7)
        <5>1. CASE \E c \in Component : V \subseteq ClassBasesOf(c)
          <6>1. v \in ClassBases
            BY <3>1, <5>1, OfComponent
          <6>2. at = 3 \/ (at = 7 /\ V \subseteq Deployments)
            BY <1>5 DEF Clones
          <6> QED BY <1>c, <3>1, <6>1, <6>2
        <5>2. CASE ~\E c \in Component : V \subseteq ClassBasesOf(c)
          BY <1>5, <3>1, <5>2 DEF Clones
        <5> QED BY <5>1, <5>2
      <4>2. Has(v)' = Has(v) \union Has(Upstream(v))
        BY <1>v, <2>1, <3>1
      <4>3. at = IF v \in ClassBases THEN 3 ELSE 7
        BY <1>c, <4>1
      <4> QED BY <3>0, <4>2, <4>3
    <3>2. CASE v \notin V
      BY <1>v, <2>1, <3>0, <3>2
    <3> QED BY <3>1, <3>2
  <2> QED BY <2>1, <2>3, <2>4 DEF UpKeeping
<1>6. ASSUME NEW b \in ClassBases, MarksClass(b) PROVE UpKeeping
  <2>1. b \in Space /\ Mark(b, 1) /\ known' = known
    BY <1>v, <1>6 DEF MarksClass
  <2>2. /\ org'.owner = org.owner /\ org'.component = org.component /\ org'.target = org.target
        /\ org'.patched = org.patched /\ org'.layers = org.layers
        /\ org'.mark[b] = 1 /\ \A v \in Space : v # b => org'.mark[v] = org.mark[v]
    BY <2>1, MarkFields
  <2>3. \A c \in Component : org'.mark[Root(c)] = org.mark[Root(c)]
    BY <1>r, <2>2
  <2> QED BY <1>h, <1>v, <2>1, <2>2, <2>3 DEF UpKeeping
<1>7. ASSUME NEW c \in Component, MarksRoot(c) PROVE UpKeeping
  <2>1. Mark(Root(c), Cardinality(Placement[c])) /\ known' = known
    BY <1>7 DEF MarksRoot
  <2>2. /\ org'.owner = org.owner /\ org'.component = org.component /\ org'.target = org.target
        /\ org'.patched = org.patched /\ org'.layers = org.layers
        /\ org'.mark[Root(c)] = Cardinality(Placement[c])
        /\ \A v \in Space : v # Root(c) => org'.mark[v] = org.mark[v]
    BY <1>r, <2>1, Numbers, MarkFields
  <2>3. \A b \in ClassBases : org'.mark[b] = org.mark[b]
    BY <1>r, <1>v, <2>2
  <2>4. \A e \in Component : org.mark[Root(e)] = Cardinality(Placement[e]) => org'.mark[Root(e)] = org.mark[Root(e)]
    BY <1>i, <1>r, <2>2
  <2> QED BY <1>h, <2>1, <2>2, <2>3, <2>4 DEF UpKeeping
<1>8. ASSUME NEW V \in SUBSET (ClassBases \union Deployments), NEW U, NEW layer, Stamps(V, U, layer) PROVE UpKeeping
  <2>1. /\ org'.owner = org.owner
        /\ org'.component = org.component /\ org'.target = org.target /\ org'.patched = org.patched
        /\ org'.mark = org.mark /\ known' = known
        /\ \A v \in Space : Has(v)' = Has(v)
        /\ \A v \in Space : \A l : Bears(v, l) => Bears(v, l)'
    BY <1>8, StampsFields
  <2>4. \A v \in Space, w \in Unit : org'.layers[v][w] =
              IF v \in V /\ w \in U \intersect Has(v) THEN org.layers[v][w] \union {layer} ELSE org.layers[v][w]
    BY <1>8, StampsFields
  <2>2. \A v \in Space, w \in Unit : v \notin V => org'.layers[v][w] = org.layers[v][w]
    BY <2>4
  <2>3. \A c \in Component : Hashed(c) => Hashed(c)' /\ Has(Root(c))' = Has(Root(c))
    BY <1>r, <1>u, <2>1, <2>2 DEF Hashed
  <2> QED BY <1>v, <2>1, <2>3 DEF UpKeeping
<1>9. ASSUME NEW S \in SUBSET Deployments, Turns(S) PROVE UpKeeping
  BY <1>9, <1>h, TurnsFields DEF UpKeeping, Turns
<1> QED BY <1>1, <1>2, <1>3, <1>4, <1>5, <1>6, <1>7, <1>8, <1>9 DEF UpEffect

\* An item that stands in this pool or one behind it still does after a call.
LEMMA StandsStill ==
  ASSUME OrgTypeOK, OwnInv, UnitsInv, RunTypeOK, UpInv, command = "up", at # 0, UpKeeping,
         NEW i \in 1 .. at, NEW y \in UpItems(UpPools[i]), Stands(UpPools[i], y)
  PROVE  Stands(UpPools[i], y)'
<1>n. at \in 1 .. 10 /\ i \in 1 .. 10 /\ i <= at
  BY UpPool
<1>v. \A v \in ClassBases \union Deployments : v \in Space /\ Upstream(v) \in Space
  BY ClassBaseIs, DeploymentIs, RootIs
<1>c. \A v \in ClassBases : v \notin Deployments
  BY Kinds
<1> USE DEF UpKeeping
<1>1. CASE i = 1
  <2>1. UpPools[i] = "home"
    BY <1>1 DEF UpPools
  <2> QED BY <2>1 DEF Stands
<1>2. CASE i = 2
  <2>1. UpPools[i] = "clusters"
    BY <1>2 DEF UpPools
  <2> QED BY <2>1 DEF Stands
<1>3. CASE i = 3
  <2>0. UpPools[i] = "bases"
    BY <1>3 DEF UpPools
  <2> DEFINE c == y[2]
  <2>1. y \in Roots /\ c \in Component /\ y = Root(c)
    BY <2>0, RootIs DEF UpItems
  <2>2. /\ {y, Entity(c)} \union ClassBasesOf(c) \subseteq known
        /\ Hashed(c)
        /\ \A b \in ClassBasesOf(c) : Cloned(b) /\ org.mark[b] = 1
    BY <2>0 DEF Stands
  <2>3. Hashed(c)' /\ Has(Root(c))' = Has(Root(c))
    BY <2>1, <2>2
  <2>4. ASSUME NEW b \in ClassBasesOf(c) PROVE Cloned(b)' /\ org'.mark[b] = 1
    <3>1. b \in ClassBases /\ Upstream(b) = Root(c) /\ b \in Space
      BY <1>v, <2>1, OfComponent
    <3>2. org.owner[b] # "none"
      BY <2>2, <3>1 DEF UpInv
    <3>3. org'.owner[b] = org.owner[b]
      BY <3>1, <3>2
    <3>4. Has(b)' = Has(b) \/ Has(b)' = Has(b) \union Has(Root(c))
      BY <3>1
    <3>5. org.mark[b] = 1 /\ (Ours(b) => Has(b) = Has(Upstream(b)))
      BY <2>2 DEF Cloned
    <3>6. Ours(b) => Has(b) = Has(Root(c))
      BY <3>1, <3>5
    <3>7. Ours(b)' => Has(b)' = Has(Root(c))'
      BY <2>3, <3>3, <3>4, <3>6 DEF Ours
    <3> QED BY <3>1, <3>5, <3>7 DEF Cloned
  <2> QED BY <2>0, <2>2, <2>3, <2>4 DEF Stands
<1>4. CASE i = 4
  <2>0. UpPools[i] = "protections" /\ at # 3
    BY <1>4, <1>n DEF UpPools
  <2>1. y \in ClassBases /\ Bears(y, "protection")
    BY <2>0 DEF UpItems, Stands
  <2> QED BY <2>0, <2>1 DEF Stands
<1>5. CASE i = 5
  <2>1. UpPools[i] = "spaces" /\ y \in Deployments
    BY <1>5 DEF UpPools, UpItems
  <2>2. Upstream(y) \in Space
    BY <2>1, DeploymentIs, ClassBaseIs
  <2>3. org.owner[Upstream(y)] = "other" => org'.owner[Upstream(y)] = "other"
    BY <2>2
  <2> QED BY <2>1, <2>3 DEF Stands
<1>6. CASE i = 6
  <2>0. UpPools[i] = "patches" /\ at > 5
    BY <1>6, <1>n DEF UpPools
  <2>1. Turned(y[2])' = Turned(y[2])
    BY <1>v, <2>0 DEF Turned, Targeted, Ours
  <2> QED BY <2>0, <2>1 DEF Stands
<1>7. CASE i = 7
  <2>0. UpPools[i] = "units" /\ at > 6
    BY <1>7, <1>n DEF UpPools
  <2>1. y \in Deployments /\ y \in Space /\ Upstream(y) \in ClassBases /\ y \notin ClassBases
    BY <1>c, <2>0, DeploymentIs DEF UpItems
  <2>2. Cloneable(y)' = Cloneable(y) /\ Ours(y)' = Ours(y)
    BY <1>n, <2>0, <2>1 DEF Cloneable, Ours
  <2>3. Has(Upstream(y))' = Has(Upstream(y))
    BY <2>0, <2>1
  <2>4. Has(y)' = Has(y) \/ Has(y)' = Has(y) \union Has(Upstream(y))
    BY <2>1
  <2>5. Cloneable(y) => (Ours(y) => Has(y) = Has(Upstream(y)))
    BY <2>0 DEF Stands, Cloned
  <2>6. Cloneable(y)' => (Ours(y)' => Has(y)' = Has(Upstream(y))')
    BY <2>2, <2>3, <2>4, <2>5
  <2> QED BY <2>0, <2>6 DEF Stands, Cloned
<1>8. CASE i = 8
  <2>0. UpPools[i] = "unitLabels" /\ at > 7
    BY <1>8, <1>n DEF UpPools
  <2>1. \A d \in Deployments : Bears(d, "labels") => Bears(d, "labels")'
    BY <1>c, <2>0
  <2>2. org'.patched = org.patched
    BY <1>n, <2>0
  <2>3. \A d \in Targeted(y[2]) \intersect org.patched : d \in Deployments /\ Bears(d, "labels")
    BY <2>0 DEF Stands, Targeted
  <2>4. \A d \in Targeted(y[2]) \intersect org'.patched : Bears(d, "labels")'
    BY <2>1, <2>2, <2>3
  <2> QED BY <2>0, <2>4 DEF Stands
<1>9. CASE i = 9
  <2>0. UpPools[i] = "variation"
    BY <1>9 DEF UpPools
  <2>1. PICK c \in Component : y = Root(c) /\ y[2] = c
    BY <2>0, OfComponent DEF UpItems
  <2> QED BY <2>0, <2>1 DEF Stands
<1>10. CASE i = 10
  <2>0. UpPools[i] = "shields" /\ at > 7
    BY <1>10, <1>n DEF UpPools
  <2>1. y \in Deployments /\ y \notin ClassBases
    BY <1>c, <2>0 DEF UpItems
  <2> QED BY <2>0, <2>1 DEF Stands
<1> QED BY <1>n, <1>1, <1>2, <1>3, <1>4, <1>5, <1>6, <1>7, <1>8, <1>9, <1>10

-----------------------------------------------------------------------------
(* A step of up keeps what the run has made *)

\* An item has been done, or given up and the run has failed.
Settles ==
  /\ todo' \subseteq todo /\ at' = at /\ command' = command
  /\ failed' \/ (~failed /\ \A y \in todo \ todo' : Stands(pool, y)')

LEMMA KnowsKeeps ==
  ASSUME OrgTypeOK, OwnInv, RunTypeOK, UpInv, command = "up", at # 0, UpEffect, UpKeeping
  PROVE  /\ \A s \in known' \intersect Space : org'.owner[s] # "none"
         /\ \A s \in known' \intersect ({Home} \union ClusterSpaces \union Roots) : Ours(s)'
         /\ \A c \in Component : Entity(c) \in known' => org'.component[c] = "ours"
         /\ known' \subseteq Space \union Entities
<1> DEFINE Goal == /\ \A s \in known' \intersect Space : org'.owner[s] # "none"
                   /\ \A s \in known' \intersect ({Home} \union ClusterSpaces \union Roots) : Ours(s)'
                   /\ \A c \in Component : Entity(c) \in known' => org'.component[c] = "ours"
                   /\ known' \subseteq Space \union Entities
<1>e. \A c \in Component : Entity(c) \notin Space
  BY EntityIs
<1>s. {Home} \union ClusterSpaces \union Roots \subseteq Space
  BY Kinds
<1>0. /\ \A s \in known \intersect Space : org.owner[s] # "none" /\ org'.owner[s] = org.owner[s]
      /\ \A s \in known \intersect ({Home} \union ClusterSpaces \union Roots) : Ours(s)'
      /\ \A c \in Component : Entity(c) \in known => org'.component[c] = "ours"
      /\ known \subseteq Space \union Entities
  BY <1>s DEF UpInv, UpKeeping, Ours, RunTypeOK
<1>1. CASE known' = known
  BY <1>0, <1>1
<1>2. ASSUME NEW s \in Space, Takes(s) PROVE Goal
  <2>1. known' = known \union {s}
    BY <1>2, TakesFields
  <2>2. \A c \in Component : Entity(c) \in known' => Entity(c) \in known
    BY <1>e, <2>1
  <2>3. org'.owner[s] # "none"
    <3>1. CASE org.owner[s] # "none"
      BY <1>2, <3>1, TakesFields
    <3>2. CASE org.owner[s] = "none"
      <4>1. org'.owner[s] = IF s \in ClassBases \union Deployments THEN org.owner[Upstream(s)] ELSE "ours"
        BY <1>2, <3>2, TakesFields
      <4>2. CASE s \in ClassBases
        <5>1. Upstream(s) \in known
          BY <1>2, <4>2, Kinds DEF Takes
        <5>2. Upstream(s) \in Space
          BY <4>2, ClassBaseIs, RootIs
        <5> QED BY <1>0, <4>1, <4>2, <5>1, <5>2
      <4>3. CASE s \in Deployments
        <5>1. at = 5
          BY <1>2, <4>3, Kinds DEF Takes
        <5>2. Upstream(s) \in ClassBasesOf(s[2]) /\ s[2] \in Component
          BY <4>3, DeploymentIs
        <5>3. org.owner[Upstream(s)] # "none"
          BY <5>1, <5>2, Past
        <5> QED BY <4>1, <4>3, <5>3
      <4>4. CASE s \notin ClassBases \union Deployments
        BY <4>1, <4>4
      <4> QED BY <4>2, <4>3, <4>4
    <3> QED BY <3>1, <3>2
  <2>4. s \in {Home} \union ClusterSpaces \union Roots => Ours(s)'
    <3>1. ASSUME s \in {Home} \union ClusterSpaces \union Roots PROVE Ours(s)'
      <4>1. s \notin ClassBases \union Deployments
        BY <3>1, Kinds
      <4>2. org.owner[s] # "other"
        BY <1>2, <4>1 DEF Takes
      <4>3. CASE org.owner[s] = "none"
        BY <1>2, <4>1, <4>3, TakesFields DEF Ours
      <4>4. CASE org.owner[s] # "none"
        <5>1. org.owner[s] = "ours"
          BY <4>2, <4>4 DEF OrgTypeOK
        <5> QED BY <1>2, <5>1, TakesFields DEF Ours
      <4> QED BY <4>3, <4>4
    <3> QED BY <3>1
  <2> QED BY <1>0, <2>1, <2>2, <2>3, <2>4
<1>3. ASSUME NEW c \in Component, Adopts(c) PROVE Goal
  <2>1. org'.component = [org.component EXCEPT ![c] = "ours"] /\ org'.owner = org.owner
        /\ known' = known \union {Entity(c)}
    BY <1>3, AdoptsFields
  <2>2. \A s \in Space : s \in known' => s \in known
    BY <1>e, <2>1
  <2>3. ASSUME NEW d \in Component, Entity(d) \in known' PROVE org'.component[d] = "ours"
    <3>1. Entity(d) \in known \/ d = c
      BY <2>1, <2>3, EntityIs
    <3> QED BY <1>0, <2>1, <3>1 DEF OrgTypeOK
  <2> QED BY <1>0, <1>s, <2>1, <2>2, <2>3 DEF Entities
<1>4. \/ known' = known \/ (\E s \in Space : Takes(s)) \/ (\E c \in Component : Adopts(c))
  BY DEF UpEffect, Connects, Fills, Clones, MarksClass, MarksRoot, Stamps, Turns
<1> QED BY <1>1, <1>2, <1>3, <1>4

LEMMA UpInvKeeps ==
  ASSUME OrgTypeOK, OwnInv, UnitsInv, RunTypeOK, UpInv, command = "up", at # 0, UpEffect, UpKeeping, Settles
  PROVE  UpInv'
<1>n. at \in 1 .. 10 /\ at' = at /\ pool' = pool /\ pool = UpPools[at] /\ UpPools' = UpPools
  <2>1. at' = at /\ command' = command
    BY DEF Settles
  <2> QED BY <2>1, UpPool DEF pool, Pools, UpPools
<1>1. ASSUME NEW i \in 1 .. at PROVE UpItems(UpPools[i])' = UpItems(UpPools[i])
  <2>1. CASE at \in {4, 6, 7, 8, 9, 10}
    <3>1. known' = known
      BY <2>1 DEF UpKeeping
    <3> QED BY <1>n, <3>1 DEF UpItems
  <2>2. CASE at <= 3
    <3>1. UpPools[i] \in {"home", "clusters", "bases"}
      BY <1>n, <2>2 DEF UpPools
    <3> QED BY <1>n, <3>1 DEF UpItems
  <2>3. CASE at = 5 /\ i # 4
    <3>1. UpPools[i] \in {"home", "clusters", "bases", "spaces"}
      BY <1>n, <2>3 DEF UpPools
    <3> QED BY <1>n, <3>1 DEF UpItems
  <2>4. CASE at = 5 /\ i = 4
    <3>1. UpPools[i] = "protections"
      BY <2>4 DEF UpPools
    <3>2. ClassBases \subseteq known
      BY <2>4, Past, ClassBaseIs
    <3>3. ClassBases \subseteq known'
      BY <3>2 DEF UpKeeping
    <3> QED BY <1>n, <3>1, <3>2, <3>3 DEF UpItems
  <2> QED BY <1>n, <2>1, <2>2, <2>3, <2>4
<1>2. Behind'
  <2> SUFFICES ASSUME NEW i \in 1 .. at - 1, NEW x \in UpItems(UpPools[i])
               PROVE  Stands(UpPools[i], x)'
    BY <1>n, <1>1 DEF Behind
  <2>1. Stands(UpPools[i], x)
    BY DEF UpInv, Behind
  <2>2. i \in 1 .. at
    BY <1>n
  <2> QED BY <2>1, <2>2, StandsStill
<1>3. InHand'
  <2> SUFFICES ASSUME ~failed', NEW x \in UpItems(pool)' \ todo' PROVE Stands(pool, x)'
    BY DEF InHand
  <2>1. UpItems(pool)' = UpItems(pool)
    <3>1. at \in 1 .. at
      BY <1>n
    <3> QED BY <1>1, <1>n, <3>1
  <2>2. CASE x \in todo
    BY <2>2 DEF Settles
  <2>3. CASE x \notin todo
    <3>1. Stands(UpPools[at], x)
      BY <1>n, <2>1, <2>3 DEF UpInv, InHand, Settles
    <3>2. Stands(UpPools[at], x)'
      BY <1>n, <2>1, <3>1, StandsStill
    <3> QED BY <1>n, <3>2
  <2> QED BY <2>2, <2>3
<1>4. todo' \subseteq UpItems(pool)'
  <2>1. UpItems(pool)' = UpItems(pool)
    <3>1. at \in 1 .. at
      BY <1>n
    <3> QED BY <1>1, <1>n, <3>1
  <2> QED BY <2>1 DEF Settles, UpInv
<1>5. ASSUME pool = "units", NEW x \in todo' PROVE Cloneable(x)'
  <2>1. at = 7
    BY <1>5, UpPool
  <2>2. x \in todo /\ Cloneable(x) /\ x \in Deployments
    BY <1>5 DEF Settles, UpInv, UpItems
  <2>3. x \in Space
    BY <2>2, DeploymentIs
  <2> QED BY <2>1, <2>2, <2>3 DEF UpKeeping, Cloneable, Ours
<1> QED BY <1>n, <1>2, <1>3, <1>4, <1>5, KnowsKeeps DEF UpInv

-----------------------------------------------------------------------------
(* A call of down *)

\* The pool in hand of a run of down.
LEMMA DownPool ==
  ASSUME RunTypeOK, command = "down", at # 0
  PROVE  /\ at \in 1 .. 6 /\ pool = DownPools[at] /\ Len(Pools) = 6 /\ Pools = DownPools
         /\ DownPools[1] = "deployments" /\ DownPools[2] = "classBases" /\ DownPools[3] = "rootBases"
         /\ DownPools[4] = "components" /\ DownPools[5] = "clusterSpaces" /\ DownPools[6] = "homes"
<1>2. pool = DownPools[at] /\ Len(Pools) = 6 /\ Pools = DownPools
  BY PoolCount DEF pool, Pools
<1>1. at \in 1 .. 6
  BY <1>2 DEF RunTypeOK
<1> QED BY <1>1, <1>2 DEF DownPools

DownNames == {"deployments", "classBases", "rootBases", "components", "clusterSpaces", "homes"}

Deletes(s) ==
  /\ s \in Space \ {Definition} /\ Ours(s) /\ s[1] # "component" /\ ~InUse(s)
  /\ DeleteSpace(s) /\ UNCHANGED known

Disowns(c) ==
  /\ c \in Component /\ org' = [org EXCEPT !.component[c] = "none"] /\ UNCHANGED known
  /\ org.component[c] = "ours"

LEMMA DownItemIs ==
  ASSUME OrgTypeOK, OwnInv, RunTypeOK, DownInv, command = "down", at # 0, NEW x \in todo
  PROVE  \/ x \in Space \ {Definition} /\ Ours(x) /\ x[1] # "component"
         \/ \E c \in Component : x = Entity(c) /\ x[1] = "component" /\ x[2] = c /\ org.component[c] = "ours"
<1>1. x \in DownItems(pool)
  BY DEF DownInv
<1>2. pool \in DownNames
  BY DownPool DEF DownNames
<1>3. CASE pool = "components"
  BY <1>1, <1>3, EntityIs DEF DownItems
<1>4. CASE pool # "components"
  <2>1. x \in Space \ {Definition} /\ Ours(x)
    BY <1>1, <1>2, <1>4, Kinds DEF DownNames, DownItems, HalfMade, OwnInv, OrgTypeOK
  <2>2. \A s \in Space : s[1] # "component"
    BY RootIs, ClassBaseIs, DeploymentIs, ClusterIs, HomeIs DEF Space, Variants
  <2> QED BY <2>1, <2>2
<1> QED BY <1>3, <1>4

LEMMA DownCallEffect ==
  ASSUME OrgTypeOK, OwnInv, RunTypeOK, DownInv, command = "down", at # 0, NEW x \in todo, DownCall(x)
  PROVE  \/ Deletes(x)
         \/ \E c \in Component : x = Entity(c) /\ Disowns(c)
BY DownItemIs DEF DownCall, Deletes, Disowns

LEMMA Excepted ==
  ASSUME NEW S, NEW T, NEW f \in [S -> T], NEW s, NEW v \in T
  PROVE  [f EXCEPT ![s] = v] \in [S -> T]
OBVIOUS

LEMMA DeletesFields ==
  ASSUME OrgTypeOK, NEW s, Deletes(s)
  PROVE  /\ org'.owner[s] = "none" /\ \A v \in Space : v # s => org'.owner[v] = org.owner[v]
         /\ org'.mark[s] = 0 /\ \A v \in Space : v # s => org'.mark[v] = org.mark[v]
         /\ org'.component = org.component
         /\ org'.patched = org.patched \ {s}
         /\ org'.target = {k \in org.target : ClusterSpace(k) # s}
         /\ \A v \in Space : v # s => org'.layers[v] = org.layers[v] /\ org'.from[v] = org.from[v]
         /\ \A u \in Unit : org'.layers[s][u] = {}
         /\ known' = known /\ OrgTypeOK'
<1>1. /\ s \in Space /\ known' = known
      /\ org' = [org EXCEPT
           !.owner[s] = "none", !.mark[s] = 0,
           !.layers[s] = [u \in Unit |-> {}], !.from[s] = [u \in Unit |-> {}],
           !.patched = @ \ {s},
           !.target = {k \in @ : ClusterSpace(k) # s}]
  BY DEF Deletes, DeleteSpace
<1>2. /\ org'.owner = [org.owner EXCEPT ![s] = "none"] /\ org'.mark = [org.mark EXCEPT ![s] = 0]
      /\ org'.layers = [org.layers EXCEPT ![s] = [u \in Unit |-> {}]]
      /\ org'.from = [org.from EXCEPT ![s] = [u \in Unit |-> {}]]
      /\ org'.patched = org.patched \ {s}
      /\ org'.target = {k \in org.target : ClusterSpace(k) # s}
      /\ org'.component = org.component
  BY <1>1 DEF OrgTypeOK
<1>3. /\ org'.owner[s] = "none" /\ \A v \in Space : v # s => org'.owner[v] = org.owner[v]
      /\ org'.mark[s] = 0 /\ \A v \in Space : v # s => org'.mark[v] = org.mark[v]
  BY <1>1, <1>2 DEF OrgTypeOK
<1>4. /\ \A v \in Space : v # s => org'.layers[v] = org.layers[v] /\ org'.from[v] = org.from[v]
      /\ \A u \in Unit : org'.layers[s][u] = {}
  BY <1>1, <1>2 DEF OrgTypeOK
<1>5. org' \in [owner: [Space -> {"none", "ours", "other"}],
             component: [Component -> {"none", "ours", "orphan", "claimed", "other"}],
             target: SUBSET Cluster, patched: SUBSET Deployments,
             layers: [Space -> [Unit -> SUBSET Layer]],
             from: [Space -> [Unit -> SUBSET Revision]],
             mark: [Space -> Nat]]
  <2>1. [u \in Unit |-> {}] \in [Unit -> SUBSET Layer] /\ [u \in Unit |-> {}] \in [Unit -> SUBSET Revision]
    OBVIOUS
  <2>0. /\ org.layers \in [Space -> [Unit -> SUBSET Layer]] /\ org.from \in [Space -> [Unit -> SUBSET Revision]]
        /\ org.owner \in [Space -> {"none", "ours", "other"}] /\ org.mark \in [Space -> Nat]
    BY DEF OrgTypeOK
  <2>2. org'.layers \in [Space -> [Unit -> SUBSET Layer]]
    BY <1>2, <2>0, <2>1, Excepted
  <2>3. org'.from \in [Space -> [Unit -> SUBSET Revision]]
    BY <1>2, <2>0, <2>1, Excepted
  <2>4. org'.owner \in [Space -> {"none", "ours", "other"}] /\ org'.mark \in [Space -> Nat]
    <3>1. "none" \in {"none", "ours", "other"} /\ 0 \in Nat
      OBVIOUS
    <3> QED BY <1>2, <2>0, <3>1, Excepted
  <2>5. org'.target \in SUBSET Cluster /\ org'.patched \in SUBSET Deployments
        /\ org'.component \in [Component -> {"none", "ours", "orphan", "claimed", "other"}]
    BY <1>2 DEF OrgTypeOK
  <2>6. org' = [owner |-> org'.owner, component |-> org'.component, target |-> org'.target,
                patched |-> org'.patched, layers |-> org'.layers, from |-> org'.from, mark |-> org'.mark]
    BY <1>1 DEF OrgTypeOK
  <2> QED BY <2>2, <2>3, <2>4, <2>5, <2>6
<1>6. \A v \in Space : \A u \in Has(v)' : "unit" \in org'.layers[v][u]
  BY <1>4 DEF OrgTypeOK, Has
<1> QED BY <1>1, <1>2, <1>3, <1>4, <1>5, <1>6 DEF OrgTypeOK

LEMMA DisownsFields ==
  ASSUME OrgTypeOK, NEW c, Disowns(c)
  PROVE  /\ org'.component = [org.component EXCEPT ![c] = "none"]
         /\ org'.target = org.target /\ org'.owner = org.owner /\ org'.patched = org.patched
         /\ org'.layers = org.layers /\ org'.from = org.from /\ org'.mark = org.mark
         /\ known' = known /\ OrgTypeOK'
BY DEF Disowns, OrgTypeOK, Has

LEMMA DisownsOrgInv ==
  ASSUME OrgInv, NEW c, Disowns(c)
  PROVE  OrgInv'
<1>1. /\ org'.target = org.target /\ org'.owner = org.owner /\ org'.patched = org.patched
      /\ org'.layers = org.layers /\ org'.from = org.from /\ org'.mark = org.mark
      /\ OrgTypeOK'
  BY DisownsFields DEF OrgInv
<1> QED BY <1>1 DEF OrgInv, OwnInv, UnitsInv, RootUnits, ClassUnits, DeploymentUnits, Has, Bears, Ours

LEMMA DeletesOrgInv ==
  ASSUME OrgInv, NEW s, Deletes(s)
  PROVE  OrgInv'
<1>0. OrgTypeOK /\ OwnInv /\ UnitsInv /\ s \in Space /\ s # Definition /\ Ours(s)
  BY DEF OrgInv, Deletes
<1>1. /\ org'.owner[s] = "none" /\ \A v \in Space : v # s => org'.owner[v] = org.owner[v]
      /\ org'.mark[s] = 0 /\ \A v \in Space : v # s => org'.mark[v] = org.mark[v]
      /\ org'.patched = org.patched \ {s}
      /\ org'.target = {k \in org.target : ClusterSpace(k) # s}
      /\ \A v \in Space : v # s => org'.layers[v] = org.layers[v] /\ org'.from[v] = org.from[v]
      /\ \A u \in Unit : org'.layers[s][u] = {}
      /\ OrgTypeOK'
  BY <1>0, DeletesFields
<1>r. \A c \in Component : Root(c) \in Space
  BY OfComponent, RootIs
<1>v. \A v \in ClassBases \union Deployments :
        /\ v \in Space /\ Upstream(v) \in Space /\ Upstream(v) \in Roots \union ClassBases
  BY ClassBaseIs, DeploymentIs, RootIs
<1>2. /\ Has(s)' = {} /\ \A v \in Space : v # s => Has(v)' = Has(v) /\ \A l : Bears(v, l) => Bears(v, l)'
  BY <1>1 DEF Has, Bears
<1>3. ~Ours(s)' /\ \A v \in Space : v # s => (Ours(v)' <=> Ours(v))
  BY <1>1 DEF Ours
<1>4. ASSUME NEW v \in ClassBases \union Deployments, Upstream(v) = s, Ours(v)
      PROVE  Has(v) = {}
  <2>1. s[1] \in {"root", "class"}
    BY <1>v, <1>4, RootIs, ClassBaseIs
  <2>2. ~InUse(s)
    BY DEF Deletes
  <2> QED BY <1>4, <2>1, <2>2 DEF InUse
<1>5. OwnInv'
  <2>1. Ours(Definition)'
    BY <1>0, <1>3, HomeIs DEF OwnInv
  <2>2. \A v \in Space : org'.owner[v] = "none" => Has(v)' = {} /\ org'.mark[v] = 0
    BY <1>0, <1>1, <1>2 DEF OwnInv
  <2>3. \A k \in org'.target : Ours(ClusterSpace(k))'
    <3>1. \A k \in org'.target : k \in Cluster /\ ClusterSpace(k) \in Space
      BY <1>0, <1>1 DEF OrgTypeOK, ClusterSpaces, Space
    <3> QED BY <1>0, <1>1, <1>3, <3>1 DEF OwnInv
  <2>4. \A d \in org'.patched : Ours(d)'
    <3>1. \A d \in org'.patched : d \in Space
      BY <1>0, <1>1, <1>v DEF OrgTypeOK
    <3> QED BY <1>0, <1>1, <1>3, <3>1 DEF OwnInv
  <2>5. \A v \in ClassBases \union Deployments : Ours(v)' => org'.owner[Upstream(v)] # "other"
    BY <1>0, <1>1, <1>3, <1>v DEF OwnInv
  <2> QED BY <2>1, <2>2, <2>3, <2>4, <2>5 DEF OwnInv
<1>6. RootUnits'
  <2> SUFFICES ASSUME NEW c \in Component, NEW u \in Unit
               PROVE  /\ org'.layers[Root(c)][u] \subseteq {"unit", "data", "hash"}
                      /\ "hash" \in org'.layers[Root(c)][u] => "data" \in org'.layers[Root(c)][u]
                      /\ org'.owner[Root(c)] # "other" /\ u \in Has(Root(c))' => u \in Units[c]
    BY DEF RootUnits
  <2>1. CASE Root(c) = s
    BY <1>1, <1>2, <2>1
  <2>2. CASE Root(c) # s
    <3>1. org'.layers[Root(c)] = org.layers[Root(c)] /\ org'.owner[Root(c)] = org.owner[Root(c)] /\ Has(Root(c))' = Has(Root(c))
      BY <1>r, <1>1, <1>2, <2>2
    <3> QED BY <1>0, <3>1 DEF UnitsInv, RootUnits
  <2> QED BY <2>1, <2>2
<1>7. ClassUnits'
  <2> SUFFICES ASSUME NEW b \in ClassBases, Ours(b)'
               PROVE /\ \A u \in Has(b)' : /\ org'.from[b][u] = {"data"} /\ "data" \in org'.layers[b][u]
                                           /\ "hash" \in org'.layers[Upstream(b)][u]
                     /\ org'.mark[b] # 0 => org'.mark[b] = 1 /\ Has(b)' = Units[b[2]] /\ Bears(b, "policy")'
    BY DEF ClassUnits
  <2>1. b # s /\ Ours(b) /\ b \in Space /\ Upstream(b) \in Space
    BY <1>3, <1>v
  <2>2. /\ org'.from[b] = org.from[b] /\ org'.layers[b] = org.layers[b] /\ org'.mark[b] = org.mark[b]
        /\ Has(b)' = Has(b) /\ (Bears(b, "policy") => Bears(b, "policy")')
    BY <1>1, <1>2, <2>1
  <2>3. Has(b) # {} => org'.layers[Upstream(b)] = org.layers[Upstream(b)]
    BY <1>1, <1>4, <2>1
  <2> QED BY <1>0, <2>1, <2>2, <2>3 DEF UnitsInv, ClassUnits
<1>8. DeploymentUnits'
  <2> SUFFICES ASSUME NEW d \in Deployments, Ours(d)', NEW u \in Has(d)'
               PROVE  /\ d \in org'.patched /\ org'.from[d][u] = Revision
                      /\ {"data", "policy"} \subseteq org'.layers[d][u]
                      /\ Revision \subseteq org'.layers[Upstream(d)][u]
    BY DEF DeploymentUnits
  <2>1. d # s /\ Ours(d) /\ d \in Space /\ Upstream(d) \in Space
    BY <1>3, <1>v
  <2>2. org'.from[d] = org.from[d] /\ org'.layers[d] = org.layers[d] /\ Has(d)' = Has(d)
    BY <1>1, <1>2, <2>1
  <2>3. org'.layers[Upstream(d)] = org.layers[Upstream(d)]
    BY <1>1, <1>4, <2>1, <2>2
  <2> QED BY <1>0, <1>1, <2>1, <2>2, <2>3 DEF UnitsInv, DeploymentUnits
<1> QED BY <1>1, <1>5, <1>6, <1>7, <1>8 DEF OrgInv, UnitsInv

\* What has been deleted is no item any more, and nothing else is.
LEMMA DownItemsLeft ==
  ASSUME OrgTypeOK, NEW x, Deletes(x) \/ \E c \in Component : x = Entity(c) /\ Disowns(c), NEW p \in DownNames
  PROVE  DownItems(p)' = DownItems(p) \ {x}
<1>1. CASE Deletes(x)
  <2>1. /\ x \in Space /\ ~Ours(x)' /\ \A v \in Space : v # x => (Ours(v)' <=> Ours(v))
        /\ org'.patched = org.patched \ {x} /\ org'.component = org.component
    BY <1>1, DeletesFields DEF Ours, Deletes
  <2>2. \A c \in Component : Entity(c) # x
    BY <2>1, EntityIs
  <2>3. HalfMade \subseteq Space /\ Roots \subseteq Space /\ ClusterSpaces \subseteq Space
    BY Kinds DEF HalfMade
  <2>4. CASE p = "deployments"
    BY <2>1, <2>4 DEF DownItems
  <2>5. CASE p = "classBases"
    BY <2>1, <2>3, <2>5 DEF DownItems
  <2>6. CASE p = "rootBases"
    BY <2>1, <2>3, <2>6 DEF DownItems
  <2>7. CASE p = "components"
    BY <2>1, <2>2, <2>7 DEF DownItems
  <2>8. CASE p = "clusterSpaces"
    BY <2>1, <2>3, <2>8 DEF DownItems
  <2>9. CASE p = "homes"
    BY <2>1, <2>9 DEF DownItems
  <2> QED BY <2>4, <2>5, <2>6, <2>7, <2>8, <2>9 DEF DownNames
<1>2. ASSUME NEW c \in Component, x = Entity(c), Disowns(c) PROVE DownItems(p)' = DownItems(p) \ {x}
  <2>1. /\ org'.component = [org.component EXCEPT ![c] = "none"]
        /\ org'.owner = org.owner /\ org'.patched = org.patched
    BY <1>2, DisownsFields
  <2>2. x \notin Space
    BY <1>2, EntityIs
  <2>3. HalfMade \subseteq Space /\ Roots \subseteq Space /\ ClusterSpaces \subseteq Space /\ org.patched \subseteq Space
    BY Kinds DEF HalfMade, OrgTypeOK
  <2>4. CASE p = "components"
    <3>1. \A e \in Component : Entity(e) = x => e = c
      BY <1>2, EntityIs
    <3>2. \A e \in Component : org'.component[e] = "ours" <=> (org.component[e] = "ours" /\ e # c)
      BY <2>1 DEF OrgTypeOK
    <3> QED BY <1>2, <2>4, <3>1, <3>2 DEF DownItems
  <2>5. CASE p # "components"
    <3>1. DownItems(p)' = DownItems(p)
      BY <2>1, <2>5 DEF DownItems, DownNames, Ours
    <3>2. x \notin DownItems(p)
      BY <2>2, <2>3, <2>5, HomeIs DEF DownItems, DownNames
    <3> QED BY <3>1, <3>2
  <2> QED BY <2>4, <2>5
<1> QED BY <1>1, <1>2

-----------------------------------------------------------------------------
(* The steps of a command *)

LEMMA SameOrg ==
  ASSUME org' = org
  PROVE  OrgTypeOK' = OrgTypeOK /\ OwnInv' = OwnInv /\ UnitsInv' = UnitsInv /\ OrgInv' = OrgInv /\ Theirs' = Theirs
<1>5. OrgTypeOK' = OrgTypeOK
  BY DEF OrgTypeOK, Has
<1>6. OwnInv' = OwnInv
  BY DEF OwnInv, Ours, Has
<1>7. UnitsInv' = UnitsInv
  BY DEF UnitsInv, RootUnits, ClassUnits, DeploymentUnits, Ours, Has, Bears
<1> QED BY <1>5, <1>6, <1>7 DEF OrgInv, Theirs

LEMMA Unchanging ==
  ASSUME org' = org, known' = known
  PROVE  /\ \A p, x : Stands(p, x)' = Stands(p, x) /\ UpItems(p)' = UpItems(p)
         /\ \A p : DownItems(p)' = DownItems(p)
         /\ \A x : Cloneable(x)' = Cloneable(x)
         /\ OrgTypeOK' = OrgTypeOK /\ OwnInv' = OwnInv /\ UnitsInv' = UnitsInv /\ OrgInv' = OrgInv
         /\ Theirs' = Theirs
<1>1. /\ \A v : Ours(v)' = Ours(v) /\ Has(v)' = Has(v) /\ Cloned(v)' = Cloned(v) /\ Cloneable(v)' = Cloneable(v)
      /\ \A v, l : Bears(v, l)' = Bears(v, l)
      /\ \A c : Hashed(c)' = Hashed(c)
      /\ \A k : Turned(k)' = Turned(k)
  BY DEF Ours, Has, Cloned, Cloneable, Bears, Hashed, Turned
<1>2. \A p, x : Stands(p, x)' = Stands(p, x)
  BY <1>1 DEF Stands
<1>3. \A p : UpItems(p)' = UpItems(p)
  BY DEF UpItems
<1>4. \A p : DownItems(p)' = DownItems(p)
  BY DEF DownItems, Ours
<1> QED BY <1>1, <1>2, <1>3, <1>4, SameOrg

LEMMA UpWork ==
  ASSUME Inv, command = "up", at # 0, NEW x \in todo, NEW P, UpCall(x, P), Settles
  PROVE  OrgInv' /\ UpInv' /\ known' \subseteq Space \union Entities /\ (Theirs => Theirs')
<1>1. OrgTypeOK /\ OwnInv /\ UnitsInv /\ RunTypeOK /\ UpInv
  BY DEF Inv, OrgInv
<1>2. UpEffect
  BY <1>1, UpCallEffect
<1>3. UpKeeping
  BY <1>1, <1>2, UpKeeps
<1>4. OrgTypeOK'
  BY <1>1, <1>2, TakesFields, ConnectsFields, AdoptsFields, FillsFields, ClonesFields, StampsFields, TurnsFields,
     MarkFields, Numbers, OfComponent, RootIs, ClassBaseIs DEF UpEffect, MarksClass, MarksRoot
<1>5. Theirs => Theirs'
  BY <1>3 DEF UpKeeping, Theirs
<1> QED BY <1>1, <1>2, <1>3, <1>4, <1>5, UpOwnInv, UpUnitsInv, UpInvKeeps, KnowsKeeps DEF OrgInv

LEMMA DownWork ==
  ASSUME Inv, command = "down", at # 0, NEW x \in todo, DownCall(x),
         at' = at, command' = command, todo' = todo \ {x}, ~failed' => ~failed
  PROVE  OrgInv' /\ DownInv' /\ known' = known
<1>1. OrgTypeOK /\ OwnInv /\ RunTypeOK /\ DownInv
  BY DEF Inv, OrgInv
<1>2. Deletes(x) \/ \E c \in Component : x = Entity(c) /\ Disowns(c)
  BY <1>1, DownCallEffect
<1>3. \A p \in DownNames : DownItems(p)' = DownItems(p) \ {x}
  BY <1>1, <1>2, DownItemsLeft
<1>4. OrgInv'
  BY <1>2, DeletesOrgInv, DisownsOrgInv DEF Inv
<1>5. /\ pool' = pool /\ pool \in DownNames /\ DownPools' = DownPools
      /\ \A i \in 1 .. at - 1 : DownPools[i] \in DownNames
  <2>1. pool' = pool
    BY DEF pool, Pools, UpPools, DownPools
  <2>2. at \in 1 .. 6 /\ pool = DownPools[at]
    BY <1>1, DownPool
  <2>3. \A i \in 1 .. 6 : DownPools[i] \in DownNames
    BY <1>1, DownPool DEF DownNames
  <2> QED BY <2>1, <2>2, <2>3 DEF DownPools
<1>6. DownInv'
  <2>1. todo' \subseteq DownItems(pool)' /\ (~failed' => DownItems(pool)' \subseteq todo')
    BY <1>1, <1>3, <1>5 DEF DownInv
  <2>2. \A i \in 1 .. at - 1 : DownItems(DownPools[i])' = {}
    BY <1>1, <1>3, <1>5 DEF DownInv
  <2> QED BY <1>5, <2>1, <2>2 DEF DownInv
<1>7. known' = known
  BY DEF DownCall
<1> QED BY <1>4, <1>6, <1>7

\* Something is skipped or given up.
LEMMA NoWork ==
  ASSUME Inv, at # 0, org' = org, known' = known, at' = at, command' = command,
         todo' \subseteq todo, failed'
  PROVE  OrgInv' /\ UpInv' /\ DownInv' /\ Theirs' = Theirs
<1>1. OrgInv' /\ Theirs' = Theirs
  BY Unchanging DEF Inv
<1>2. pool' = pool /\ UpPools' = UpPools /\ DownPools' = DownPools
  BY DEF pool, Pools, UpPools, DownPools
<1>3. UpInv'
  <2>1. Behind => Behind'
    <3> SUFFICES ASSUME Behind, NEW i \in 1 .. at - 1, NEW x \in UpItems(UpPools[i]) PROVE Stands(UpPools[i], x)'
      BY <1>2, Unchanging DEF Behind
    <3>1. Stands(UpPools[i], x)
      BY DEF Behind
    <3> QED BY <3>1, Unchanging
  <2>2. InHand'
    BY DEF InHand
  <2> QED BY <1>2, <2>1, <2>2, Unchanging DEF Inv, UpInv, Ours
<1>4. DownInv'
  BY <1>2, Unchanging DEF Inv, DownInv
<1> QED BY <1>1, <1>3, <1>4

\* What a run of down asks for first is what nothing refers to any more.
LEMMA NothingInUse ==
  ASSUME Inv, command = "down", at # 0, ~failed, NEW x \in todo
  PROVE  ~InUse(x)
<1>1. OrgTypeOK /\ OwnInv /\ UnitsInv /\ RunTypeOK /\ DownInv
  BY DEF Inv, OrgInv
<1>2. /\ at \in 1 .. 6 /\ pool = DownPools[at]
      /\ DownPools[1] = "deployments" /\ DownPools[2] = "classBases" /\ DownPools[3] = "rootBases"
      /\ DownPools[4] = "components" /\ DownPools[5] = "clusterSpaces" /\ DownPools[6] = "homes"
  BY <1>1, DownPool
<1>3. x \in DownItems(DownPools[at])
  BY <1>1, <1>2 DEF DownInv
<1>b. \A i \in 1 .. at - 1 : DownItems(DownPools[i]) = {}
  BY <1>1 DEF DownInv
<1>p. at > 1 => org.patched = {}
  <2>1. at > 1 => DownItems("deployments") = {}
    BY <1>2, <1>b
  <2> QED BY <2>1 DEF DownItems
<1>h. at > 2 => \A v \in ClassBases \union Deployments : ~Ours(v)
  <2>1. at > 2 => DownItems("classBases") = {}
    BY <1>2, <1>b
  <2> QED BY <2>1 DEF DownItems, HalfMade
<1>r. at > 3 => \A v \in Roots : ~Ours(v)
  <2>1. at > 3 => DownItems("rootBases") = {}
    BY <1>2, <1>b
  <2> QED BY <2>1 DEF DownItems
<1>d. ASSUME NEW d \in Deployments PROVE ~InUse(d)
  BY DeploymentIs DEF InUse
<1>4. CASE at = 1
  BY <1>1, <1>2, <1>3, <1>4, <1>d DEF DownItems, OrgTypeOK
<1>5. CASE at = 2
  <2>1. x \in ClassBases \union Deployments
    BY <1>2, <1>3, <1>5 DEF DownItems, HalfMade
  <2>2. ASSUME x \in ClassBases PROVE ~InUse(x)
    <3>1. x[1] = "class"
      BY <2>2, ClassBaseIs
    <3>2. \A v \in ClassBases : Upstream(v) # x
      BY <2>2, ClassBaseIs, Kinds
    <3>3. \A v \in Deployments : Ours(v) => Has(v) = {}
      BY <1>1, <1>5, <1>p DEF UnitsInv, DeploymentUnits
    <3> QED BY <3>1, <3>2, <3>3 DEF InUse
  <2> QED BY <1>d, <2>1, <2>2
<1>6. CASE at = 3
  <2>1. x[1] = "root"
    BY <1>2, <1>3, <1>6, RootIs DEF DownItems
  <2> QED BY <1>6, <1>h, <2>1 DEF InUse
<1>7. CASE at = 4
  <2>1. x[1] = "component" /\ x[2] \in Component
    BY <1>2, <1>3, <1>7, EntityIs DEF DownItems
  <2>2. \A v \in VariantsOf(x[2]) : v \in Roots \/ v \in ClassBases \union Deployments
    BY <2>1, OfComponent DEF VariantsOf
  <2> QED BY <1>7, <1>h, <1>r, <2>1, <2>2 DEF InUse
<1>8. CASE at = 5
  <2>1. x[1] = "cluster"
    BY <1>2, <1>3, <1>8, ClusterIs DEF DownItems
  <2> QED BY <1>8, <1>p, <2>1 DEF InUse
<1>9. CASE at = 6
  <2>1. x[1] = "home"
    BY <1>2, <1>3, <1>9, HomeIs DEF DownItems
  <2> QED BY <2>1 DEF InUse
<1> QED BY <1>2, <1>4, <1>5, <1>6, <1>7, <1>8, <1>9

LEMMA WorkInv ==
  ASSUME Inv, Work
  PROVE  Inv'
<1>0. /\ at' = at /\ command' = command /\ outcome' = outcome /\ cut' = cut /\ torn' = torn
      /\ runs' = runs /\ events' = events /\ Pools' = Pools
  BY DEF Work, Pools, UpPools, DownPools
<1>1. PICK x \in todo :
       \/ Call(x, Space) /\ todo' = (IF Done(x)' THEN todo \ {x} ELSE todo) /\ UNCHANGED failed
       \/ Refused(x) /\ todo' = todo \ {x} /\ failed' = TRUE /\ UNCHANGED <<org, known>>
  BY DEF Work
<1>2. at # 0 /\ RunTypeOK /\ PlaceInv /\ SlipInv /\ command \in {"up", "down"}
  BY DEF Inv, PlaceInv, RunTypeOK
<1>3. PlaceInv'
  BY <1>0, <1>2 DEF PlaceInv
<1>4. DownLeavesNothing'
  BY <1>0, <1>2 DEF DownLeavesNothing, Finished
<1>5. todo' \subseteq todo /\ failed' \in BOOLEAN
  BY <1>1, <1>2 DEF RunTypeOK
<1>t. known' \subseteq Space \union Entities => RunTypeOK'
  BY <1>0, <1>2, <1>5 DEF RunTypeOK
<1>6. CASE Call(x, Space) /\ todo' = (IF Done(x)' THEN todo \ {x} ELSE todo) /\ failed' = failed
  <2>1. CASE command = "up"
    <3>1. UpCall(x, Space)
      BY <1>6, <2>1 DEF Call
    <3>2. Done(x)' = Stands(pool, x)'
      BY <1>0, <2>1 DEF Done
    <3>3. Settles
      BY <1>0, <1>2, <1>6, <3>2 DEF Settles, RunTypeOK
    <3>4. OrgInv' /\ UpInv' /\ known' \subseteq Space \union Entities /\ (Theirs => Theirs')
      BY <1>2, <2>1, <3>1, <3>3, UpWork
    <3>5. DownInv'
      BY <1>0, <2>1 DEF DownInv
    <3>6. SlipInv'
      BY <1>0, <1>2, <1>6, <3>4 DEF SlipInv
    <3> QED BY <1>3, <1>4, <1>t, <3>4, <3>5, <3>6 DEF Inv
  <2>2. CASE command = "down"
    <3>1. DownCall(x)
      BY <1>6, <2>2 DEF Call
    <3>2. Gone(x)'
      <4>0. OrgTypeOK /\ OwnInv /\ DownInv
        BY DEF Inv, OrgInv
      <4>1. CASE Deletes(x)
        BY <4>0, <4>1, DeletesFields DEF Gone, Deletes, Ours
      <4>2. ASSUME NEW c \in Component, x = Entity(c), Disowns(c) PROVE Gone(x)'
        <5>1. x[1] = "component" /\ x[2] = c
          BY <4>2, EntityIs
        <5>2. org'.component[c] = "none"
          <6>1. org'.component = [org.component EXCEPT ![c] = "none"]
            BY <4>0, <4>2, DisownsFields
          <6>2. DOMAIN org.component = Component
            BY <4>0 DEF OrgTypeOK
          <6> QED BY <6>1, <6>2
        <5> QED BY <5>1, <5>2 DEF Gone
      <4> QED BY <1>2, <2>2, <3>1, <4>0, <4>1, <4>2, DownCallEffect
    <3>3. Done(x)' = Gone(x)'
      BY <1>0, <2>2 DEF Done
    <3>4. todo' = todo \ {x}
      BY <1>6, <3>2, <3>3
    <3>5. OrgInv' /\ DownInv' /\ known' = known
      BY <1>0, <1>2, <1>6, <2>2, <3>1, <3>4, DownWork
    <3>6. UpInv'
      BY <1>0, <2>2 DEF UpInv
    <3>7. SlipInv'
      BY <1>0, <1>2, <1>6, <2>2 DEF SlipInv
    <3>8. RunTypeOK'
      BY <1>2, <1>t, <3>5 DEF RunTypeOK
    <3> QED BY <1>3, <1>4, <3>5, <3>6, <3>7, <3>8 DEF Inv
  <2> QED BY <1>2, <2>1, <2>2
<1>7. CASE Refused(x) /\ todo' = todo \ {x} /\ failed' = TRUE /\ org' = org /\ known' = known
  <2>1. OrgInv' /\ UpInv' /\ DownInv' /\ Theirs' = Theirs
    BY <1>0, <1>2, <1>7, NoWork
  <2>2. RunTypeOK'
    BY <1>2, <1>7, <1>t DEF RunTypeOK
  <2>3. cut \/ (command = "up" /\ Theirs)
    <3>1. CASE command = "up"
      <4>1. UpRefused(x) /\ x \in UpItems(pool)
        BY <1>2, <1>7, <3>1 DEF Refused, Inv, UpInv
      <4>2. x \in Space
        BY <4>1, Kinds DEF UpRefused, UpItems
      <4>3. pool = "bases" => x[2] \in Component
        BY <4>1, RootIs DEF UpItems
      <4> QED BY <3>1, <4>1, <4>2, <4>3 DEF UpRefused, Theirs
    <3>2. CASE command = "down"
      <4>1. failed
        BY <1>2, <1>7, <3>2, NothingInUse DEF Refused
      <4> QED BY <1>2, <3>2, <4>1 DEF SlipInv
    <3> QED BY <1>2, <3>1, <3>2
  <2>4. SlipInv'
    BY <1>0, <2>1, <2>3 DEF SlipInv
  <2> QED BY <1>3, <1>4, <2>1, <2>2, <2>4 DEF Inv
<1> QED BY <1>1, <1>6, <1>7

LEMMA CallFailsInv ==
  ASSUME Inv, CallFails
  PROVE  Inv'
<1>0. /\ at' = at /\ command' = command /\ outcome' = outcome /\ cut' = TRUE /\ torn' = torn
      /\ runs' = runs /\ events' \in 0 .. MaxEvents /\ failed' = TRUE /\ Pools' = Pools
  BY DEF CallFails, Happens, Pools, UpPools, DownPools, Inv, RunTypeOK
<1>1. PICK x \in todo :
       /\ \/ UNCHANGED <<org, known>>
          \/ \E P \in SUBSET Reach(x) : Call(x, P)
       /\ \E S \in SUBSET After(x) : todo' = todo \ ({x} \union S)
  BY DEF CallFails
<1>2. at # 0 /\ RunTypeOK /\ PlaceInv /\ SlipInv /\ command \in {"up", "down"} /\ todo' \subseteq todo
  BY <1>1 DEF Inv, PlaceInv, RunTypeOK
<1>3. PlaceInv' /\ DownLeavesNothing' /\ SlipInv'
  BY <1>0, <1>2 DEF PlaceInv, DownLeavesNothing, Finished, SlipInv
<1>t. known' \subseteq Space \union Entities => RunTypeOK'
  BY <1>0, <1>2 DEF RunTypeOK
<1>4. CASE org' = org /\ known' = known
  <2>1. OrgInv' /\ UpInv' /\ DownInv'
    BY <1>0, <1>2, <1>4, NoWork
  <2> QED BY <1>2, <1>3, <1>4, <1>t, <2>1 DEF Inv, RunTypeOK
<1>5. ASSUME NEW P, Call(x, P) PROVE Inv'
  <2>1. CASE command = "up"
    <3>1. UpCall(x, P)
      BY <1>5, <2>1 DEF Call
    <3>2. Settles
      BY <1>0, <1>2 DEF Settles
    <3>3. OrgInv' /\ UpInv' /\ known' \subseteq Space \union Entities
      BY <1>2, <2>1, <3>1, <3>2, UpWork
    <3>4. DownInv'
      BY <1>0, <2>1 DEF DownInv
    <3> QED BY <1>3, <1>t, <3>3, <3>4 DEF Inv
  <2>2. CASE command = "down"
    <3>1. DownCall(x)
      BY <1>5, <2>2 DEF Call
    <3>2. pool \in DownNames
      BY <1>2, <2>2, DownPool DEF DownNames
    <3>3. After(x) = {}
      BY <2>2, <3>2 DEF After, DownNames
    <3>4. todo' = todo \ {x}
      BY <1>1, <3>3
    <3>5. OrgInv' /\ DownInv' /\ known' = known
      BY <1>0, <1>2, <2>2, <3>1, <3>4, DownWork
    <3>6. UpInv'
      BY <1>0, <2>2 DEF UpInv
    <3> QED BY <1>2, <1>3, <1>t, <3>5, <3>6 DEF Inv, RunTypeOK
  <2> QED BY <1>2, <2>1, <2>2
<1> QED BY <1>1, <1>4, <1>5

LEMMA StartInv ==
  ASSUME Inv, NEW cmd \in {"up", "down"}, Start(cmd)
  PROVE  Inv'
<1>0. /\ at' = 1 /\ command' = cmd /\ outcome' = "running" /\ cut' = FALSE /\ torn' = torn
      /\ runs' \in 0 .. MaxRuns /\ events' = events /\ failed' = FALSE /\ org' = org
      /\ known' = {s \in Space : Ours(s)} \union {Entity(c) : c \in {e \in Component : org.component[e] = "ours"}}
      /\ todo' = IF cmd = "down" THEN org.patched ELSE {Home} \ known'
  BY DEF Start, Inv, RunTypeOK
<1>1. OrgTypeOK /\ OwnInv /\ RunTypeOK
  BY DEF Inv, OrgInv
<1>2. org.patched \subseteq Space /\ Home \in Space /\ {Home} \union ClusterSpaces \union Roots \subseteq Space
  BY <1>1, Kinds DEF OrgTypeOK
<1>3. OrgInv'
  BY <1>0, SameOrg DEF Inv
<1>4. RunTypeOK'
  <2>1. Len(Pools)' \in {6, 10}
    BY PoolCount DEF Pools, UpPools, DownPools
  <2>2. known' \subseteq Space \union Entities
    BY <1>0 DEF Entities
  <2>3. todo' \subseteq Space \union Entities
    BY <1>0, <1>2
  <2>4. failed' \in BOOLEAN /\ cut' \in BOOLEAN
    BY <1>0
  <2>5. torn' \in BOOLEAN /\ events' \in 0 .. MaxEvents
    BY <1>0, <1>1 DEF RunTypeOK
  <2>6. at' \in 0 .. Len(Pools)'
    <3>1. Len(Pools)' = 6 \/ Len(Pools)' = 10
      BY <2>1
    <3>2. 1 \in 0 .. 6 /\ 1 \in 0 .. 10
      OBVIOUS
    <3> QED BY <1>0, <3>1, <3>2
  <2>7. {failed', cut', torn'} \subseteq BOOLEAN
    BY <2>4, <2>5
  <2> QED BY <1>0, <2>2, <2>3, <2>5, <2>6, <2>7 DEF RunTypeOK
<1>5. PlaceInv' /\ SlipInv' /\ DownLeavesNothing'
  BY <1>0 DEF PlaceInv, SlipInv, DownLeavesNothing, Finished
<1>6. UpInv'
  <2> SUFFICES ASSUME cmd = "up" PROVE UpInv'
    BY <1>0 DEF UpInv
  <2>1. pool' = "home" /\ UpItems("home")' = {Home}
    BY <1>0 DEF pool, Pools, UpPools, UpItems
  <2>2. Behind'
    BY <1>0 DEF Behind
  <2>3. InHand'
    BY <1>0, <2>1 DEF InHand, Stands
  <2>4. \A c \in Component : Entity(c) \in known' => org.component[c] = "ours"
    BY <1>0, EntityIs
  <2>5. \A s \in known' \intersect Space : Ours(s)
    BY <1>0, EntityIs
  <2> QED BY <1>0, <1>2, <2>1, <2>2, <2>3, <2>4, <2>5 DEF UpInv, Ours
<1>7. DownInv'
  <2> SUFFICES ASSUME cmd = "down" PROVE DownInv'
    BY <1>0 DEF DownInv
  <2>1. pool' = "deployments" /\ DownItems("deployments")' = org.patched
    BY <1>0 DEF pool, Pools, DownPools, DownItems
  <2> QED BY <1>0, <2>1 DEF DownInv
<1> QED BY <1>3, <1>4, <1>5, <1>6, <1>7 DEF Inv

\* Nothing of the demo is left where no item of a teardown is.
LEMMA AllGone ==
  ASSUME OrgTypeOK, OwnInv, RunTypeOK, DownInv, command = "down", at = 6, todo = {}, ~failed
  PROVE  /\ {s \in Space : Ours(s)} = {Definition}
         /\ \A c \in Component : org.component[c] # "ours"
         /\ org.target = {} /\ org.patched = {}
<1>1. \A p \in DownNames : DownItems(p) = {}
  <2>1. /\ pool = DownPools[6]
        /\ DownPools[1] = "deployments" /\ DownPools[2] = "classBases" /\ DownPools[3] = "rootBases"
        /\ DownPools[4] = "components" /\ DownPools[5] = "clusterSpaces" /\ DownPools[6] = "homes"
    BY DownPool
  <2>2. DownItems(DownPools[6]) = {}
    BY <2>1 DEF DownInv
  <2>3. \A i \in 1 .. 5 : DownItems(DownPools[i]) = {}
    BY DEF DownInv
  <2> QED BY <2>1, <2>2, <2>3 DEF DownNames
<1>2. org.patched = {}
  BY <1>1 DEF DownNames, DownItems
<1>3. \A v \in HalfMade : ~Ours(v)
  BY <1>1 DEF DownNames, DownItems
<1>4. \A v \in Roots : ~Ours(v)
  BY <1>1 DEF DownNames, DownItems
<1>5. \A v \in ClusterSpaces : ~Ours(v)
  BY <1>1 DEF DownNames, DownItems
<1>6. ~Ours(Home)
  BY <1>1, HomeIs DEF DownNames, DownItems
<1>7. \A c \in Component : org.component[c] # "ours"
  BY <1>1 DEF DownNames, DownItems
<1>8. {s \in Space : Ours(s)} = {Definition}
  BY <1>3, <1>4, <1>5, <1>6, Kinds DEF HalfMade, OwnInv
<1>9. org.target = {}
  BY <1>5 DEF OwnInv, OrgTypeOK, ClusterSpaces
<1> QED BY <1>2, <1>7, <1>8, <1>9

\* A run whose pools are done may always go on.
LEMMA GoesOn ==
  ASSUME Inv, at # 0, todo = {}, ~failed
  PROVE  MayGoOn
<1>1. OrgTypeOK /\ OwnInv /\ RunTypeOK /\ UpInv /\ DownInv /\ command \in {"up", "down"}
  BY DEF Inv, OrgInv, RunTypeOK
<1>2. CASE command = "up"
  <2>1. at \in 1 .. 10 /\ Pools = UpPools
    BY <1>1, <1>2, UpPool DEF Pools
  <2>2. at > 2 => org.target = Cluster
    BY <1>1, <1>2, Past DEF OrgTypeOK
  <2>3. at < 3 => UpPools[at + 1] # "spaces"
    BY <2>1 DEF UpPools
  <2> QED BY <1>2, <2>1, <2>2, <2>3, PoolCount DEF MayGoOn
<1>3. CASE command = "down"
  <2>1. /\ at \in 1 .. 6 /\ Pools = DownPools /\ Len(Pools) = 6
        /\ DownPools[1] = "deployments" /\ DownPools[2] = "classBases" /\ DownPools[3] = "rootBases"
        /\ DownPools[4] = "components" /\ DownPools[5] = "clusterSpaces" /\ DownPools[6] = "homes"
    BY <1>1, <1>3, DownPool
  <2>2. at < 6 => DownPools[at + 1] # "spaces"
    BY <2>1
  <2>3. at = 6 => {s \in Space : Ours(s)} = {Definition}
    BY <1>1, <1>3, AllGone
  <2> QED BY <2>1, <2>2, <2>3 DEF MayGoOn
<1> QED BY <1>1, <1>2, <1>3

LEMMA StopInv ==
  ASSUME Inv, NEW result \in {"ok", "failed"}, Stop(result), cut' \in BOOLEAN, events' \in 0 .. MaxEvents,
         result = "failed" => cut' \/ (command = "up" /\ Theirs),
         result = "ok" => at = Len(Pools) /\ at # 0 /\ todo = {} /\ ~failed
  PROVE  Inv'
<1>0. /\ at' = 0 /\ todo' = {} /\ outcome' = result /\ torn' \in BOOLEAN
      /\ org' = org /\ known' = known /\ failed' = failed /\ command' = command /\ runs' = runs
  BY DEF Stop, Inv, RunTypeOK
<1>1. OrgTypeOK /\ OwnInv /\ RunTypeOK /\ DownInv
  BY DEF Inv, OrgInv
<1>2. OrgInv' /\ Theirs' = Theirs
  BY <1>0, Unchanging DEF Inv
<1>3. RunTypeOK'
  <2>1. Len(Pools)' \in {6, 10}
    BY PoolCount DEF Pools, UpPools, DownPools
  <2> QED BY <1>0, <1>1, <2>1 DEF RunTypeOK
<1>4. PlaceInv' /\ UpInv' /\ DownInv'
  BY <1>0 DEF PlaceInv, UpInv, DownInv
<1>5. SlipInv'
  BY <1>0, <1>2 DEF SlipInv
<1>6. DownLeavesNothing'
  <2> SUFFICES ASSUME command = "down", result = "ok" PROVE DownLeavesNothing'
    BY <1>0 DEF DownLeavesNothing, Finished
  <2>1. at = 6
    BY PoolCount DEF Pools
  <2>2. /\ {s \in Space : Ours(s)} = {Definition}
        /\ \A c \in Component : org.component[c] # "ours"
        /\ org.target = {} /\ org.patched = {}
    BY <1>1, <2>1, AllGone
  <2> QED BY <1>0, <2>2 DEF DownLeavesNothing, Ours
<1> QED BY <1>2, <1>3, <1>4, <1>5, <1>6 DEF Inv

LEMMA PoolEndsInv ==
  ASSUME Inv, PoolEnds
  PROVE  Inv'
<1>0. at # 0 /\ todo = {} /\ cut' = cut /\ events' = events /\ cut \in BOOLEAN /\ events \in 0 .. MaxEvents
  BY DEF PoolEnds, Inv, RunTypeOK
<1>1. OrgTypeOK /\ OwnInv /\ RunTypeOK /\ UpInv /\ DownInv /\ PlaceInv /\ SlipInv /\ command \in {"up", "down"}
  BY DEF Inv, OrgInv, RunTypeOK
<1>2. CASE (failed \/ ~MayGoOn) /\ Stop("failed")
  <2>1. failed
    BY <1>0, <1>2, GoesOn
  <2>2. cut \/ (command = "up" /\ Theirs)
    BY <1>0, <1>1, <2>1 DEF SlipInv
  <2> QED BY <1>0, <1>2, <2>2, StopInv
<1>3. CASE ~failed /\ MayGoOn /\ at = Len(Pools) /\ Stop("ok")
  BY <1>0, <1>3, StopInv
<1>4. CASE /\ ~failed /\ MayGoOn /\ at < Len(Pools)
           /\ at' = at + 1 /\ todo' = ItemsOf(Pools[at + 1])
           /\ UNCHANGED <<org, known, failed, command, outcome, torn, runs>>
  <2>0. /\ at' = at + 1 /\ todo' = ItemsOf(Pools[at + 1]) /\ Pools' = Pools /\ org' = org /\ known' = known
        /\ failed' = failed /\ command' = command /\ outcome' = outcome /\ torn' = torn /\ runs' = runs
        /\ ~failed /\ pool' = Pools[at + 1] /\ UpPools' = UpPools /\ DownPools' = DownPools
    BY <1>4 DEF Pools, UpPools, DownPools, pool
  <2>1. at + 1 \in 1 .. Len(Pools) /\ at \in Nat /\ Len(Pools) \in {6, 10}
    BY <1>0, <1>1, <1>4, PoolCount DEF RunTypeOK, Pools
  <2>2. OrgInv' /\ Theirs' = Theirs
    BY <2>0, Unchanging DEF Inv
  <2>3. PlaceInv' /\ SlipInv' /\ DownLeavesNothing'
    BY <1>0, <1>1, <2>0, <2>1 DEF PlaceInv, SlipInv, DownLeavesNothing, Finished
  <2>4. CASE command = "up"
    <3>1. at \in 1 .. 10 /\ pool = UpPools[at] /\ Pools = UpPools /\ at + 1 \in 1 .. 10
      BY <1>0, <1>1, <2>1, <2>4, UpPool, PoolCount DEF Pools
    <3>2. todo' = {x \in UpItems(pool') : ~Stands(pool', x)}
      BY <2>0, <2>4 DEF ItemsOf
    <3>3. Behind'
      <4> SUFFICES ASSUME NEW i \in 1 .. at, NEW x \in UpItems(UpPools[i]) PROVE Stands(UpPools[i], x)
        BY <2>0, <3>1, Unchanging DEF Behind
      <4>1. CASE i = at
        BY <1>0, <1>1, <2>0, <2>4, <3>1, <4>1 DEF UpInv, InHand
      <4>2. CASE i # at
        <5>1. i \in 1 .. at - 1
          BY <3>1, <4>2
        <5> QED BY <1>0, <1>1, <2>4, <5>1 DEF UpInv, Behind
      <4> QED BY <4>1, <4>2
    <3>4. InHand'
      BY <2>0, <3>2, Unchanging DEF InHand
    <3>5. todo' \subseteq UpItems(pool)'
      BY <2>0, <3>2, Unchanging
    <3>6. pool' = "units" => \A x \in todo' : Cloneable(x)'
      BY <2>0, <3>2, Unchanging DEF Stands
    <3>7. UpInv'
      BY <1>0, <1>1, <2>0, <2>4, <3>3, <3>4, <3>5, <3>6 DEF UpInv, Ours
    <3>8. DownInv'
      BY <2>0, <2>4 DEF DownInv
    <3>9. todo' \subseteq Space \union Entities
      BY <3>2, <3>1, <2>0, Kinds, OfComponent, RootIs DEF UpItems, UpPools
    <3>10. RunTypeOK'
      BY <1>0, <1>1, <2>0, <2>1, <3>9 DEF RunTypeOK
    <3> QED BY <2>2, <2>3, <3>7, <3>8, <3>10 DEF Inv
  <2>5. CASE command = "down"
    <3>1. at \in 1 .. 6 /\ pool = DownPools[at] /\ Pools = DownPools /\ at + 1 \in 1 .. 6
      BY <1>0, <1>1, <2>1, <2>5, DownPool
    <3>2. todo' = DownItems(pool')
      BY <2>0, <2>5 DEF ItemsOf
    <3>3. DownItems(pool)' = todo'
      BY <2>0, <3>2 DEF DownItems, Ours
    <3>4. \A i \in 1 .. at : DownItems(DownPools[i])' = {}
      <4> SUFFICES ASSUME NEW i \in 1 .. at PROVE DownItems(DownPools[i]) = {}
        BY <2>0, Unchanging
      <4>1. CASE i = at
        BY <1>0, <1>1, <2>0, <2>5, <3>1, <4>1 DEF DownInv
      <4>2. CASE i # at
        <5>1. i \in 1 .. at - 1
          BY <3>1, <4>2
        <5> QED BY <1>0, <1>1, <2>5, <5>1 DEF DownInv
      <4> QED BY <4>1, <4>2
    <3>5. DownInv'
      BY <2>0, <3>1, <3>3, <3>4 DEF DownInv
    <3>6. UpInv'
      BY <2>0, <2>5 DEF UpInv
    <3>7. pool' \in DownNames
      BY <1>0, <1>1, <2>0, <2>5, <3>1, DownPool DEF DownNames
    <3>8. todo' \subseteq Space \union Entities
      BY <1>1, <3>2, <3>7, Kinds DEF DownItems, DownNames, Entities, HalfMade, OrgTypeOK
    <3>9. RunTypeOK'
      BY <1>0, <1>1, <2>0, <2>1, <3>8 DEF RunTypeOK
    <3> QED BY <2>2, <2>3, <3>5, <3>6, <3>9 DEF Inv
  <2> QED BY <1>1, <2>4, <2>5
<1> QED BY <1>2, <1>3, <1>4 DEF PoolEnds

LEMMA InterruptedInv ==
  ASSUME Inv, Interrupted
  PROVE  Inv'
<1>1. Stop("failed") /\ cut' = TRUE /\ events' \in 0 .. MaxEvents
  BY DEF Interrupted, Happens, Inv, RunTypeOK
<1> QED BY <1>1, StopInv

-----------------------------------------------------------------------------
(* What every run keeps *)

LEMMA InitInv ==
  ASSUME Init
  PROVE  Inv
<1>0. /\ known = {} /\ at = 0 /\ todo = {} /\ failed = FALSE
      /\ command = "up" /\ outcome = "none" /\ cut = FALSE /\ torn = FALSE
      /\ runs = 0 /\ events = 0
  BY DEF Init
<1>1. PICK others \in Taken, components \in [Component -> {"none", "orphan", "claimed", "other"}] :
        org = [owner |-> [s \in Space |-> IF s = Definition THEN "ours"
                             ELSE IF s \in others THEN "other" ELSE "none"],
               component |-> components,
               target |-> {}, patched |-> {},
               layers |-> [s \in Space |-> [u \in Unit |-> IF s \in others THEN {"unit"} ELSE {}]],
               from |-> [s \in Space |-> [u \in Unit |-> {}]],
               mark |-> [s \in Space |-> 0]]
  BY DEF Init
<1>2. /\ \A s \in Space : org.owner[s] = IF s = Definition THEN "ours" ELSE IF s \in others THEN "other" ELSE "none"
      /\ org.component = components /\ org.target = {} /\ org.patched = {}
      /\ \A s \in Space : \A u \in Unit : org.layers[s][u] = IF s \in others THEN {"unit"} ELSE {}
      /\ \A s \in Space : \A u \in Unit : org.from[s][u] = {}
      /\ \A s \in Space : org.mark[s] = 0
  BY <1>1
<1>3. Definition \notin others /\ Definition \in Space
  BY HomeIs
<1>4. OrgTypeOK
  <2>1. [s \in Space |-> [u \in Unit |-> IF s \in others THEN {"unit"} ELSE {}]] \in [Space -> [Unit -> SUBSET Layer]]
    BY DEF Layer
  <2>2. [s \in Space |-> [u \in Unit |-> {}]] \in [Space -> [Unit -> SUBSET Revision]]
    OBVIOUS
  <2>3. \A s \in Space : \A u \in Has(s) : "unit" \in org.layers[s][u]
    BY <1>2 DEF Has
  <2> QED BY <1>1, <2>1, <2>2, <2>3 DEF OrgTypeOK
<1>5. \A s \in Space : Ours(s) <=> s = Definition
  BY <1>2, <1>3 DEF Ours
<1>6. \A s \in Space : s \notin others => Has(s) = {}
  BY <1>2 DEF Has
<1>7. \A v \in ClassBases \union Deployments : v \in Space /\ ~Ours(v)
  BY <1>5, Kinds
<1>8. OwnInv
  BY <1>2, <1>3, <1>5, <1>6, <1>7 DEF OwnInv
<1>9. UnitsInv
  <2>1. RootUnits
    <3>1. \A c \in Component : Root(c) \in Space /\ Root(c) # Definition
      BY OfComponent, RootIs, Kinds
    <3> QED BY <1>2, <1>6, <3>1 DEF RootUnits
  <2> QED BY <1>7, <2>1 DEF UnitsInv, ClassUnits, DeploymentUnits
<1>10. RunTypeOK
  <2>1. failed \in BOOLEAN /\ cut \in BOOLEAN /\ torn \in BOOLEAN
    BY <1>0
  <2>2. {failed, cut, torn} \subseteq BOOLEAN
    BY <2>1
  <2>3. Len(Pools) = 10
    BY <1>0, PoolCount DEF Pools
  <2> QED BY <1>0, <2>2, <2>3 DEF RunTypeOK
<1>11. PlaceInv /\ UpInv /\ DownInv /\ SlipInv /\ DownLeavesNothing
  BY <1>0 DEF PlaceInv, UpInv, DownInv, SlipInv, DownLeavesNothing, Finished
<1> QED BY <1>4, <1>8, <1>9, <1>10, <1>11 DEF Inv, OrgInv

LEMMA NextInv ==
  ASSUME Inv, [Next]_vars
  PROVE  Inv'
<1>1. CASE Next
  BY <1>1, StartInv, WorkInv, PoolEndsInv, InterruptedInv, CallFailsInv DEF Next
<1>2. CASE UNCHANGED vars
  <2>1. /\ org' = org /\ known' = known /\ at' = at /\ todo' = todo /\ failed' = failed /\ command' = command
        /\ outcome' = outcome /\ cut' = cut /\ torn' = torn /\ runs' = runs /\ events' = events
        /\ pool' = pool /\ Pools' = Pools /\ UpPools' = UpPools /\ DownPools' = DownPools
    BY <1>2 DEF vars, runVars, pool, Pools, UpPools, DownPools
  <2>2. OrgInv' /\ Theirs' = Theirs
    BY <2>1, SameOrg DEF Inv
  <2>3. RunTypeOK' /\ PlaceInv' /\ SlipInv' /\ DownLeavesNothing'
    BY <2>1, <2>2 DEF Inv, RunTypeOK, PlaceInv, SlipInv, DownLeavesNothing, Finished, Ours
  <2>4. UpInv'
    <3>1. Behind => Behind'
      <4> SUFFICES ASSUME Behind, NEW i \in 1 .. at - 1, NEW x \in UpItems(UpPools[i]) PROVE Stands(UpPools[i], x)'
        BY <2>1, Unchanging DEF Behind
      <4>1. Stands(UpPools[i], x)
        BY DEF Behind
      <4> QED BY <2>1, <4>1, Unchanging
    <3>2. InHand => InHand'
      BY <2>1, Unchanging DEF InHand
    <3> QED BY <2>1, <3>1, <3>2, Unchanging DEF Inv, UpInv, Ours
  <2>5. DownInv'
    BY <2>1, Unchanging DEF Inv, DownInv
  <2> QED BY <2>2, <2>3, <2>4, <2>5 DEF Inv
<1> QED BY <1>1, <1>2

\* Every call of up and down, every failure of one and every interruption
\* keeps the invariant.
THEOREM OrgKept == Spec => []Inv
<1>1. Init => Inv
  BY InitInv
<1>2. Inv /\ [Next]_vars => Inv'
  BY NextInv
<1> QED BY <1>1, <1>2, PTL DEF Spec

\* The org holds what it can and a run is in one of its pools (forEach in
\* seeder.go, the groups of teardown.go), whatever is cut short or run again.
THEOREM TypeCorrect == Spec => []TypeOK
<1>1. ASSUME Inv PROVE TypeOK
  <2>1. OrgTypeOK /\ RunTypeOK
    BY <1>1 DEF Inv, OrgInv
  <2>2. Len(Pools) \in {6, 10}
    BY PoolCount DEF Pools
  <2>3. at \in 0 .. 10
    <3>1. at \in 0 .. Len(Pools) /\ (Len(Pools) = 6 \/ Len(Pools) = 10)
      BY <2>1, <2>2 DEF RunTypeOK
    <3>2. 0 .. 6 \subseteq 0 .. 10
      OBVIOUS
    <3>3. CASE Len(Pools) = 6
      BY <3>1, <3>2, <3>3
    <3>4. CASE Len(Pools) = 10
      BY <3>1, <3>4
    <3> QED BY <3>1, <3>3, <3>4
  <2> QED BY <2>1, <2>3 DEF OrgTypeOK, RunTypeOK, TypeOK, Entities
<1> QED BY <1>1, OrgKept, PTL

\* protections.go: the class bases are protected before anything is cloned
\* from them, and the hash of a root's unit is recorded after its data
\* (bases.go), so that no clone is ever behind what it was cloned from.
THEOREM NoneIsBehind == Spec => []NoneBehind
<1>1. ASSUME Inv PROVE NoneBehind
  <2>0. OrgTypeOK /\ RootUnits /\ ClassUnits /\ DeploymentUnits
    BY <1>1 DEF Inv, OrgInv, UnitsInv
  <2> SUFFICES ASSUME NEW v \in ClassBases \union Deployments, Ours(v), NEW u \in Has(v)
               PROVE  org.from[v][u] = org.layers[Upstream(v)][u] \intersect Revision
    BY DEF NoneBehind
  <2>1. u \in Unit
    BY DEF Has
  <2>2. CASE v \in ClassBases
    <3>1. org.from[v][u] = {"data"} /\ "hash" \in org.layers[Upstream(v)][u]
      BY <2>0, <2>2 DEF ClassUnits
    <3>2. org.layers[Upstream(v)][u] \subseteq {"unit", "data", "hash"} /\ "data" \in org.layers[Upstream(v)][u]
      BY <2>0, <2>1, <2>2, <3>1, ClassBaseIs DEF RootUnits
    <3> QED BY <3>1, <3>2 DEF Revision
  <2>3. CASE v \in Deployments
    BY <2>0, <2>3 DEF DeploymentUnits
  <2> QED BY <2>2, <2>3
<1> QED BY <1>1, OrgKept, PTL

\* teardown.go: what the groups delete first is what nothing refers to any
\* more; and up finds before each pool what it needs there. A run in which
\* nothing goes wrong fails only for what is somebody else's.
THEOREM OnlyMishaps == Spec => []OnlyMishapsFail
<1>1. Inv => OnlyMishapsFail
  BY DEF Inv, SlipInv, OnlyMishapsFail, Theirs
<1> QED BY <1>1, OrgKept, PTL

\* teardown.go: a teardown that gets through has taken everything of the demo
\* but its definition, half-made spaces and all.
THEOREM DownLeavesNone == Spec => []DownLeavesNothing
<1>1. Inv => DownLeavesNothing
  BY DEF Inv
<1> QED BY <1>1, OrgKept, PTL

-----------------------------------------------------------------------------
(* Components no class base or deployment of which is somebody else's.      *)
(* Those are cloned with allow-exists and taken for what is answered        *)
(* (bases.go:180); every other space is read back and looked at.            *)

MarkedOurs == \A c \in Component : ~Ours(Root(c)) => org.mark[Root(c)] = 0

\* Its deployments are there, with all their units, and bear the variation.
Whole(c) == \A d \in DeploymentsOf(c) : Ours(d) /\ Has(d) = Units[c] /\ Bears(d, "variation")

\* As long as no teardown was left half way a root's marker tells the truth.
VaryInv ==
  ~torn /\ (at = 0 \/ command = "up") =>
    \A c \in Component : Untaken(c) /\ org.mark[Root(c)] # 0 => Whole(c)

MineInv == MarkedOurs /\ VaryInv /\ UpBuilds /\ UpVariesIntact

\* What a class base has are units of its component.
LEMMA ClassHas ==
  ASSUME OrgInv, NEW b \in ClassBases, org.owner[b] # "other"
  PROVE  Has(b) \subseteq Units[b[2]]
<1>0. OrgTypeOK /\ OwnInv /\ RootUnits /\ ClassUnits
  BY DEF OrgInv, UnitsInv
<1>1. b \in Space /\ b[2] \in Component /\ Upstream(b) = Root(b[2])
  BY ClassBaseIs
<1> SUFFICES ASSUME NEW u \in Has(b) PROVE u \in Units[b[2]]
  OBVIOUS
<1>2. Ours(b)
  BY <1>0, <1>1 DEF OrgTypeOK, OwnInv, Ours
<1>3. "hash" \in org.layers[Root(b[2])][u] /\ org.owner[Root(b[2])] # "other" /\ u \in Unit
  BY <1>0, <1>1, <1>2 DEF ClassUnits, OwnInv, Has
<1>4. u \in Has(Root(b[2]))
  BY <1>3 DEF Has
<1> QED BY <1>0, <1>1, <1>3, <1>4 DEF RootUnits

LEMMA DeploymentHas ==
  ASSUME OrgInv, NEW c \in Component, NEW d \in DeploymentsOf(c), Ours(d)
  PROVE  Has(Upstream(d)) \subseteq Units[c]
<1>1. d \in Deployments /\ d[2] = c
  BY OfComponent
<1>2. Upstream(d) \in ClassBases /\ Upstream(d)[2] = c
  BY <1>1, DeploymentIs
<1>3. org.owner[Upstream(d)] # "other"
  BY <1>1 DEF OrgInv, OwnInv
<1> QED BY <1>2, <1>3, ClassHas

LEMMA UpMine ==
  ASSUME Inv, MarkedOurs, command = "up", at # 0, UpEffect, UpKeeping
  PROVE  /\ MarkedOurs'
         /\ \A c \in Component : Whole(c) => Whole(c)'
         /\ \A c \in Component : org'.mark[Root(c)] # 0 => org.mark[Root(c)] # 0 \/ MarksRoot(c)
<1>0. OrgTypeOK /\ OwnInv /\ UnitsInv /\ RunTypeOK /\ UpInv /\ OrgInv
  BY DEF Inv, OrgInv
<1>v. \A v \in ClassBases \union Deployments : v \in Space /\ Upstream(v) \in Space
  BY ClassBaseIs, DeploymentIs, RootIs
<1>r. \A c \in Component : Root(c) \in Space /\ Root(c) \in Roots /\ Root(c) \notin ClassBases \union Deployments
  BY OfComponent, RootIs, Kinds
<1>i. \A c, e \in Component : Root(e) = Root(c) => e = c
  BY OfComponent
<1>2. ASSUME NEW c \in Component
      PROVE  org'.mark[Root(c)] # 0 => org.mark[Root(c)] # 0 \/ MarksRoot(c)
  <2>1. ASSUME NEW b \in ClassBases, MarksClass(b) PROVE org'.mark[Root(c)] = org.mark[Root(c)]
    <3>1. Mark(b, 1) /\ b \in Space /\ Root(c) # b
      BY <1>r, <1>v, <2>1 DEF MarksClass
    <3> QED BY <1>0, <1>r, <3>1, MarkFields
  <2>2. ASSUME NEW e \in Component, MarksRoot(e) PROVE org'.mark[Root(c)] = org.mark[Root(c)] \/ MarksRoot(c)
    <3>1. CASE e = c
      BY <2>2, <3>1
    <3>2. CASE e # c
      <4>1. Mark(Root(e), Cardinality(Placement[e])) /\ Root(e) # Root(c)
        BY <1>i, <2>2, <3>2 DEF MarksRoot
      <4> QED BY <1>0, <1>r, <4>1, Numbers, MarkFields
    <3> QED BY <3>1, <3>2
  <2> QED BY <1>0, <2>1, <2>2, TakesFields, ConnectsFields, AdoptsFields, FillsFields, ClonesFields, StampsFields, TurnsFields DEF UpEffect
<1>3. MarkedOurs'
  <2> SUFFICES ASSUME NEW c \in Component, org'.mark[Root(c)] # 0 PROVE Ours(Root(c))'
    BY DEF MarkedOurs
  <2>1. Ours(Root(c))
    BY <1>0, <1>2, Worked DEF MarkedOurs
  <2> QED BY <1>r, <2>1 DEF UpKeeping, Ours
<1>4. ASSUME NEW c \in Component, Whole(c) PROVE Whole(c)'
  <2> SUFFICES ASSUME NEW d \in DeploymentsOf(c)
               PROVE  Ours(d)' /\ Has(d)' = Units[c] /\ Bears(d, "variation")'
    BY DEF Whole
  <2>1. Ours(d) /\ Has(d) = Units[c] /\ Bears(d, "variation") /\ d \in Deployments /\ d \in Space
    BY <1>4, <1>v, OfComponent DEF Whole
  <2>2. Has(Upstream(d)) \subseteq Units[c]
    BY <1>0, <2>1, DeploymentHas
  <2>3. Has(d)' = Has(d)
    <3>1. Has(d)' = Has(d) \/ Has(d)' = Has(d) \union Has(Upstream(d))
      BY <2>1, Zenon DEF UpKeeping
    <3>2. Units[c] \union Has(Upstream(d)) = Units[c]
      BY <2>2, Zenon
    <3> QED BY <2>1, <3>1, <3>2
  <2> QED BY <2>1, <2>3 DEF UpKeeping, Ours
<1> QED BY <1>2, <1>3, <1>4

\* When up comes to mark a root its deployments are whole.
LEMMA MarkWhole ==
  ASSUME Inv, command = "up", at # 0, NEW c \in Component, Untaken(c), MarksRoot(c)
  PROVE  Whole(c)
<1>0. OrgTypeOK /\ OwnInv /\ UnitsInv /\ RunTypeOK /\ UpInv /\ OrgInv /\ at = 9
  BY DEF Inv, OrgInv, MarksRoot
<1> SUFFICES ASSUME NEW d \in DeploymentsOf(c) PROVE Ours(d) /\ Has(d) = Units[c] /\ Bears(d, "variation")
  BY DEF Whole
<1>1. d \in Deployments /\ d \in Space /\ Upstream(d) \in ClassBasesOf(c)
  BY OfComponent, DeploymentIs
<1>2. Upstream(d) \in ClassBases /\ Upstream(d) \in Space /\ Upstream(Upstream(d)) = Root(c) /\ Upstream(d)[2] = c
  BY <1>1, OfComponent, ClassBaseIs
<1>t. org.owner[d] # "other" /\ org.owner[Upstream(d)] # "other"
  BY <1>1 DEF Untaken, VariantsOf
<1>3. Ours(d)
  <2>1. org.owner[d] # "none" /\ org.owner[d] # "other"
    BY <1>0, <1>1, <1>t, Past
  <2> QED BY <1>0, <1>1, <2>1 DEF OrgTypeOK, Ours
<1>4. Ours(Upstream(d)) /\ org.mark[Upstream(d)] = 1
  <2>1. org.owner[Upstream(d)] # "none" /\ org.owner[Upstream(d)] # "other" /\ org.mark[Upstream(d)] = 1
    BY <1>0, <1>1, <1>2, <1>t, Past
  <2> QED BY <1>0, <1>2, <2>1 DEF OrgTypeOK, Ours
<1>5. Has(Upstream(d)) = Units[c]
  BY <1>0, <1>2, <1>4 DEF UnitsInv, ClassUnits
<1>6. d \in org.patched
  BY <1>0, <1>1, <1>3, Past
<1>7. Has(d) = Units[c]
  BY <1>0, <1>1, <1>3, <1>5, <1>6, Past DEF Cloneable, Cloned
<1>8. Bears(d, "labels")
  BY <1>0, <1>1, <1>6, Past
<1>9. ASSUME NEW u \in Has(d) PROVE "variation" \in org.layers[d][u]
  <2>1. <<d, u>> \in Selected(c)
    BY <1>6, <1>8 DEF Selected, Bears, Has
  <2> QED BY <2>1 DEF MarksRoot
<1> QED BY <1>3, <1>7, <1>9 DEF Bears

\* What a run of up that has got through leaves.
Built ==
  /\ \A s \in {Home, Definition} \union ClusterSpaces \union Roots : Ours(s)
  /\ \A c \in Component : org.component[c] = "ours"
  /\ org.target = Cluster
  /\ \A c \in {e \in Component : Untaken(e)} : \A v \in VariantsOf(c) :
       /\ Ours(v) /\ Has(v) = Units[c]
       /\ v[1] = "deployment" => v \in org.patched
       /\ \A u \in Units[c] :
            CASE v[1] = "root" -> "data" \in org.layers[v][u]
              [] v[1] = "class" -> {"data", "policy", "protection"} \subseteq org.layers[v][u]
              [] OTHER -> {"data", "policy", "labels", "protection"} \subseteq org.layers[v][u]

LEMMA UpIsBuilt ==
  ASSUME Inv, command = "up", at = 10, todo = {}, ~failed
  PROVE  Built
<1>0. OrgTypeOK /\ OwnInv /\ UnitsInv /\ RunTypeOK /\ UpInv /\ OrgInv
  BY DEF Inv, OrgInv
<1>1. /\ \A k \in Cluster : ClusterSpace(k) \in known /\ k \in org.target
      /\ \A c \in Component :
              /\ {Root(c), Entity(c)} \union ClassBasesOf(c) \subseteq known
              /\ Hashed(c) /\ Ours(Root(c)) /\ org.component[c] = "ours"
              /\ \A b \in ClassBasesOf(c) : Cloned(b) /\ org.mark[b] = 1 /\ org.owner[b] # "none"
      /\ \A b \in ClassBases : Bears(b, "protection")
      /\ \A d \in Deployments : org.owner[Upstream(d)] # "other" => d \in known /\ org.owner[d] # "none"
      /\ \A d \in Deployments : Ours(d) => d \in org.patched
      /\ \A d \in Deployments : Cloneable(d) => Cloned(d)
      /\ \A d \in org.patched \intersect Deployments : Bears(d, "labels")
      /\ Home \in known /\ Ours(Home)
  BY <1>0, Past
<1>4. \A k \in ClusterSpaces : Ours(k)
  BY <1>0, <1>1, Worked, ClusterIs
<1>5. \A x \in Roots : Ours(x)
  BY <1>1, RootIs
<1>6. \A s \in {Home, Definition} \union ClusterSpaces \union Roots : Ours(s)
  BY <1>0, <1>1, <1>4, <1>5 DEF OwnInv
<1>7. org.target = Cluster
  BY <1>0, <1>1 DEF OrgTypeOK
<1>8. \A d \in Deployments \intersect known : Bears(d, "protection")
  <2>1. pool = "shields"
    BY <1>0, UpPool
  <2>2. \A d \in Deployments \intersect known : d \in UpItems(pool) \ todo
    BY <2>1 DEF UpItems
  <2> QED BY <1>0, <2>1, <2>2 DEF UpInv, InHand, Stands
<1>9. ASSUME NEW c \in Component, Untaken(c), NEW v \in VariantsOf(c)
      PROVE  /\ Ours(v) /\ Has(v) = Units[c]
             /\ v[1] = "deployment" => v \in org.patched
             /\ \A u \in Units[c] :
                  CASE v[1] = "root" -> "data" \in org.layers[v][u]
                    [] v[1] = "class" -> {"data", "policy", "protection"} \subseteq org.layers[v][u]
                    [] OTHER -> {"data", "policy", "labels", "protection"} \subseteq org.layers[v][u]
  <2>t. \A b \in ClassBasesOf(c) : b \in ClassBases /\ Ours(b) /\ b \in Space
    <3> SUFFICES ASSUME NEW b \in ClassBasesOf(c) PROVE b \in ClassBases /\ Ours(b) /\ b \in Space
      OBVIOUS
    <3>1. b \in ClassBases /\ b \in Space
      BY OfComponent, ClassBaseIs
    <3>2. org.owner[b] # "none" /\ org.owner[b] # "other"
      BY <1>1, <1>9 DEF Untaken, VariantsOf
    <3> QED BY <1>0, <3>1, <3>2 DEF OrgTypeOK, Ours
  <2>0. Units[c] \subseteq Unit
    BY OfComponent
  <2>1. CASE v = Root(c)
    <3>1. v[1] = "root" /\ org.owner[v] # "other" /\ Ours(v)
      BY <1>1, <2>1, OfComponent, RootIs DEF Ours
    <3>2. \A u \in Units[c] : "hash" \in org.layers[v][u]
      BY <1>1, <2>1 DEF Hashed
    <3>3. Has(v) \subseteq Units[c]
      BY <1>0, <2>1, <3>1 DEF UnitsInv, RootUnits, Has
    <3>4. Units[c] \subseteq Has(v)
      BY <2>0, <3>2 DEF Has
    <3>5. \A u \in Units[c] : "data" \in org.layers[v][u]
      BY <1>0, <2>0, <2>1, <3>2 DEF UnitsInv, RootUnits
    <3> QED BY <3>1, <3>3, <3>4, <3>5
  <2>2. CASE v \in ClassBasesOf(c)
    <3>1. v \in ClassBases /\ v[1] = "class" /\ v[2] = c
      BY <2>2, OfComponent, ClassBaseIs
    <3>2. org.mark[v] = 1 /\ Ours(v) /\ Bears(v, "protection")
      BY <1>1, <2>2, <2>t, <3>1
    <3>3. Has(v) = Units[c] /\ Bears(v, "policy") /\ \A u \in Has(v) : "data" \in org.layers[v][u]
      BY <1>0, <3>1, <3>2 DEF UnitsInv, ClassUnits
    <3> QED BY <3>1, <3>2, <3>3 DEF Bears
  <2>3. CASE v \in DeploymentsOf(c)
    <3>1. v \in Deployments /\ v[1] = "deployment" /\ Upstream(v) \in ClassBasesOf(c) /\ v \in Space
      BY <2>3, OfComponent, DeploymentIs
    <3>2. Upstream(v) \in ClassBases /\ Upstream(v)[2] = c /\ Ours(Upstream(v)) /\ org.mark[Upstream(v)] = 1
      BY <1>1, <2>t, <3>1, OfComponent
    <3>7. v \in known /\ Ours(v)
      <4>1. org.owner[v] # "other" /\ org.owner[Upstream(v)] # "other"
        BY <1>9, <3>2 DEF Untaken, Ours
      <4>2. v \in known /\ org.owner[v] # "none"
        BY <1>1, <3>1, <4>1
      <4> QED BY <1>0, <3>1, <4>1, <4>2 DEF OrgTypeOK, Ours
    <3>8. v \in org.patched
      BY <1>1, <3>1, <3>7
    <3>3. Has(Upstream(v)) = Units[c]
      BY <1>0, <3>2 DEF UnitsInv, ClassUnits
    <3>4. Has(v) = Units[c]
      BY <1>1, <3>1, <3>3, <3>7, <3>8 DEF Cloneable, Cloned
    <3>5. Bears(v, "labels") /\ Bears(v, "protection")
      BY <1>1, <1>8, <3>1, <3>7, <3>8
    <3>6. \A u \in Has(v) : {"data", "policy"} \subseteq org.layers[v][u]
      BY <1>0, <3>1, <3>7 DEF UnitsInv, DeploymentUnits
    <3> QED BY <3>1, <3>4, <3>5, <3>6, <3>7, <3>8 DEF Bears
  <2> QED BY <2>1, <2>2, <2>3 DEF VariantsOf
<1> QED BY <1>1, <1>6, <1>7, <1>9 DEF Built

LEMMA UpIsVaried ==
  ASSUME Inv, VaryInv, ~torn, command = "up", at = 10
  PROVE  \A c \in {e \in Varying : Untaken(e)} : \A d \in DeploymentsOf(c) : Bears(d, "variation")
<1> SUFFICES ASSUME NEW c \in Varying, Untaken(c), NEW d \in DeploymentsOf(c) PROVE Bears(d, "variation")
  OBVIOUS
<1>1. RunTypeOK /\ UpInv /\ c \in Component
  BY DEF Inv
<1>2. org.mark[Root(c)] = Cardinality(Placement[c])
  BY <1>1, Past
<1>3. Placement[c] # {}
  BY DEF DeploymentsOf
<1>4. org.mark[Root(c)] # 0
  BY <1>1, <1>2, <1>3, Numbers
<1> QED BY <1>1, <1>4 DEF VaryInv, Whole

\* The org is as it was, or a call of the command in hand has been made.
LEMMA StepEffect ==
  ASSUME Inv, [Next]_vars
  PROVE  \/ org' = org
         \/ /\ at # 0 /\ at' = at /\ command' = command /\ torn' = torn
            /\ \/ command = "up" /\ UpEffect /\ UpKeeping
               \/ command = "down" /\ \E x \in todo : Deletes(x) \/ \E c \in Component : Disowns(c)
<1>0. OrgTypeOK /\ OwnInv /\ UnitsInv /\ RunTypeOK /\ UpInv /\ DownInv /\ PlaceInv /\ command \in {"up", "down"}
  BY DEF Inv, OrgInv, RunTypeOK
<1>1. ASSUME NEW x \in todo, NEW P, Call(x, P), at # 0
      PROVE  \/ command = "up" /\ UpEffect /\ UpKeeping
             \/ command = "down" /\ \E y \in todo : Deletes(y) \/ \E c \in Component : Disowns(c)
  <2>1. CASE command = "up"
    <3>1. UpEffect
      BY <1>0, <1>1, <2>1, UpCallEffect DEF Call
    <3> QED BY <1>0, <1>1, <2>1, <3>1, UpKeeps
  <2>2. CASE command = "down"
    BY <1>0, <1>1, <2>2, DownCallEffect DEF Call
  <2> QED BY <1>0, <2>1, <2>2
<1>2. CASE Work
  <2>1. PICK x \in todo : Call(x, Space) \/ org' = org
    BY <1>2 DEF Work
  <2>2. at # 0
    BY <1>0 DEF PlaceInv
  <2>3. at' = at /\ command' = command /\ torn' = torn
    BY <1>2 DEF Work
  <2> QED BY <1>1, <2>1, <2>2, <2>3
<1>3. CASE CallFails
  <2>1. PICK x \in todo : org' = org \/ \E P \in SUBSET Reach(x) : Call(x, P)
    BY <1>3 DEF CallFails
  <2>2. at # 0
    BY <1>0 DEF PlaceInv
  <2>3. at' = at /\ command' = command /\ torn' = torn
    BY <1>3 DEF CallFails
  <2> QED BY <1>1, <2>1, <2>2, <2>3
<1>4. CASE Start("up") \/ Start("down") \/ PoolEnds \/ Interrupted \/ UNCHANGED vars
  BY <1>4 DEF Start, PoolEnds, Interrupted, Stop, vars
<1> QED BY <1>2, <1>3, <1>4 DEF Next

\* What is somebody else's stays so; of a component nothing is taken only if
\* nothing was.
LEMMA StaysTheirs ==
  ASSUME Inv, [Next]_vars
  PROVE  /\ \A s \in Space : org.owner[s] = "other" => org'.owner[s] = "other"
         /\ \A c \in Component : Untaken(c)' => Untaken(c)
<1>0. OrgTypeOK
  BY DEF Inv, OrgInv
<1>1. ASSUME NEW s \in Space, org.owner[s] = "other" PROVE org'.owner[s] = "other"
  <2>1. ASSUME NEW x, Deletes(x) PROVE org'.owner[s] = "other"
    <3>1. x # s
      BY <1>1, <2>1 DEF Deletes, Ours
    <3> QED BY <1>0, <1>1, <2>1, <3>1, DeletesFields
  <2>2. UpKeeping => org'.owner[s] = "other"
    BY <1>1 DEF UpKeeping
  <2> QED BY <1>0, <1>1, <2>1, <2>2, DisownsFields, StepEffect
<1>2. \A c \in Component : VariantsOf(c) \subseteq Space
  BY OfComponent, RootIs, ClassBaseIs, DeploymentIs DEF VariantsOf
<1> QED BY <1>1, <1>2 DEF Untaken

\* When a command stops what it claims to have done is done.
LEMMA StopMine ==
  ASSUME Inv, MineInv, NEW result \in {"ok", "failed"}, Stop(result), at # 0,
         result = "ok" => at = Len(Pools) /\ todo = {} /\ ~failed
  PROVE  MineInv'
<1>0. /\ at' = 0 /\ outcome' = result /\ org' = org /\ command' = command
      /\ torn' = IF command = "down" THEN result # "ok" ELSE torn
  BY DEF Stop
<1>1. OrgTypeOK /\ OwnInv /\ RunTypeOK /\ DownInv /\ command \in {"up", "down"}
  BY DEF Inv, OrgInv, RunTypeOK
<1>2. MarkedOurs' /\ (\A c \in Component : (Whole(c) => Whole(c)') /\ (Untaken(c)' <=> Untaken(c)))
  BY <1>0 DEF MineInv, MarkedOurs, Untaken, Ours, Whole, Has, Bears
<1>3. CASE command = "up"
  <2>1. VaryInv'
    BY <1>0, <1>2, <1>3 DEF MineInv, VaryInv
  <2>2. result = "ok" => Built /\ (~torn => UpVaries)
    <3>1. result = "ok" => at = 10 /\ todo = {} /\ ~failed
      BY <1>3, PoolCount DEF Pools
    <3> QED BY <1>3, <3>1, UpIsBuilt, UpIsVaried DEF MineInv, UpVaries
  <2>3. UpBuilds'
    <3>1. result = "ok" => Built'
      BY <1>0, <2>2 DEF Built, Untaken, Ours, Has
    <3> QED BY <1>0, <3>1 DEF UpBuilds, Built, Finished
  <2>4. UpVariesIntact'
    <3> SUFFICES ASSUME ~torn', Finished("up")' PROVE \A c \in {e \in Varying : Untaken(e)'} : \A d \in DeploymentsOf(c) : Bears(d, "variation")'
      BY DEF UpVariesIntact, UpVaries
    <3>1. result = "ok" /\ ~torn
      BY <1>0, <1>3 DEF Finished
    <3>2. at = 10
      BY <1>3, <3>1, PoolCount DEF Pools
    <3>3. \A c \in {e \in Varying : Untaken(e)} : \A d \in DeploymentsOf(c) : Bears(d, "variation")
      BY <1>3, <3>1, <3>2, UpIsVaried DEF MineInv
    <3> QED BY <1>0, <3>3 DEF Untaken, Bears, Has
  <2> QED BY <1>2, <2>1, <2>3, <2>4 DEF MineInv
<1>4. CASE command = "down"
  <2>1. UpBuilds' /\ UpVariesIntact'
    BY <1>0, <1>4 DEF UpBuilds, UpVariesIntact, UpVaries, Finished
  <2>2. VaryInv'
    <3> SUFFICES ASSUME result = "ok", NEW c \in Component PROVE org'.mark[Root(c)] = 0
      BY <1>0, <1>4 DEF VaryInv
    <3>1. at = 6 /\ todo = {} /\ ~failed
      BY <1>4, PoolCount DEF Pools
    <3>2. {s \in Space : Ours(s)} = {Definition}
      BY <1>1, <1>4, <3>1, AllGone
    <3>3. Root(c) \in Space /\ Root(c) # Definition
      BY OfComponent, RootIs, Kinds
    <3>4. ~Ours(Root(c))
      BY <3>2, <3>3
    <3> QED BY <1>0, <3>4 DEF MineInv, MarkedOurs
  <2> QED BY <1>2, <2>1, <2>2 DEF MineInv
<1> QED BY <1>1, <1>3, <1>4

LEMMA MineSame ==
  ASSUME MineInv, org' = org, at' # 0 \/ (at' = at /\ outcome' = outcome),
         command' = "up" /\ ~torn' => (at = 0 \/ command = "up") /\ ~torn,
         at' = 0 => command' = command /\ torn' = torn
  PROVE  MineInv'
<1>1. MarkedOurs' /\ (\A c \in Component : (Whole(c) => Whole(c)') /\ (Untaken(c)' <=> Untaken(c)))
  BY DEF MineInv, MarkedOurs, Untaken, Ours, Whole, Has, Bears
<1>2. VaryInv'
  BY <1>1 DEF MineInv, VaryInv
<1>3. UpBuilds'
  BY DEF MineInv, UpBuilds, Finished, Untaken, Ours, Has
<1>4. UpVariesIntact'
  BY DEF MineInv, UpVariesIntact, UpVaries, Finished, Untaken, Bears, Has
<1> QED BY <1>1, <1>2, <1>3, <1>4 DEF MineInv

LEMMA NextMine ==
  ASSUME Inv, MineInv, [Next]_vars
  PROVE  MineInv'
<1>0. OrgTypeOK /\ OwnInv /\ UnitsInv /\ RunTypeOK /\ UpInv /\ DownInv /\ PlaceInv /\ command \in {"up", "down"}
  BY DEF Inv, OrgInv, RunTypeOK
<1>1. CASE at # 0 /\ at' = at /\ command' = command /\ torn' = torn /\ command = "up" /\ UpEffect /\ UpKeeping
  <2>1. /\ MarkedOurs'
        /\ \A c \in Component : Whole(c) => Whole(c)'
        /\ \A c \in Component : org'.mark[Root(c)] # 0 => org.mark[Root(c)] # 0 \/ MarksRoot(c)
    BY <1>1, UpMine DEF MineInv
  <2>2. VaryInv'
    <3> SUFFICES ASSUME ~torn, NEW c \in Component, Untaken(c)', org'.mark[Root(c)] # 0 PROVE Whole(c)'
      BY <1>1 DEF VaryInv
    <3>1. Untaken(c)
      BY StaysTheirs
    <3>2. Whole(c)
      BY <1>1, <2>1, <3>1, MarkWhole DEF MineInv, VaryInv
    <3> QED BY <2>1, <3>2
  <2>3. UpBuilds' /\ UpVariesIntact'
    BY <1>1 DEF UpBuilds, UpVariesIntact, UpVaries, Finished
  <2> QED BY <2>1, <2>2, <2>3 DEF MineInv
<1>2. CASE at # 0 /\ at' = at /\ command' = command /\ command = "down"
           /\ \E x \in todo : Deletes(x) \/ \E c \in Component : Disowns(c)
  <2>1. UpBuilds' /\ UpVariesIntact' /\ VaryInv'
    BY <1>2 DEF UpBuilds, UpVariesIntact, UpVaries, Finished, VaryInv
  <2>2. ASSUME NEW c \in Component, Disowns(c) PROVE MarkedOurs'
    <3>1. org'.owner = org.owner /\ org'.mark = org.mark
      BY <1>0, <2>2, DisownsFields
    <3> QED BY <3>1 DEF MineInv, MarkedOurs, Ours
  <2>3. ASSUME NEW s, Deletes(s) PROVE MarkedOurs'
    <3>1. /\ org'.owner[s] = "none" /\ \A v \in Space : v # s => org'.owner[v] = org.owner[v]
          /\ org'.mark[s] = 0 /\ \A v \in Space : v # s => org'.mark[v] = org.mark[v]
      BY <1>0, <2>3, DeletesFields
    <3>3. \A c \in Component : Root(c) \in Space
      BY OfComponent, RootIs
    <3> QED BY <3>1, <3>3 DEF MineInv, MarkedOurs, Ours
  <2> QED BY <1>2, <2>1, <2>2, <2>3 DEF MineInv
<1>3. CASE org' = org
  <2>1. ASSUME NEW cmd \in {"up", "down"}, Start(cmd) PROVE MineInv'
    <3>1. at = 0 /\ at' = 1 /\ torn' = torn
      BY <2>1 DEF Start
    <3> QED BY <1>3, <3>1, MineSame
  <2>2. CASE Work
    <3>1. at # 0 /\ at' = at /\ command' = command /\ torn' = torn
      BY <1>0, <2>2 DEF Work, PlaceInv
    <3> QED BY <1>3, <3>1, MineSame
  <2>3. CASE CallFails
    <3>1. at # 0 /\ at' = at /\ command' = command /\ torn' = torn
      BY <1>0, <2>3 DEF CallFails, PlaceInv
    <3> QED BY <1>3, <3>1, MineSame
  <2>4. CASE Interrupted
    <3>1. at # 0 /\ Stop("failed")
      BY <2>4 DEF Interrupted
    <3> QED BY <3>1, StopMine
  <2>5. CASE PoolEnds
    <3>1. at # 0 /\ at \in Nat /\ todo = {}
      BY <1>0, <2>5 DEF PoolEnds, RunTypeOK
    <3>2. CASE (failed \/ ~MayGoOn) /\ Stop("failed")
      BY <3>1, <3>2, StopMine
    <3>3. CASE ~failed /\ MayGoOn /\ at = Len(Pools) /\ Stop("ok")
      BY <3>1, <3>3, StopMine
    <3>4. CASE at' = at + 1 /\ command' = command /\ torn' = torn
      <4>1. at' # 0
        BY <3>1, <3>4
      <4> QED BY <1>3, <3>4, <4>1, MineSame
    <3> QED BY <2>5, <3>2, <3>3, <3>4 DEF PoolEnds
  <2>6. CASE UNCHANGED vars
    <3>1. at' = at /\ outcome' = outcome /\ command' = command /\ torn' = torn
      BY <2>6 DEF vars, runVars
    <3> QED BY <1>3, <3>1, MineSame DEF MineInv
  <2> QED BY <2>1, <2>2, <2>3, <2>4, <2>5, <2>6 DEF Next
<1> QED BY <1>1, <1>2, <1>3, StepEffect

LEMMA InitMine ==
  ASSUME Init
  PROVE  MineInv
<1>0. at = 0 /\ command = "up" /\ outcome = "none"
  BY DEF Init
<1>1. \A s \in Space : org.mark[s] = 0
  BY DEF Init
<1>2. \A c \in Component : org.mark[Root(c)] = 0
  BY <1>1, OfComponent, RootIs
<1> QED BY <1>0, <1>2 DEF MineInv, MarkedOurs, VaryInv, UpBuilds, UpVariesIntact, UpVaries, Finished

\* Every step keeps that the roots' markers tell the truth, of components that
\* nothing of is somebody else's.
THEOREM MineKept == Spec => []MineInv
<1>1. Init => MineInv
  BY InitMine
<1>2. Inv /\ MineInv /\ [Next]_vars => MineInv'
  BY NextMine
<1> QED BY <1>1, <1>2, OrgKept, PTL DEF Spec

\* cmd/up.go, "an interrupted run is resumed by running up again": a run that
\* gets through has left everything there and whole, whatever was left before,
\* but for components a class base or deployment of which is somebody else's.
THEOREM UpLeavesAll == Spec => []UpBuilds
<1>1. MineInv => UpBuilds
  BY DEF MineInv
<1> QED BY <1>1, MineKept, PTL

\* deployfns.go: ... and every deployment with its variation, as long as no
\* teardown was left half way.
THEOREM UpLeavesVaried == Spec => []UpVariesIntact
<1>1. MineInv => UpVariesIntact
  BY DEF MineInv
<1> QED BY <1>1, MineKept, PTL

\* What no step does to a space that is somebody else's.
Spared(s) ==
  /\ Has(s)' = Has(s)
  /\ \A u \in Unit : org'.layers[s][u] \ org.layers[s][u] \subseteq
       (IF s \in Unchecked THEN {"policy", "protection"} ELSE {})
  /\ s \notin Unchecked => org'.mark[s] = org.mark[s]

Untouched ==
  /\ \A s \in Space : org.owner[s] = "other" =>
       /\ org'.owner[s] = "other" /\ s \notin org'.patched
       /\ s[1] = "cluster" => s[2] \notin org'.target
       /\ Has(s)' = Has(s)
       /\ \A u \in Unit : org'.layers[s][u] \ org.layers[s][u] \subseteq
            (IF s \in Unchecked THEN {"policy", "protection"} ELSE {})
       /\ s \notin Unchecked => org'.mark[s] = org.mark[s]
  /\ \A c \in Component : org.component[c] \in {"claimed", "other"} =>
       org'.component[c] = org.component[c]

LEMMA SpacesUntouched ==
  ASSUME Inv, [Next]_vars, NEW s \in Space, org.owner[s] = "other"
  PROVE  Spared(s)
<1>0. OrgTypeOK /\ OwnInv /\ RunTypeOK /\ UpInv /\ OrgTypeOK'
  BY NextInv DEF Inv, OrgInv
<1>1. ~Ours(s) /\ s \notin org.patched
  BY <1>0 DEF Ours, OwnInv
<1>s. ASSUME \A u \in Unit : org'.layers[s][u] = org.layers[s][u], org'.mark[s] = org.mark[s] PROVE Spared(s)
  BY <1>s DEF Spared, Has
<1>2. CASE at # 0 /\ command = "up" /\ UpEffect /\ UpKeeping
  <2>3. ASSUME NEW c \in Component, NEW u \in Units[c], Fills(c, u) PROVE Spared(s)
    <3>1. s # Root(c)
      BY <1>0, <1>1, <1>2, <2>3, Worked DEF Fills
    <3> QED BY <1>0, <1>s, <2>3, <3>1, FillsFields
  <2>4. ASSUME NEW V \in SUBSET (ClassBases \union Deployments), Clones(V) PROVE Spared(s)
    <3>1. s \notin V
      BY <1>1, <2>4 DEF Clones, Cloneable
    <3>2. \A u \in Unit : org'.layers[s][u] = org.layers[s][u]
      BY <1>0, <2>4, <3>1, ClonesFields
    <3>3. org'.mark[s] = org.mark[s]
      BY <1>0, <2>4, ClonesFields
    <3> QED BY <1>s, <3>2, <3>3
  <2>5. ASSUME NEW b \in ClassBases, MarksClass(b) PROVE Spared(s)
    <3>1. Mark(b, 1) /\ b \in Space
      BY <2>5, ClassBaseIs DEF MarksClass
    <3>2. \A u \in Unit : org'.layers[s][u] = org.layers[s][u]
      BY <1>0, <3>1, MarkFields
    <3>3. b # s => org'.mark[s] = org.mark[s]
      BY <1>0, <3>1, MarkFields
    <3>4. b = s => s \in Unchecked
      BY DEF Unchecked
    <3> QED BY <3>2, <3>3, <3>4 DEF Spared, Has
  <2>6. ASSUME NEW c \in Component, MarksRoot(c) PROVE Spared(s)
    <3>1. Mark(Root(c), Cardinality(Placement[c])) /\ Root(c) \in Space /\ Root(c) # s
      BY <1>0, <1>1, <1>2, <2>6, Worked, OfComponent, RootIs DEF MarksRoot
    <3> QED BY <1>0, <1>s, <3>1, Numbers, MarkFields
  <2>7. ASSUME NEW V \in SUBSET (ClassBases \union Deployments), NEW U, NEW layer, Stamps(V, U, layer) PROVE Spared(s)
    <3>2. \A v \in Space, w \in Unit : org'.layers[v][w] =
              IF v \in V /\ w \in U \intersect Has(v) THEN org.layers[v][w] \union {layer} ELSE org.layers[v][w]
      BY <1>0, <2>7, StampsFields
    <3>3. org'.mark[s] = org.mark[s]
      BY <1>0, <2>7, StampsFields
    <3>4. CASE s \notin V
      BY <1>s, <3>2, <3>3, <3>4
    <3>5. CASE s \in V
      <4>1. s \in Unchecked
        BY <3>5 DEF Unchecked
      <4>2. layer \in {"policy", "protection"}
        BY <1>1, <2>7, <3>5 DEF Stamps
      <4>3. Has(s)' = Has(s)
        BY <1>0, <2>7, StampsFields
      <4>4. ASSUME NEW w \in Unit PROVE org'.layers[s][w] \ org.layers[s][w] \subseteq {layer}
        <5> DEFINE old == org.layers[s][w]
                   new == org'.layers[s][w]
        <5>1. new = old \union {layer} \/ new = old
          BY <3>2
        <5> HIDE DEF old, new
        <5>2. new \ old \subseteq {layer}
          BY <5>1
        <5> QED BY <5>2 DEF old, new
      <4> QED BY <4>1, <4>2, <4>3, <4>4 DEF Spared
    <3> QED BY <3>4, <3>5
  <2>8. ASSUME NEW x \in Space, Takes(x) PROVE Spared(s)
    BY <1>0, <1>s, <2>8, TakesFields
  <2> QED BY <1>0, <1>2, <1>s, <2>3, <2>4, <2>5, <2>6, <2>7, <2>8, ConnectsFields, AdoptsFields, TurnsFields DEF UpEffect
<1>3. CASE \E x \in todo : Deletes(x) \/ \E c \in Component : Disowns(c)
  <2>1. ASSUME NEW x, Deletes(x) PROVE Spared(s)
    <3>1. x # s
      BY <1>1, <2>1 DEF Deletes
    <3> QED BY <1>0, <1>s, <2>1, <3>1, DeletesFields
  <2>2. ASSUME NEW c \in Component, Disowns(c) PROVE Spared(s)
    BY <1>0, <1>s, <2>2, DisownsFields
  <2> QED BY <1>3, <2>1, <2>2
<1>4. CASE org' = org
  BY <1>4, <1>s
<1> QED BY <1>2, <1>3, <1>4, StepEffect

LEMMA NothingTouched ==
  ASSUME Inv, [Next]_vars
  PROVE  Untouched
<1>0. OrgTypeOK /\ OwnInv /\ OwnInv'
  BY NextInv DEF Inv, OrgInv
<1>1. ASSUME NEW s \in Space, org.owner[s] = "other"
      PROVE  /\ org'.owner[s] = "other" /\ s \notin org'.patched
             /\ s[1] = "cluster" => s[2] \notin org'.target
  <2>1. org'.owner[s] = "other"
    BY <1>1, StaysTheirs
  <2>2. s[1] = "cluster" => s \in ClusterSpaces
    BY Kinds, HomeIs, RootIs, ClassBaseIs, DeploymentIs
  <2>3. s[1] = "cluster" => s = ClusterSpace(s[2])
    BY <2>2, ClusterIs
  <2> QED BY <1>0, <2>1, <2>3 DEF OwnInv, Ours
<1>2. ASSUME NEW c \in Component, org.component[c] \in {"claimed", "other"} PROVE org'.component[c] = org.component[c]
  <2>1. ASSUME NEW e \in Component, Disowns(e) PROVE org'.component[c] = org.component[c]
    <3>1. e # c
      BY <1>2, <2>1 DEF Disowns
    <3>2. org'.component = [org.component EXCEPT ![e] = "none"]
      BY <1>0, <2>1, DisownsFields
    <3>3. DOMAIN org.component = Component
      BY <1>0 DEF OrgTypeOK
    <3> QED BY <3>1, <3>2, <3>3
  <2> QED BY <1>0, <1>2, <2>1, DeletesFields, StepEffect DEF UpKeeping
<1> QED BY <1>1, <1>2, SpacesUntouched DEF Untouched, Spared

\* ensureSpace and ensureComponent (seeder.go), the bulk clones (bases.go,
\* deployments.go) and what down lists: no call deletes, relabels or builds in
\* what is somebody else's, and what is read back and looked at none touches.
THEOREM NoneOfTheirs == Spec => NoTrespass
<1>1. Inv /\ [Next]_vars => Untouched
  BY NothingTouched
<1> QED BY <1>1, OrgKept, PTL DEF Spec, NoTrespass, Untouched
=============================================================================

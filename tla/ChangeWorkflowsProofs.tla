------------------------ MODULE ChangeWorkflowsProofs ------------------------
(***************************************************************************)
(* Theorems about ChangeWorkflows: that it is type correct, that no order  *)
(* that may still move loses the workflow it is promoted under, that no    *)
(* run touches the rules people set, and that a run that gets through      *)
(* leaves the workflows and the rules the definition in force asks for.    *)
(***************************************************************************)
EXTENDS ChangeWorkflows, TLAPS

USE DefinitionsAssumption, EarlyAssumption, BoundsAssumption

\* Every entity, as it is and as it was listed, bears an ID that was given out.
Entity(e, w) ==
  /\ e = [body |-> e.body, added |-> e.added, id |-> e.id]
  /\ e.added \in BOOLEAN /\ e.id \in 1 .. made[w]

Entities ==
  /\ \A w \in There : Entity(workflow[w], w)
  /\ \A w \in DOMAIN seen : Entity(seen[w], w)

\* Where a run stands: what it still has to do, and that what it is done with
\* is there. Nothing the definition wants is retired, so what was listed still
\* is when it comes to be ensured, and rules are set by IDs that were listed.
Standing ==
  /\ at # "off" => outcome = "running"
  /\ at = "retire" => todo \union doomed \subseteq Slug \ (Wanted \union {Review})
  /\ at # "retire" => doomed = {}
  /\ at \in {"retire", "ensure", "review"} => DOMAIN seen \intersect (Wanted \union {Review}) \subseteq There
  /\ at = "ensure" => todo \subseteq Wanted /\ Wanted \ todo \subseteq There
  /\ at = "review" => todo \subseteq {Review} /\ Wanted \subseteq There
  /\ at = "rules" => todo \subseteq scenario.components /\ Wanted \union {Review} \subseteq DOMAIN seen

Inv == TypeOK /\ Entities /\ Standing

-----------------------------------------------------------------------------
(* The slugs *)

LEMMA Slugs ==
  /\ Review \in Slug
  /\ \A c \in Component : Own(c) \in Slug
  /\ \A c, d \in Component : Own(c) = Own(d) => c = d
  /\ \A w \in Slug : w[1] = "own" => \E c \in Component : w = Own(c)
  /\ \A c \in Component : Own(c)[1] = "own"
BY DEF Slug, Rollout, Review, Own

LEMMA WantedSlugs ==
  ASSUME scenario \in Definitions
  PROVE  /\ Wanted \subseteq Slug
         /\ \A c \in scenario.components : c \in Component /\ WorkflowFor(c) \in Wanted
         /\ Review \notin Wanted
<1>1. \A c \in scenario.components : c \in Component /\ scenario.placed[c] \in (SUBSET Class) \ {{}}
  OBVIOUS
<1>2. QED
  BY <1>1 DEF Wanted, WorkflowFor, Slug, Rollout, Review

-----------------------------------------------------------------------------
(* What the calls of a run preserve *)

LEMMA CreatedKeeps ==
  ASSUME Inv, NEW w \in Slug, NEW body, Created(w, body), seen' = seen
  PROVE  /\ Entities' /\ There' = There \union {w} /\ made' \in [Slug -> Nat]
         /\ \A x \in There' : workflow'[x].added \in BOOLEAN /\ workflow'[x].id \in 1 .. made'[x]
<1> USE DEF Inv, TypeOK, Entities, Entity, Created, Change, There
<1>1. There' = There \union {w}
  OBVIOUS
<1>2. \A x \in Slug : made'[x] \in Nat /\ made'[x] >= made[x]
  OBVIOUS
<1>3. made'[w] = made[w] + 1 /\ made[w] \in Nat
  OBVIOUS
<1>4. \A x \in DOMAIN seen : Entity(seen[x], x)'
  BY <1>2
<1>5. \A x \in There : Entity(workflow[x], x)' /\ workflow'[x] = workflow[x]
  BY <1>2
<1>6. workflow'[w] = [body |-> body, added |-> FALSE, id |-> made[w] + 1]
  OBVIOUS
<1>7. Entity(workflow[w], w)'
  <2>1. made'[w] \in Nat /\ made[w] + 1 \in 1 .. made'[w]
    BY <1>3
  <2>2. QED
    BY <2>1, <1>6, Zenon DEF Entity
<1>8. \A x \in There' : Entity(workflow[x], x)'
  <2> TAKE x \in There'
  <2> HIDE DEF Inv, TypeOK, Entities, Entity, Created, Change, There
  <2>1. x = w \/ x \in There
    BY <1>1
  <2> QED BY <1>5, <1>7, <2>1
<1>9. made' \in [Slug -> Nat]
  OBVIOUS
<1>10. \A x \in There' : workflow'[x].added \in BOOLEAN /\ workflow'[x].id \in 1 .. made'[x]
  BY <1>8, Zenon
<1>11. Entities'
  BY <1>4, <1>8, Zenon
<1> QED BY <1>1, <1>9, <1>10, <1>11, Zenon

LEMMA ReplacedKeeps ==
  ASSUME Inv, NEW w \in Slug, NEW e, Entity(e, w), Replaced(w, e), seen' = seen
  PROVE  /\ Entities' /\ There' = There /\ made' = made
         /\ \A x \in There' : workflow'[x].added \in BOOLEAN /\ workflow'[x].id \in 1 .. made'[x]
BY DEF Inv, TypeOK, Entities, Entity, Replaced, There

LEMMA DeletedKeeps ==
  ASSUME Inv, NEW w, Deleted(w), seen' = seen
  PROVE  /\ Entities' /\ There' = There \ {w} /\ made' = made
         /\ \A x \in There' : workflow'[x].added \in BOOLEAN /\ workflow'[x].id \in 1 .. made'[x]
BY DEF Inv, TypeOK, Entities, Entity, Deleted, There

\* A workflow that is still to be ensured is there afterwards.
LEMMA EnsureKeeps ==
  ASSUME Inv, NEW w \in todo, at \in {"ensure", "review"}, EnsureWorkflow(w), seen' = seen
  PROVE  /\ Entities' /\ There' = There \union {w} /\ made' \in [Slug -> Nat] /\ w \in Slug
         /\ \A x \in There' : workflow'[x].added \in BOOLEAN /\ workflow'[x].id \in 1 .. made'[x]
         /\ UNCHANGED <<rule, under, shared>>
<1>1. w \in Slug /\ w \in Wanted \union {Review}
  BY WantedSlugs, Slugs DEF Inv, TypeOK, Standing
<1>2. w \in DOMAIN seen => w \in There /\ Entity(seen[w], w)
  BY <1>1 DEF Inv, Standing, Entities
<1>3. CASE w \notin DOMAIN seen
  <2>1. Created(w, Body(w, user))
    BY <1>3 DEF EnsureWorkflow
  <2>2. UNCHANGED <<rule, under, shared>>
    BY <2>1 DEF Created
  <2>3. QED
    BY <1>1, <2>1, <2>2, CreatedKeeps
<1>4. CASE w \in DOMAIN seen /\ seen[w].body = Body(w, user)
  <2>1. UNCHANGED orgVars
    BY <1>4 DEF EnsureWorkflow
  <2>2. There' = There \union {w}
    BY <1>2, <1>4, <2>1 DEF orgVars, There
  <2>3. QED
    BY <1>1, <2>1, <2>2 DEF orgVars, Inv, TypeOK, Entities, Entity, There
<1>5. CASE w \in DOMAIN seen /\ seen[w].body # Body(w, user)
  <2> DEFINE e == [seen[w] EXCEPT !.body = Body(w, user)]
  <2>1. Replaced(w, e)
    BY <1>5 DEF EnsureWorkflow
  <2>2. seen[w] = [body |-> seen[w].body, added |-> seen[w].added, id |-> seen[w].id]
    BY <1>2, <1>5 DEF Entity
  <2>3. e = [body |-> Body(w, user), added |-> seen[w].added, id |-> seen[w].id]
    BY <2>2
  <2>4. Entity(e, w)
    BY <1>2, <1>5, <2>3 DEF Entity
  <2>5. Entities' /\ There' = There /\ made' = made
        /\ \A x \in There' : workflow'[x].added \in BOOLEAN /\ workflow'[x].id \in 1 .. made'[x]
    <3> HIDE DEF e
    <3> QED BY <1>1, <2>1, <2>4, ReplacedKeeps
  <2>6. UNCHANGED <<rule, under, shared>>
    BY <2>1 DEF Replaced
  <2>7. QED
    BY <1>1, <1>2, <1>5, <2>5, <2>6 DEF Inv, TypeOK
<1>6. QED
  BY <1>3, <1>4, <1>5

\* A rule allows workflows by the IDs they were listed with.
LEMMA PolicyKeeps ==
  ASSUME Inv, NEW c \in todo, at = "rules", ReviewPolicy(c)
  PROVE  /\ c \in Component /\ c \in scenario.components
         /\ rule' \in [Component -> RuleType]
         /\ UNCHANGED <<workflow, made, under, shared>>
<1>0. c \in Component /\ c \in scenario.components
  BY WantedSlugs DEF Inv, TypeOK, Standing
<1>1. {SeenId(Review), SeenId(WorkflowFor(c))} \subseteq Slug \X Nat
  <2>1. Review \in DOMAIN seen /\ WorkflowFor(c) \in DOMAIN seen
    BY <1>0, WantedSlugs DEF Inv, TypeOK, Standing
  <2>2. \A w \in DOMAIN seen : w \in Slug /\ seen[w].id \in Nat
    BY DEF Inv, TypeOK, Entities, Entity
  <2>3. QED
    BY <2>1, <2>2 DEF SeenId
<1> DEFINE given == [required |-> TRUE, allowed |-> {SeenId(Review), SeenId(WorkflowFor(c))}, seeded |-> TRUE]
<1>2. given \in RuleType
  BY <1>1 DEF RuleType
<1>3. NoRule \in RuleType
  BY DEF RuleType, NoRule
<1>5. RuleSet(c, given) \/ RuleSet(c, NoRule) \/ UNCHANGED orgVars
  BY DEF ReviewPolicy
<1>6. CASE UNCHANGED orgVars
  BY <1>0, <1>6 DEF orgVars, Inv, TypeOK
<1>7. CASE RuleSet(c, given) \/ RuleSet(c, NoRule)
  <2>1. rule \in [Component -> RuleType]
    BY DEF Inv, TypeOK
  <2>2. PICK r \in RuleType : rule' = [rule EXCEPT ![c] = r]
    BY <1>2, <1>3, <1>7 DEF RuleSet
  <2>3. rule' \in [Component -> RuleType]
    BY <1>0, <2>1, <2>2
  <2>4. QED
    BY <1>0, <1>7, <2>3 DEF RuleSet
<1>8. QED
  BY <1>5, <1>6, <1>7

\* The rest of the type invariant and of Standing, for the steps that leave
\* the workflows as they are.
LEMMA StopKeeps ==
  ASSUME Inv, NEW r \in {"failed", "ok"}, Stop(r), UNCHANGED scenario,
         Entities', There' \subseteq Slug, made' \in [Slug -> Nat],
         \A x \in There' : workflow'[x].added \in BOOLEAN /\ workflow'[x].id \in 1 .. made'[x],
         rule' \in [Component -> RuleType], touched' = touched,
         under' \in [Component -> OrderState], shared' \in [Component -> OrderState],
         events' \in 0 .. MaxEvents
  PROVE  Inv'
<1>1. TypeOK'
  BY DEF Inv, TypeOK, Stop
<1>2. Standing'
  BY DEF Stop, Standing
<1>3. QED
  BY <1>1, <1>2 DEF Inv

LEMMA InvInit == Init => Inv
<1> SUFFICES ASSUME Init PROVE Inv
  OBVIOUS
<1> USE DEF Init
<1>1. PICK old \in SUBSET Early :
        /\ workflow = [w \in {Own(c) : c \in old} |-> [body |-> {}, added |-> FALSE, id |-> 1]]
        /\ made = [w \in Slug |-> IF w \in DOMAIN workflow THEN 1 ELSE 0]
  OBVIOUS
<1>2. There \subseteq Slug
  BY <1>1, Slugs DEF There
<1>3. DOMAIN seen = {}
  OBVIOUS
<1>4. Entities
  <2>1. \A w \in There : workflow[w] = [body |-> {}, added |-> FALSE, id |-> 1] /\ made[w] = 1
    BY <1>1, <1>2 DEF There
  <2>2. ASSUME NEW w \in There PROVE Entity(workflow[w], w)
    <3> HIDE DEF Init
    <3> DEFINE e == [body |-> {}, added |-> FALSE, id |-> 1]
    <3>1. e = [body |-> e.body, added |-> e.added, id |-> e.id] /\ e.added \in BOOLEAN
      OBVIOUS
    <3>2. e.id \in 1 .. made[w]
      <4>1. e.id = 1
        OBVIOUS
      <4>2. made[w] = 1
        BY <2>1
      <4> HIDE DEF e
      <4> QED BY <4>1, <4>2
    <3>3. Entity(e, w)
      <4> HIDE DEF e
      <4> QED BY <3>1, <3>2 DEF Entity
    <3>4. QED
      BY <2>1, <3>3, Zenon
  <2>3. QED
    BY <2>2, <1>3 DEF Entities
<1>5. rule \in [Component -> RuleType]
  BY DEF RuleType
<1>6. made \in [Slug -> Nat]
  BY <1>1
<1>7. \A x \in There : workflow[x].added \in BOOLEAN /\ workflow[x].id \in 1 .. made[x]
  BY <1>4 DEF Entities, Entity
<1>8. TypeOK
  <2>1. under \in [Component -> OrderState] /\ shared \in [Component -> OrderState]
    BY DEF OrderState
  <2>2. index \in [Component -> RuleType]
    BY <1>5
  <2>3. runs \in 0 .. MaxRuns /\ events \in 0 .. MaxEvents
    OBVIOUS
  <2>4. scenario \in Definitions /\ at = "off" /\ user \in User /\ todo = {} /\ doomed = {}
        /\ noted = {} /\ touched = {} /\ outcome = "none"
    OBVIOUS
  <2>5. QED
    BY <1>2, <1>3, <1>5, <1>6, <1>7, <2>1, <2>2, <2>3, <2>4 DEF TypeOK
<1>9. Standing
  BY <1>3 DEF Standing
<1>10. QED
  BY <1>4, <1>8, <1>9 DEF Inv

LEMMA PhaseKeeps ==
  ASSUME Inv, Phase
  PROVE  Inv'
<1> USE DEF Goes
<1>1. CASE JudgeStale
  BY <1>1 DEF JudgeStale, orgVars, Inv, TypeOK, Entities, Entity, Standing, Wanted, WorkflowFor, There
<1>2. CASE StaleDone
  <2>1. Wanted \subseteq Slug
    BY WantedSlugs DEF Inv, TypeOK
  <2>2. TypeOK'
    BY <1>2, <2>1 DEF StaleDone, orgVars, Inv, TypeOK, There
  <2>3. Entities'
    BY <1>2 DEF StaleDone, orgVars, Inv, Entities, Entity, There
  <2>4. Standing'
    BY <1>2 DEF StaleDone, orgVars, Inv, Standing, Wanted, WorkflowFor, There
  <2>5. QED
    BY <2>2, <2>3, <2>4 DEF Inv
<1>3. CASE Ensured
  <2>1. CASE at = "ensure" /\ scenario.review
    <3>1. Goes("review", {Review}) /\ UNCHANGED seen /\ at' = "review"
      BY <1>3, <2>1 DEF Ensured
    <3>2. UNCHANGED <<scenario, orgVars, touched, events>>
      BY <1>3 DEF Ensured
    <3>3. TypeOK'
      BY <3>1, <3>2, Slugs DEF orgVars, Inv, TypeOK, There
    <3>4. Entities'
      BY <3>1, <3>2 DEF orgVars, Inv, Entities, Entity, There
    <3>5. Standing'
      BY <1>3, <2>1, <3>1, <3>2 DEF Ensured, orgVars, Inv, Standing, Wanted, WorkflowFor, There
    <3>6. QED
      BY <3>3, <3>4, <3>5 DEF Inv
  <2>2. CASE ~(at = "ensure" /\ scenario.review) /\ Review \in There
    <3>1. Goes("rules", scenario.components) /\ seen' = workflow /\ Wanted \subseteq There
      BY <1>3, <2>2 DEF Ensured, Inv, Standing
    <3>2. UNCHANGED <<scenario, orgVars, touched, events>>
      BY <1>3 DEF Ensured
    <3>3. TypeOK'
      BY <3>1, <3>2 DEF orgVars, Inv, TypeOK, There
    <3>4. Entities'
      BY <3>1, <3>2 DEF orgVars, Inv, Entities, Entity, There
    <3>5. Standing'
      BY <1>3, <2>2, <3>1, <3>2 DEF Ensured, orgVars, Inv, Standing, Wanted, WorkflowFor, There
    <3>6. QED
      BY <3>3, <3>4, <3>5 DEF Inv
  <2>3. CASE ~(at = "ensure" /\ scenario.review) /\ Review \notin There
    <3>1. Stop("ok") /\ UNCHANGED <<scenario, orgVars, touched, events>>
      BY <1>3, <2>3 DEF Ensured
    <3>2. Entities'
      BY <3>1 DEF Stop, orgVars, Inv, Entities, Entity, There
    <3>3. QED
      BY <3>1, <3>2, StopKeeps DEF orgVars, Inv, TypeOK, There
  <2>4. QED
    BY <2>1, <2>2, <2>3
<1>4. CASE RulesDone
  <2>1. Stop("ok") /\ UNCHANGED <<scenario, orgVars, touched, events>>
    BY <1>4 DEF RulesDone
  <2>2. Entities'
    BY <2>1 DEF Stop, orgVars, Inv, Entities, Entity, There
  <2>3. QED
    BY <2>1, <2>2, StopKeeps DEF orgVars, Inv, TypeOK, There
<1>5. CASE at = "retire" /\ DeleteStale /\ UNCHANGED events
  <2>1. PICK w \in doomed : Deleted(w)
    BY <1>5 DEF DeleteStale
  <2>2. Entities' /\ There' = There \ {w} /\ made' = made
        /\ \A x \in There' : workflow'[x].added \in BOOLEAN /\ workflow'[x].id \in 1 .. made'[x]
    BY <1>5, <2>1, DeletedKeeps DEF DeleteStale
  <2>3. TypeOK'
    BY <1>5, <2>1, <2>2 DEF DeleteStale, Deleted, Inv, TypeOK
  <2>4. Standing'
    BY <1>5, <2>1, <2>2 DEF DeleteStale, Inv, Standing, Wanted, WorkflowFor
  <2>5. QED
    BY <2>2, <2>3, <2>4 DEF Inv
<1>6. CASE EnsureNext /\ UNCHANGED events
  <2>1. PICK w \in todo : EnsureWorkflow(w) /\ todo' = todo \ {w}
    BY <1>6 DEF EnsureNext
  <2>2. /\ Entities' /\ There' = There \union {w} /\ made' \in [Slug -> Nat] /\ w \in Slug
        /\ \A x \in There' : workflow'[x].added \in BOOLEAN /\ workflow'[x].id \in 1 .. made'[x]
        /\ UNCHANGED <<rule, under, shared>>
    BY <1>6, <2>1, EnsureKeeps DEF EnsureNext
  <2>3. TypeOK'
    BY <1>6, <2>1, <2>2 DEF EnsureNext, Inv, TypeOK
  <2>4. Standing'
    BY <1>6, <2>1, <2>2 DEF EnsureNext, Inv, Standing, Wanted, WorkflowFor
  <2>5. QED
    BY <2>2, <2>3, <2>4 DEF Inv
<1>7. CASE SetRule /\ UNCHANGED events
  <2>1. PICK c \in todo : ReviewPolicy(c) /\ todo' = todo \ {c}
    BY <1>7 DEF SetRule
  <2>3. rule' \in [Component -> RuleType] /\ UNCHANGED <<workflow, made, under, shared>>
    BY <1>7, <2>1, PolicyKeeps DEF SetRule
  <2>4. TypeOK'
    BY <1>7, <2>1, <2>3 DEF SetRule, Inv, TypeOK, There
  <2>5. Entities'
    BY <1>7, <2>3 DEF SetRule, Inv, Entities, Entity, There
  <2>6. Standing'
    BY <1>7, <2>1, <2>3 DEF SetRule, Inv, Standing, Wanted, WorkflowFor, There
  <2>7. QED
    BY <2>4, <2>5, <2>6 DEF Inv
<1>8. QED
  BY <1>1, <1>2, <1>3, <1>4, <1>5, <1>6, <1>7 DEF Phase, Call

LEMMA MishapsKeep ==
  ASSUME Inv, Interrupted \/ AnswerLost
  PROVE  Inv'
<1> USE DEF Happens
<1>1. events' \in 0 .. MaxEvents /\ Stop("failed") /\ UNCHANGED scenario /\ touched' = touched
  BY DEF Interrupted, AnswerLost, Inv, TypeOK
<1>2. seen' = seen
  BY <1>1 DEF Stop
<1>3. CASE Interrupted
  <2>1. UNCHANGED orgVars
    BY <1>3 DEF Interrupted
  <2>2. Entities'
    BY <1>2, <2>1 DEF orgVars, Inv, Entities, Entity, There
  <2>3. QED
    BY <1>1, <2>1, <2>2, StopKeeps DEF orgVars, Inv, TypeOK, There
<1>4. CASE AnswerLost
  <2>1. ASSUME NEW w \in doomed, Deleted(w) PROVE Inv'
    <3>1. Entities' /\ There' = There \ {w} /\ made' = made
          /\ \A x \in There' : workflow'[x].added \in BOOLEAN /\ workflow'[x].id \in 1 .. made'[x]
      BY <1>2, <2>1, DeletedKeeps
    <3>2. QED
      BY <1>1, <2>1, <3>1, StopKeeps DEF Deleted, Inv, TypeOK
  <2>2. ASSUME at \in {"ensure", "review"}, NEW w \in todo, EnsureWorkflow(w) PROVE Inv'
    <3>1. /\ Entities' /\ There' = There \union {w} /\ made' \in [Slug -> Nat] /\ w \in Slug
          /\ \A x \in There' : workflow'[x].added \in BOOLEAN /\ workflow'[x].id \in 1 .. made'[x]
          /\ UNCHANGED <<rule, under, shared>>
      BY <1>2, <2>2, EnsureKeeps
    <3>2. QED
      BY <1>1, <3>1, StopKeeps DEF Inv, TypeOK
  <2>3. ASSUME at = "rules", NEW c \in todo, ReviewPolicy(c) PROVE Inv'
    <3>2. rule' \in [Component -> RuleType] /\ UNCHANGED <<workflow, made, under, shared>>
      BY <2>3, PolicyKeeps
    <3>3. Entities'
      BY <1>2, <3>2 DEF Inv, Entities, Entity, There
    <3>4. QED
      BY <1>1, <3>2, <3>3, StopKeeps DEF Inv, TypeOK, There
  <2>4. QED
    BY <1>4, <2>1, <2>2, <2>3 DEF AnswerLost
<1>5. QED
  BY <1>3, <1>4

LEMMA UpKeeps ==
  ASSUME Inv, NEW u \in User, Up(u)
  PROVE  Inv'
<1> USE DEF Up, orgVars, Inv
<1>1. TypeOK'
  BY DEF TypeOK, There
<1>2. Entities'
  BY DEF Entities, Entity, There
<1>3. Standing'
  BY DEF TypeOK, Standing, Wanted, WorkflowFor, There
<1>4. QED
  BY <1>1, <1>2, <1>3

\* What people do to one rule, and to one entity, keeps its type.
LEMMA RuleEdited ==
  ASSUME NEW r \in RuleType, NEW ids \in SUBSET (Slug \X Nat), NEW q \in BOOLEAN
  PROVE  /\ [r EXCEPT !.required = q] \in RuleType
         /\ [required |-> q, allowed |-> ids, seeded |-> r.seeded] \in RuleType
<1>1. r.allowed \in SUBSET (Slug \X Nat) /\ r.seeded \in BOOLEAN
  BY DEF RuleType
<1>2. [r EXCEPT !.required = q] = [required |-> q, allowed |-> r.allowed, seeded |-> r.seeded]
  BY DEF RuleType
<1>3. [required |-> q, allowed |-> r.allowed, seeded |-> r.seeded] \in RuleType
  BY <1>1 DEF RuleType
<1>4. [required |-> q, allowed |-> ids, seeded |-> r.seeded] \in RuleType
  BY <1>1 DEF RuleType
<1>5. QED
  BY <1>2, <1>3, <1>4, Zenon

LEMMA EntityAdded ==
  ASSUME NEW e, NEW w, Entity(e, w), NEW q \in BOOLEAN
  PROVE  Entity([e EXCEPT !.added = q], w)
<1> DEFINE f == [body |-> e.body, added |-> q, id |-> e.id]
<1>1. [e EXCEPT !.added = q] = f
  BY DEF Entity
<1>2. f = [body |-> f.body, added |-> f.added, id |-> f.id] /\ f.added \in BOOLEAN /\ f.id = e.id
  OBVIOUS
<1>3. e.id \in 1 .. made[w]
  BY DEF Entity
<1> HIDE DEF f
<1>4. Entity(f, w)
  BY <1>2, <1>3 DEF Entity
<1>5. QED
  BY <1>1, <1>4, Zenon

LEMMA PeopleKeep ==
  ASSUME Inv, People
  PROVE  Inv'
<1> USE DEF Happens, Inv, upVars
<1>1. CASE Updated
  BY <1>1 DEF Updated, orgVars, TypeOK, Entities, Entity, Standing, There
<1>2. ASSUME NEW c \in Component, Beat(c) PROVE Inv'
  <2>1. events' \in 0 .. MaxEvents /\ touched' \subseteq Component
    BY <1>2 DEF Beat, TypeOK
  <2>2. UNCHANGED <<scenario, workflow, made, under, shared, upVars>>
    BY <1>2 DEF Beat, RuleSet
  <2>3. rule' \in [Component -> RuleType]
    <3>1. \A w \in There : Id(w) \in Slug \X Nat
      BY DEF TypeOK, Id
    <3>2. rule[c] \in RuleType
      BY DEF TypeOK
    <3>3. CASE {Review, WorkflowFor(c)} \subseteq There /\
               RuleSet(c, [required |-> TRUE, allowed |-> {Id(Review), Id(WorkflowFor(c))}, seeded |-> rule[c].seeded])
      <4>1. {Id(Review), Id(WorkflowFor(c))} \in SUBSET (Slug \X Nat)
        BY <3>1, <3>3
      <4>2. [required |-> TRUE, allowed |-> {Id(Review), Id(WorkflowFor(c))}, seeded |-> rule[c].seeded] \in RuleType
        BY <3>2, <4>1, RuleEdited
      <4>3. QED
        BY <3>3, <4>2 DEF RuleSet, TypeOK
    <3>4. CASE RuleSet(c, [rule[c] EXCEPT !.required = FALSE])
      <4>1. [rule[c] EXCEPT !.required = FALSE] \in RuleType
        BY <3>2, RuleEdited
      <4>2. QED
        BY <3>4, <4>1 DEF RuleSet, TypeOK
    <3>5. QED
      BY <1>2, <3>3, <3>4 DEF Beat
  <2>4. TypeOK'
    BY <2>1, <2>2, <2>3 DEF TypeOK, There
  <2>5. Entities' /\ Standing'
    BY <2>2 DEF Entities, Entity, Standing, Wanted, WorkflowFor, There
  <2>6. QED
    BY <2>4, <2>5
<1>3. ASSUME NEW c \in Component, Names(c) \/ Proceeds(c) \/ DeletesRoot(c) PROVE Inv'
  <2>1. UNCHANGED <<scenario, workflow, made, rule, upVars, touched>> /\ events' \in 0 .. MaxEvents
    BY <1>3 DEF Names, Proceeds, DeletesRoot, TypeOK
  <2>2. under' \in [Component -> OrderState] /\ shared' \in [Component -> OrderState]
    BY <1>3 DEF Names, Proceeds, DeletesRoot, Later, OrderState, TypeOK
  <2>3. TypeOK'
    BY <2>1, <2>2 DEF TypeOK, There
  <2>4. Entities' /\ Standing'
    BY <2>1 DEF Entities, Entity, Standing, Wanted, WorkflowFor, There
  <2>5. QED
    BY <2>3, <2>4
<1>4. ASSUME NEW w \in Slug, Adds(w) PROVE Inv'
  <2> DEFINE e == [workflow[w] EXCEPT !.added = TRUE]
  <2>1. w \in There /\ Replaced(w, e) /\ UNCHANGED <<scenario, upVars, touched>> /\ at = "off"
        /\ events' \in 0 .. MaxEvents
    BY <1>4 DEF Adds, TypeOK
  <2>2. Entity(e, w)
    BY <2>1, EntityAdded DEF Entities
  <2> HIDE DEF e
  <2>3. Entities' /\ There' = There /\ made' = made
        /\ \A x \in There' : workflow'[x].added \in BOOLEAN /\ workflow'[x].id \in 1 .. made'[x]
    BY <2>1, <2>2, ReplacedKeeps
  <2>4. TypeOK' /\ Standing'
    BY <2>1, <2>3 DEF Replaced, TypeOK, Standing, Wanted, WorkflowFor
  <2>5. QED
    BY <2>3, <2>4
<1>5. ASSUME NEW w \in Slug, DeletesByHand(w) PROVE Inv'
  <2>1. Deleted(w) /\ at = "off" /\ UNCHANGED <<scenario, upVars, touched, events>>
    BY <1>5 DEF DeletesByHand, Standing
  <2>2. Entities' /\ There' = There \ {w} /\ made' = made
        /\ \A x \in There' : workflow'[x].added \in BOOLEAN /\ workflow'[x].id \in 1 .. made'[x]
    BY <2>1, DeletedKeeps
  <2>3. TypeOK' /\ Standing'
    BY <2>1, <2>2 DEF Deleted, TypeOK, Standing, Wanted, WorkflowFor
  <2>4. QED
    BY <2>2, <2>3
<1>6. QED
  BY <1>1, <1>2, <1>3, <1>4, <1>5 DEF People

LEMMA InvStep == Inv /\ [Next]_vars => Inv'
<1>1. ASSUME Inv, UNCHANGED vars PROVE Inv'
  BY <1>1 DEF vars, orgVars, upVars, Inv, TypeOK, Entities, Entity, Standing, Wanted, WorkflowFor, There
<1>2. QED
  BY <1>1, PhaseKeeps, MishapsKeep, UpKeeps, PeopleKeep DEF Next

LEMMA Invariance == Spec => []Inv
BY InvInit, InvStep, PTL DEF Spec

\* Whatever definitions, people and interruptions come, every variable keeps
\* its type: in particular no rule is ever set to a workflow that was not
\* listed, and every entity's ID was given out for its slug.
THEOREM TypeCorrect == Spec => []TypeOK
<1>1. Inv => TypeOK
  BY DEF Inv
<1>2. QED
  BY Invariance, <1>1, PTL

-----------------------------------------------------------------------------
(* No order that may still move loses its workflow *)

\* What is about to be deleted had no order in flight when it was judged, and
\* an order that has ended never moves again; what people delete by hand is
\* what a run noted, which is never a component's own workflow.
Ended == {"none", "aborted", "deleted"}

KeepInv ==
  /\ \A c \in scenario.components : Own(c) \in doomed => under[c] \in Ended
  /\ \A w \in noted : w[1] = "rollout"

\* What the property says of one step.
Kept ==
  \A c \in scenario.components :
    Own(c) \in There /\ under[c] \in {"moving", "released"} => Own(c) \in There'

\* Steps that take no workflow away and doom and note none.
LEMMA KeepFrame ==
  ASSUME KeepInv, scenario' = scenario, under' = under, There \subseteq There', doomed' \subseteq doomed, noted' \subseteq noted
  PROVE  KeepInv' /\ Kept
BY DEF KeepInv, Kept

\* The deletions: of the doomed, and of the noted.
LEMMA KeepDeleted ==
  ASSUME Inv, KeepInv, NEW w \in doomed \union noted, Deleted(w), scenario' = scenario,
         doomed' \subseteq doomed, noted' = noted
  PROVE  KeepInv' /\ Kept
<1>1. There' = There \ {w} /\ under' = under
  BY DEF Deleted, There
<1>0. scenario.components \subseteq Component
  BY WantedSlugs DEF Inv, TypeOK
<1>2. \A c \in scenario.components : w = Own(c) => under[c] \in Ended
  <2>1. CASE w \in doomed
    BY <2>1 DEF KeepInv
  <2>2. CASE w \in noted
    BY <1>0, <2>2, Slugs DEF KeepInv
  <2>3. QED
    BY <2>1, <2>2
<1>3. QED
  BY <1>1, <1>2 DEF KeepInv, Kept, Ended

LEMMA KeepPhase ==
  ASSUME Inv, KeepInv, Phase
  PROVE  KeepInv' /\ Kept
<1>0. scenario' = scenario
  BY DEF Phase, Call, DeleteStale, EnsureNext, SetRule, JudgeStale, StaleDone, Ensured, RulesDone
<1>1. CASE JudgeStale
  <2>1. PICK w \in todo :
          /\ doomed' = IF MayRetire(w) THEN {w} ELSE {}
          /\ noted' = IF w[1] = "rollout" THEN noted \union {w} ELSE noted
    BY <1>1 DEF JudgeStale
  <2>2. UNCHANGED <<scenario, under, There>>
    BY <1>1 DEF JudgeStale, orgVars, There
  <2>3. ASSUME NEW c \in scenario.components, Own(c) \in doomed' PROVE under[c] \in Ended
    <3>1. w = Own(c) /\ ~InFlight(w[2])
      BY <2>1, <2>3 DEF MayRetire
    <3>2. w[2] = c
      BY <3>1 DEF Own
    <3>3. QED
      BY <3>1, <3>2 DEF InFlight, Ended
  <2>4. QED
    BY <2>1, <2>2, <2>3 DEF KeepInv, Kept
<1>2. CASE DeleteStale
  BY <1>0, <1>2, KeepDeleted DEF DeleteStale
<1>3. CASE StaleDone \/ Ensured \/ RulesDone
  <2>1. UNCHANGED orgVars
    BY <1>3 DEF StaleDone, Ensured, RulesDone
  <2>2. doomed' \subseteq doomed /\ noted' = noted
    BY <1>3 DEF StaleDone, Ensured, RulesDone, Goes, Stop
  <2>3. QED
    BY <1>0, <2>1, <2>2, KeepFrame DEF orgVars, There
<1>4. CASE EnsureNext
  <2>1. PICK w \in todo : EnsureWorkflow(w)
    BY <1>4 DEF EnsureNext
  <2>2. UNCHANGED <<seen, doomed, noted>> /\ at \in {"ensure", "review"}
    BY <1>4 DEF EnsureNext
  <2>3. QED
    BY <1>0, <2>1, <2>2, EnsureKeeps, KeepFrame
<1>5. CASE SetRule
  <2>1. UNCHANGED <<workflow, under>>
    BY <1>5 DEF SetRule, ReviewPolicy, RuleSet, orgVars
  <2>2. UNCHANGED <<doomed, noted>>
    BY <1>5 DEF SetRule
  <2>3. QED
    BY <1>0, <2>1, <2>2, KeepFrame DEF There
<1>6. QED
  BY <1>1, <1>2, <1>3, <1>4, <1>5 DEF Phase, Call

LEMMA KeepMishaps ==
  ASSUME Inv, KeepInv, Interrupted \/ AnswerLost
  PROVE  KeepInv' /\ Kept
<1>1. doomed' \subseteq doomed /\ noted' = noted /\ seen' = seen /\ scenario' = scenario
  BY DEF Interrupted, AnswerLost, Stop
<1>2. CASE Interrupted
  BY <1>1, <1>2, KeepFrame DEF Interrupted, orgVars, There
<1>3. CASE AnswerLost
  <2>1. ASSUME NEW w \in doomed, Deleted(w) PROVE KeepInv' /\ Kept
    BY <1>1, <2>1, KeepDeleted
  <2>2. ASSUME at \in {"ensure", "review"}, NEW w \in todo, EnsureWorkflow(w) PROVE KeepInv' /\ Kept
    BY <1>1, <2>2, EnsureKeeps, KeepFrame
  <2>3. ASSUME NEW c \in todo, ReviewPolicy(c) PROVE KeepInv' /\ Kept
    <3>1. UNCHANGED <<workflow, under>>
      BY <2>3 DEF ReviewPolicy, RuleSet, orgVars
    <3>2. QED
      BY <1>1, <3>1, KeepFrame DEF There
  <2>4. QED
    BY <1>3, <2>1, <2>2, <2>3 DEF AnswerLost
<1>4. QED
  BY <1>2, <1>3

LEMMA KeepPeople ==
  ASSUME Inv, KeepInv, People
  PROVE  KeepInv' /\ Kept
<1>1. CASE Updated
  <2>1. doomed' = {} /\ noted' = noted /\ There' = There
    BY <1>1 DEF Updated, Inv, Standing, orgVars, There
  <2>2. QED
    BY <2>1 DEF KeepInv, Kept
<1>2. ASSUME NEW c \in Component, Beat(c) PROVE KeepInv' /\ Kept
  BY <1>2, KeepFrame DEF Beat, RuleSet, upVars, There
<1>3. ASSUME NEW c \in Component, Names(c) PROVE KeepInv' /\ Kept
  BY <1>3, KeepFrame DEF Names, upVars, There
<1>4. ASSUME NEW c \in Component, Proceeds(c) PROVE KeepInv' /\ Kept
  <2>1. UNCHANGED <<scenario, workflow, doomed, noted>>
    BY <1>4 DEF Proceeds, upVars
  <2>2. \A d \in Component : under[d] \in Ended => under'[d] \in Ended
    BY <1>4 DEF Proceeds, Later, Inv, TypeOK, OrderState, Ended
  <2>3. scenario.components \subseteq Component
    BY WantedSlugs DEF Inv, TypeOK
  <2>4. QED
    BY <2>1, <2>2, <2>3 DEF KeepInv, Kept, There
<1>5. ASSUME NEW w \in Slug, Adds(w) PROVE KeepInv' /\ Kept
  BY <1>5, KeepFrame DEF Adds, Replaced, upVars, There
<1>6. ASSUME NEW w \in Slug, DeletesByHand(w) PROVE KeepInv' /\ Kept
  BY <1>6, KeepDeleted DEF DeletesByHand, upVars
<1>7. ASSUME NEW c \in Component, DeletesRoot(c) PROVE KeepInv' /\ Kept
  <2>1. UNCHANGED <<scenario, workflow, noted>> /\ doomed' = {}
    BY <1>7 DEF DeletesRoot, upVars, Inv, Standing
  <2>2. QED
    BY <2>1 DEF KeepInv, Kept, There
<1>8. QED
  BY <1>1, <1>2, <1>3, <1>4, <1>5, <1>6, <1>7 DEF People

LEMMA KeepStep == Inv /\ KeepInv /\ [Next]_vars => KeepInv' /\ Kept
<1>1. ASSUME KeepInv, UNCHANGED vars PROVE KeepInv' /\ Kept
  BY <1>1, KeepFrame DEF vars, orgVars, upVars, There
<1>2. ASSUME KeepInv, NEW u \in User, Up(u) PROVE KeepInv' /\ Kept
  <2>1. UNCHANGED <<scenario, workflow>> /\ doomed' = {} /\ noted' = {}
    BY <1>2 DEF Up, orgVars
  <2>2. QED
    BY <2>1 DEF KeepInv, Kept, There
<1>3. QED
  BY <1>1, <1>2, KeepPhase, KeepMishaps, KeepPeople DEF Next

\* "deleted unless a change order still in flight is promoted under them"
\* (workflows.go): however often `up` is run, cut short or outrun by people,
\* under whichever definitions, no step takes from an order that may still
\* move the workflow it is promoted under, as long as the definition in force
\* lists the order's component.
THEOREM OrdersKeepWorkflow == Spec => RolloutsKeepWorkflow
<1>1. Init => KeepInv
  BY DEF Init, KeepInv
<1>2. Inv /\ KeepInv /\ [Next]_vars => [Kept]_vars
  BY KeepStep
<1>3. [Kept]_vars =>
        [\A c \in scenario.components :
           Own(c) \in There /\ under[c] \in {"moving", "released"} => Own(c) \in There']_vars
  BY DEF Kept
<1>4. QED
  BY Invariance, <1>1, <1>2, <1>3, KeepStep, PTL DEF Spec, RolloutsKeepWorkflow

-----------------------------------------------------------------------------
(* The rules people set *)

\* What a run remembers as the seeder's rule still is, until the run itself
\* comes to it: only a run takes the mark away.
IndexInv ==
  \A c \in Component :
    at # "off" /\ (at = "rules" => c \in todo) /\ index[c].seeded => rule[c].seeded

LEMMA IndexStep == Inv /\ IndexInv /\ [Next]_vars => IndexInv'
<1> SUFFICES ASSUME Inv, IndexInv, [Next]_vars PROVE IndexInv'
  OBVIOUS
<1>1. CASE UNCHANGED vars
  BY <1>1 DEF vars, orgVars, upVars, IndexInv
<1>2. ASSUME NEW u \in User, Up(u) PROVE IndexInv'
  BY <1>2 DEF Up, orgVars, IndexInv
<1>3. CASE JudgeStale \/ (at = "retire" /\ DeleteStale) \/ StaleDone \/ EnsureNext
  <2>1. rule' = rule /\ index' = index /\ at # "off" /\ at # "rules"
    BY <1>3 DEF JudgeStale, DeleteStale, Deleted, StaleDone, EnsureNext, EnsureWorkflow,
       Created, Replaced, Goes, orgVars
  <2>2. QED
    BY <2>1 DEF IndexInv
<1>4. CASE Ensured
  <2>1. rule' = rule /\ index' = index /\ at # "off" /\ at # "rules"
    BY <1>4 DEF Ensured, Goes, Stop, orgVars
  <2>2. QED
    BY <2>1 DEF IndexInv
<1>5. CASE SetRule
  <2>1. PICK c \in todo : ReviewPolicy(c) /\ todo' = todo \ {c}
    BY <1>5 DEF SetRule
  <2>2. at = "rules" /\ at' = at /\ index' = index
    BY <1>5 DEF SetRule
  <2>3. \A d \in Component \ {c} : rule'[d] = rule[d]
    BY <2>1 DEF ReviewPolicy, RuleSet, orgVars, Inv, TypeOK
  <2>4. QED
    BY <2>1, <2>2, <2>3 DEF IndexInv
<1>6. CASE RulesDone \/ Interrupted \/ AnswerLost
  BY <1>6 DEF RulesDone, Interrupted, AnswerLost, Stop, IndexInv
<1>7. ASSUME NEW c \in Component, Beat(c) PROVE IndexInv'
  <2>1. UNCHANGED upVars
    BY <1>7 DEF Beat
  <2>2. \A d \in Component : rule'[d].seeded = rule[d].seeded
    BY <1>7 DEF Beat, RuleSet, Inv, TypeOK, RuleType
  <2>3. QED
    BY <2>1, <2>2 DEF upVars, IndexInv
<1>8. CASE Updated \/ (\E c \in Component : Names(c) \/ Proceeds(c) \/ DeletesRoot(c))
           \/ (\E w \in Slug : Adds(w) \/ DeletesByHand(w))
  <2>1. UNCHANGED <<rule, at, index, todo>>
    BY <1>8 DEF Updated, Names, Proceeds, DeletesRoot, Adds, Replaced, DeletesByHand, Deleted, orgVars, upVars
  <2>2. QED
    BY <2>1 DEF IndexInv
<1>9. QED
  BY <1>1, <1>2, <1>3, <1>4, <1>5, <1>6, <1>7, <1>8 DEF Next, Phase, Call, People

\* A rule the seeder did not set and the definition does not ask for is passed
\* over, by the rule as it was indexed and so as it is.
LEMMA PolicySpares ==
  ASSUME Inv, IndexInv, NEW c \in todo, at = "rules", ReviewPolicy(c),
         NEW d \in Component, ~rule[d].seeded, ~ReviewRequired(d)
  PROVE  rule'[d] = rule[d]
<1>1. CASE d = c
  <2>1. ~index[c].seeded
    BY <1>1 DEF IndexInv
  <2>2. UNCHANGED orgVars
    BY <1>1, <2>1 DEF ReviewPolicy
  <2>3. QED
    BY <2>2 DEF orgVars
<1>2. CASE d # c
  BY <1>2 DEF ReviewPolicy, RuleSet, orgVars, Inv, TypeOK
<1>3. QED
  BY <1>1, <1>2

\* "one a play or a person gave the policy keeps it" (reviewPolicy): no step of
\* any run, the one whose answer is lost included, touches such a rule.
THEOREM RulesOfPeopleStay == Spec => PeoplesRulesStay
<1> DEFINE Spared == upVars' # upVars => \A c \in Component :
                       ~rule[c].seeded /\ ~ReviewRequired(c) => rule'[c] = rule[c]
<1>1. Inv /\ IndexInv /\ [Next]_vars => [Spared]_vars
  <2> SUFFICES ASSUME Inv, IndexInv, Next, upVars' # upVars,
                      NEW c \in Component, ~rule[c].seeded, ~ReviewRequired(c)
               PROVE  rule'[c] = rule[c]
    OBVIOUS
  <2>1. CASE SetRule
    BY <2>1, PolicySpares DEF SetRule
  <2>2. CASE AnswerLost
    <3>1. ASSUME NEW w \in doomed, Deleted(w) PROVE rule' = rule
      BY <3>1 DEF Deleted
    <3>2. ASSUME NEW w \in todo, EnsureWorkflow(w) PROVE rule' = rule
      BY <3>2 DEF EnsureWorkflow, Created, Replaced, orgVars
    <3>3. ASSUME at = "rules", NEW d \in todo, ReviewPolicy(d) PROVE rule'[c] = rule[c]
      BY <3>3, PolicySpares
    <3>4. QED
      BY <2>2, <3>1, <3>2, <3>3 DEF AnswerLost
  <2>3. CASE \E u \in User : Up(u)
    BY <2>3 DEF Up, orgVars
  <2>4. CASE JudgeStale \/ DeleteStale \/ StaleDone \/ EnsureNext \/ Ensured \/ RulesDone \/ Interrupted
    BY <2>4 DEF JudgeStale, DeleteStale, Deleted, StaleDone, EnsureNext, EnsureWorkflow,
       Created, Replaced, Ensured, RulesDone, Interrupted, orgVars
  <2>5. CASE People
    BY <2>5 DEF People, Updated, Beat, Names, Proceeds, DeletesRoot, Adds, Replaced, DeletesByHand, Deleted, orgVars
  <2>6. QED
    BY <2>1, <2>2, <2>3, <2>4, <2>5 DEF Next, Phase, Call
<1>2. Init => IndexInv
  BY DEF Init, IndexInv
<1>3. QED
  BY Invariance, <1>1, <1>2, IndexStep, PTL DEF Spec, PeoplesRulesStay
-----------------------------------------------------------------------------
(* What a run ensures *)

\* Wanted workflows, and the review one, this run has not come to yet.
Pending ==
  CASE at = "retire" -> Wanted \union {Review}
    [] at = "ensure" -> todo \union {Review}
    [] at = "review" -> todo
    [] OTHER -> {}

\* Those this run, or the one that got through, has ensured.
Done ==
  CASE at = "ensure" -> Wanted \ todo
    [] at = "review" -> Wanted \union ({Review} \ todo)
    [] at = "rules" \/ (at = "off" /\ outcome = "ok") -> Wanted \union (IF scenario.review THEN {Review} ELSE {})
    [] OTHER -> {}

\* What a run has listed is as it was until the run itself comes to it, and
\* what it has ensured stays as the definition says: nothing doomed or noted
\* is wanted.
ListedInv ==
  /\ \A w \in Pending \intersect DOMAIN seen : w \in There /\ workflow[w] = seen[w]
  /\ at = "rules" => seen = workflow
  /\ \A w \in Done : w \in There /\ workflow[w].body = Body(w, user)
  /\ outcome # "none" => noted \intersect (Wanted \union {Review}) = {}
  /\ \A w \in doomed : w[1] = "own"

LEMMA WantedKinds ==
  ASSUME scenario \in Definitions
  PROVE  \A w \in Wanted \union {Review} : w[1] # "own" /\ w \in Slug
BY WantedSlugs, Slugs DEF Wanted, WorkflowFor, Rollout, Review

\* What ensuring one workflow does: its body is the definition's, whatever is
\* there keeps its ID and what people gave it, and every other stays as it is.
LEMMA EnsureDoes ==
  ASSUME Inv, ListedInv, NEW w \in todo, at \in {"ensure", "review"}, EnsureWorkflow(w)
  PROVE  /\ w \in Wanted \union {Review}
         /\ w \in There' /\ workflow'[w].body = Body(w, user)
         /\ \A x \in There' : x # w => x \in There
         /\ \A x \in There : x \in There' /\ (x # w => workflow'[x] = workflow[x])
         /\ w \in There => workflow'[w].id = workflow[w].id /\ workflow'[w].added = workflow[w].added
<1>1. w \in Wanted \union {Review} /\ w \in Pending
  BY DEF Inv, Standing, Pending
<1>2. w \in DOMAIN seen => w \in There /\ workflow[w] = seen[w] /\ Entity(seen[w], w)
  BY <1>1 DEF Inv, Entities, ListedInv
<1>3. CASE w \notin DOMAIN seen
  <2> DEFINE e == [body |-> Body(w, user), added |-> FALSE, id |-> made[w] + 1]
  <2>1. w \notin There /\ workflow' = Change(workflow, w, e)
    BY <1>3 DEF EnsureWorkflow, Created
  <2>2. e.body = Body(w, user)
    OBVIOUS
  <2> HIDE DEF e
  <2>3. QED
    BY <1>1, <2>1, <2>2 DEF Change, There
<1>4. CASE w \in DOMAIN seen /\ seen[w].body = Body(w, user)
  <2>1. workflow' = workflow
    BY <1>4 DEF EnsureWorkflow, orgVars
  <2>2. QED
    BY <1>1, <1>2, <1>4, <2>1 DEF There
<1>5. CASE w \in DOMAIN seen /\ seen[w].body # Body(w, user)
  <2> DEFINE e == [seen[w] EXCEPT !.body = Body(w, user)]
  <2>1. w \in There /\ workflow' = [workflow EXCEPT ![w] = e]
    BY <1>5 DEF EnsureWorkflow, Replaced
  <2>2. e.body = Body(w, user) /\ e.id = seen[w].id /\ e.added = seen[w].added
    BY <1>2, <1>5 DEF Entity
  <2> HIDE DEF e
  <2>3. QED
    BY <1>1, <1>2, <1>5, <2>1, <2>2 DEF There
<1>6. QED
  BY <1>3, <1>4, <1>5

\* Steps that leave the workflows and the list of them alone.
LEMMA ListedFrame ==
  ASSUME ListedInv, UNCHANGED <<scenario, user, seen, workflow>>,
         Pending' \subseteq Pending, Done' \subseteq Done, doomed' \subseteq doomed,
         at' = "rules" => at = "rules", outcome' # "none" => noted' \subseteq noted /\ outcome # "none"
  PROVE  ListedInv'
<1>1. Wanted' = Wanted /\ \A w : Body(w, user)' = Body(w, user)
  BY DEF Wanted, WorkflowFor, Body
<1>2. QED
  BY <1>1 DEF ListedInv, There

\* A run that ends short of its end promises nothing.
LEMMA ListedFailed ==
  ASSUME Inv, ListedInv, Stop("failed"), UNCHANGED scenario, at # "off"
  PROVE  ListedInv'
<1>1. Pending' = {} /\ Done' = {} /\ at' = "off" /\ doomed' = {} /\ noted' = noted /\ outcome = "running"
  BY DEF Stop, Pending, Done, Inv, Standing
<1>2. Wanted' = Wanted
  BY DEF Wanted, WorkflowFor
<1>3. QED
  BY <1>1, <1>2 DEF ListedInv

LEMMA ListedPhase ==
  ASSUME Inv, ListedInv, Phase
  PROVE  ListedInv'
<1>1. UNCHANGED <<scenario, user>>
  BY DEF Phase, Call, DeleteStale, EnsureNext, SetRule, JudgeStale, StaleDone, Ensured, RulesDone, Goes, Stop
<1>2. Wanted' = Wanted /\ \A w : Body(w, user)' = Body(w, user)
  BY <1>1 DEF Wanted, WorkflowFor, Body
<1>3. at # "off" => outcome = "running"
  BY DEF Inv, Standing
<1>4. CASE JudgeStale
  <2>1. PICK w \in todo :
          /\ doomed' = IF MayRetire(w) THEN {w} ELSE {}
          /\ noted' = IF w[1] = "rollout" THEN noted \union {w} ELSE noted
    BY <1>4 DEF JudgeStale
  <2>2. at = "retire" /\ UNCHANGED <<workflow, at, seen, outcome>> /\ w \notin Wanted \union {Review}
    BY <1>4 DEF JudgeStale, orgVars, Inv, Standing
  <2>3. Pending' = Pending /\ Done' = {}
    BY <1>2, <1>3, <2>2 DEF Pending, Done
  <2>4. QED
    BY <1>2, <1>3, <2>1, <2>2, <2>3 DEF ListedInv, MayRetire, There
<1>5. CASE at = "retire" /\ DeleteStale
  <2>1. PICK w \in doomed : Deleted(w)
    BY <1>5 DEF DeleteStale
  <2>2. UNCHANGED <<at, seen, outcome, noted>> /\ doomed' = {} /\ w \notin Wanted \union {Review}
    BY <1>5, <2>1 DEF DeleteStale, Inv, Standing
  <2>3. There' = There \ {w} /\ \A x \in There' : workflow'[x] = workflow[x]
    BY <2>1 DEF Deleted, There
  <2>4. Pending' = Wanted \union {Review} /\ Pending = Wanted \union {Review} /\ Done' = {}
    BY <1>2, <1>3, <1>5, <2>2 DEF Pending, Done
  <2>5. QED
    BY <1>2, <1>3, <1>5, <2>2, <2>3, <2>4 DEF ListedInv
<1>6. CASE StaleDone
  <2>1. at = "retire" /\ at' = "ensure" /\ todo' = Wanted
        /\ UNCHANGED <<workflow, seen, doomed, outcome, noted>>
    BY <1>6 DEF StaleDone, Goes, orgVars
  <2>2. Pending' = Pending /\ Done' = {}
    BY <1>2, <2>1 DEF Pending, Done
  <2>3. QED
    BY <1>1, <1>3, <2>1, <2>2, ListedFrame
<1>7. CASE EnsureNext
  <2>1. PICK w \in todo : EnsureWorkflow(w) /\ todo' = todo \ {w}
    BY <1>7 DEF EnsureNext
  <2>2. at \in {"ensure", "review"} /\ UNCHANGED <<at, seen, doomed, outcome, noted>>
    BY <1>7 DEF EnsureNext
  <2>3. /\ w \in Wanted \union {Review}
        /\ w \in There' /\ workflow'[w].body = Body(w, user)
        /\ \A x \in There : x \in There' /\ (x # w => workflow'[x] = workflow[x])
    BY <2>1, <2>2, EnsureDoes
  <2>4. Review \notin Wanted /\ (at = "ensure" => w \in Wanted) /\ (at = "review" => todo = {Review})
    BY <2>1, WantedSlugs DEF Inv, TypeOK, Standing
  <2>5. Pending' \subseteq Pending \ {w}
    BY <1>2, <2>1, <2>2, <2>4 DEF Pending
  <2>6. Done' \subseteq Done \union {w}
    BY <1>2, <2>1, <2>2, <2>4 DEF Done
  <2>7. \A x \in Pending' \intersect DOMAIN seen : x \in There' /\ workflow'[x] = seen[x]
    BY <2>3, <2>5 DEF ListedInv
  <2>8. \A x \in Done' : x \in There' /\ workflow'[x].body = Body(x, user)
    BY <2>3, <2>6 DEF ListedInv
  <2>9. QED
    BY <1>2, <2>2, <2>7, <2>8 DEF ListedInv
<1>8. CASE Ensured
  <2>1. todo = {} /\ at \in {"ensure", "review"} /\ UNCHANGED <<workflow, noted>>
    BY <1>8 DEF Ensured, Goes, Stop, orgVars
  <2>2. CASE at' = "review"
    <3>1. at = "ensure" /\ todo' = {Review} /\ UNCHANGED <<seen, doomed, outcome>>
      BY <1>8, <2>2 DEF Ensured, Goes, Stop
    <3>2. Pending' \subseteq Pending /\ Done' \subseteq Done
      BY <1>2, <2>1, <2>2, <3>1 DEF Pending, Done
    <3>3. QED
      BY <1>1, <2>1, <2>2, <3>1, <3>2, ListedFrame
  <2>3. CASE at' # "review"
    <3>1. /\ at = "ensure" => ~scenario.review
          /\ \/ at' = "rules" /\ seen' = workflow /\ UNCHANGED <<doomed, outcome>>
             \/ at' = "off" /\ doomed' = {}
      BY <1>8, <2>3 DEF Ensured, Goes, Stop
    <3>2. Pending' = {}
      BY <3>1 DEF Pending
    <3>3. Done' \subseteq Done
      BY <1>1, <1>2, <2>1, <3>1 DEF Done
    <3>4. QED
      BY <1>2, <1>3, <2>1, <3>1, <3>2, <3>3 DEF ListedInv, There
  <2>4. QED
    BY <2>2, <2>3
<1>9. CASE SetRule
  <2>1. at = "rules" /\ UNCHANGED <<at, seen, doomed, outcome, noted>>
    BY <1>9 DEF SetRule
  <2>2. workflow' = workflow
    BY <1>9 DEF SetRule, ReviewPolicy, RuleSet, orgVars
  <2>3. Pending' = Pending /\ Done' = Done
    BY <1>1, <1>2, <2>1 DEF Pending, Done
  <2>4. QED
    BY <1>1, <1>3, <2>1, <2>2, <2>3, ListedFrame
<1>10. CASE RulesDone
  <2>1. at = "rules" /\ at' = "off" /\ doomed' = {} /\ UNCHANGED <<workflow, seen, noted>>
    BY <1>10 DEF RulesDone, Stop, orgVars
  <2>2. Pending' = Pending /\ Done' \subseteq Done
    BY <1>1, <1>2, <2>1 DEF Pending, Done
  <2>3. QED
    BY <1>1, <1>3, <2>1, <2>2, ListedFrame
<1>11. QED
  BY <1>4, <1>5, <1>6, <1>7, <1>8, <1>9, <1>10 DEF Phase, Call

LEMMA ListedPeople ==
  ASSUME Inv, ListedInv, People
  PROVE  ListedInv'
<1>1. CASE Updated
  <2>1. at' = "off" /\ outcome' = "none" /\ doomed' = doomed
    BY <1>1 DEF Updated
  <2>2. Pending' = {} /\ Done' = {}
    BY <2>1 DEF Pending, Done
  <2>3. QED
    BY <2>1, <2>2 DEF ListedInv
<1>2. ASSUME NEW c \in Component, Beat(c) \/ Names(c) \/ Proceeds(c) \/ DeletesRoot(c) PROVE ListedInv'
  <2>1. UNCHANGED <<scenario, workflow, upVars>>
    BY <1>2 DEF Beat, RuleSet, Names, Proceeds, DeletesRoot
  <2>2. Pending' = Pending /\ Done' = Done
    BY <2>1 DEF upVars, Pending, Done, Wanted, WorkflowFor
  <2>3. QED
    BY <2>1, <2>2, ListedFrame DEF upVars
<1>3. ASSUME NEW w \in Slug, Adds(w) \/ DeletesByHand(w) PROVE ListedInv'
  <2>1. at = "off" /\ UNCHANGED <<scenario, upVars>>
    BY <1>3 DEF Adds, DeletesByHand, Inv, Standing
  <2>2. Pending' = {} /\ Done' = Done /\ Wanted' = Wanted /\ \A x : Body(x, user)' = Body(x, user)
    BY <2>1 DEF upVars, Pending, Done, Wanted, WorkflowFor, Body
  <2>3. \A x \in Done : x \in There' /\ workflow'[x].body = workflow[x].body
    <3>1. CASE Adds(w)
      <4> DEFINE e == [workflow[w] EXCEPT !.added = TRUE]
      <4>1. w \in There /\ workflow' = [workflow EXCEPT ![w] = e]
        BY <3>1 DEF Adds, Replaced
      <4>2. e.body = workflow[w].body
        BY <4>1 DEF Inv, Entities, Entity
      <4> HIDE DEF e
      <4>3. QED
        BY <4>1, <4>2 DEF There, ListedInv
    <3>2. CASE DeletesByHand(w)
      <4>1. w \notin Wanted \union {Review} /\ Deleted(w)
        BY <3>2 DEF DeletesByHand, ListedInv
      <4>2. Done \subseteq Wanted \union {Review}
        BY <2>1 DEF Done
      <4>3. QED
        BY <4>1, <4>2 DEF Deleted, There, ListedInv
    <3>3. QED
      BY <1>3, <3>1, <3>2
  <2>4. QED
    BY <2>1, <2>2, <2>3 DEF upVars, ListedInv
<1>4. QED
  BY <1>1, <1>2, <1>3 DEF People

LEMMA ListedStep == Inv /\ ListedInv /\ [Next]_vars => ListedInv'
<1>1. ASSUME ListedInv, UNCHANGED vars PROVE ListedInv'
  BY <1>1, ListedFrame DEF vars, orgVars, upVars, Pending, Done, Wanted, WorkflowFor
<1>2. ASSUME NEW u \in User, Up(u) PROVE ListedInv'
  <2>1. at' = "retire" /\ outcome' = "running" /\ seen' = workflow /\ workflow' = workflow
        /\ noted' = {} /\ doomed' = {}
    BY <1>2 DEF Up, orgVars
  <2>2. Done' = {}
    BY <2>1 DEF Done
  <2>3. QED
    BY <2>1, <2>2 DEF ListedInv, There
<1>3. ASSUME Inv, ListedInv, Interrupted \/ AnswerLost PROVE ListedInv'
  BY <1>3, ListedFailed DEF Interrupted, AnswerLost, Inv, Standing
<1>4. QED
  BY <1>1, <1>2, <1>3, ListedPhase, ListedPeople DEF Next

LEMMA ListedInvariance == Spec => []ListedInv
<1>1. Init => ListedInv
  BY DEF Init, ListedInv, Pending, Done
<1>2. QED
  BY Invariance, <1>1, ListedStep, PTL DEF Spec

\* Once a run got through (workflows, ensureWorkflow), whichever definitions,
\* half runs and people went before, each wanted workflow is there with the
\* body the definition in force gives it.
THEOREM DefinitionsAreMet == Spec => []DefinitionsStand
<1>1. Inv /\ ListedInv => DefinitionsStand
  <2> SUFFICES ASSUME Inv, ListedInv, outcome = "ok" PROVE DefinitionsStand
    BY DEF DefinitionsStand
  <2>1. at = "off"
    BY DEF Inv, Standing
  <2>2. Done = Wanted \union (IF scenario.review THEN {Review} ELSE {})
    BY <2>1 DEF Done
  <2>3. QED
    BY <2>2 DEF ListedInv, DefinitionsStand
<1>2. QED
  BY Invariance, ListedInvariance, <1>1, PTL

\* "what the definition does not carry (permissions, delete gates) survives":
\* an update writes back the entity as it was listed, and it was listed as it
\* is.
THEOREM AdditionsAreKept == Spec => AdditionsSurvive
<1> DEFINE StillAdded == \A w \in There \intersect DOMAIN workflow' : workflow[w].added => workflow'[w].added
<1>1. Inv /\ ListedInv /\ [Next]_vars => [StillAdded]_vars
  <2> SUFFICES ASSUME Inv, ListedInv, Next PROVE StillAdded
    OBVIOUS
  <2>1. CASE workflow' = workflow
    BY <2>1
  <2>2. ASSUME NEW w, Deleted(w) PROVE StillAdded
    BY <2>2 DEF Deleted, There
  <2>3. ASSUME NEW w \in todo, at \in {"ensure", "review"}, EnsureWorkflow(w) PROVE StillAdded
    BY <2>3, EnsureDoes
  <2>4. ASSUME NEW w \in Slug, Adds(w) PROVE StillAdded
    BY <2>4 DEF Adds, Replaced, There, Inv, Entities, Entity
  <2>5. CASE DeleteStale \/ (\E w \in Slug : DeletesByHand(w))
    BY <2>2, <2>5 DEF DeleteStale, DeletesByHand
  <2>6. CASE EnsureNext
    BY <2>3, <2>6 DEF EnsureNext
  <2>7. CASE AnswerLost
    <3>1. ASSUME NEW c, ReviewPolicy(c) PROVE workflow' = workflow
      BY <3>1 DEF ReviewPolicy, RuleSet, orgVars
    <3>2. QED
      BY <2>1, <2>2, <2>3, <2>7, <3>1 DEF AnswerLost
  <2>8. CASE SetRule \/ Interrupted \/ JudgeStale \/ StaleDone \/ Ensured \/ RulesDone
             \/ (\E u \in User : Up(u))
    BY <2>1, <2>8 DEF SetRule, ReviewPolicy, RuleSet, Interrupted, JudgeStale, StaleDone,
       Ensured, RulesDone, Up, orgVars
  <2>9. CASE Updated \/ (\E c \in Component : Beat(c) \/ Names(c) \/ Proceeds(c) \/ DeletesRoot(c))
    BY <2>1, <2>9 DEF Updated, Beat, RuleSet, Names, Proceeds, DeletesRoot, orgVars
  <2>10. QED
    BY <2>4, <2>5, <2>6, <2>7, <2>8, <2>9 DEF Next, Phase, Call, People
<1>2. QED
  BY Invariance, ListedInvariance, <1>1, PTL DEF Spec, AdditionsSurvive

-----------------------------------------------------------------------------
(* The rules a run sets *)

Settled(c) ==
  IF ReviewRequired(c)
  THEN rule[c].required /\ rule[c].allowed = {Id(Review), Id(WorkflowFor(c))}
  ELSE ~rule[c].seeded

\* The components this run, or the one that got through, has come to.
Ruled(c) == outcome = "ok" \/ (at = "rules" /\ c \notin todo)

\* Where no person interferes, a rule is as it was indexed until the run comes
\* to it, and as the definition says from then on. A rule of the seeder's says
\* that the review workflow is there: nothing ever retires that one.
SettledInv ==
  /\ \A c \in Component : rule[c].seeded => Review \in There
  /\ \A c \in Component \ touched : at # "off" /\ ~Ruled(c) => rule[c] = index[c]
  /\ \A c \in scenario.components \ touched : Ruled(c) => Settled(c)

Unsettled == \A c \in Component : ~Ruled(c)

\* The rules are where a run first goes by them, and nowhere else.
LEMMA RuledWhen ==
  ASSUME Inv
  PROVE  /\ at \in {"retire", "ensure", "review"} => Unsettled
         /\ at = "rules" => \A c \in Component : Ruled(c) <=> c \notin todo
         /\ at = "off" => \A c \in Component : Ruled(c) <=> outcome = "ok"
BY DEF Inv, Standing, Ruled, Unsettled

\* A run that has nothing to do for the reviews: no component is to require
\* them, and no rule of the seeder's is left.
LEMMA NoReviews ==
  ASSUME Inv, ListedInv, SettledInv, Ensured, at' = "off"
  PROVE  \A c \in Component : ~rule[c].seeded /\ ~ReviewRequired(c)
<1>1. Review \notin There /\ todo = {} /\ (at = "review" \/ (at = "ensure" /\ ~scenario.review))
  BY DEF Ensured, Goes, Stop
<1>2. at # "review"
  BY <1>1 DEF ListedInv, Done
<1>3. QED
  BY <1>1, <1>2 DEF SettledInv, ReviewRequired

\* What a run does with one component's rule.
LEMMA PolicySettles ==
  ASSUME Inv, ListedInv, SettledInv, NEW c \in todo, at = "rules", ReviewPolicy(c),
         scenario' = scenario
  PROVE  /\ c \in Component /\ c \in scenario.components /\ workflow' = workflow
         /\ Review \in There /\ WorkflowFor(c) \in There
         /\ \A d \in Component : d # c => rule'[d] = rule[d]
         /\ c \notin touched => Settled(c)'
         /\ \/ rule'[c] = rule[c] /\ (c \in touched \/ ~Holds(c) \/ rule[c].allowed = {Id(Review), Id(WorkflowFor(c))})
            \/ rule'[c] = NoRule
            \/ rule'[c] = [required |-> TRUE, allowed |-> {Id(Review), Id(WorkflowFor(c))}, seeded |-> TRUE]
<1>1. /\ c \in Component /\ c \in scenario.components
      /\ seen = workflow /\ Wanted \union {Review} \subseteq DOMAIN seen
  BY PolicyKeeps DEF Inv, Standing, ListedInv
<1>2. Review \in There /\ WorkflowFor(c) \in There
  BY <1>1, WantedSlugs DEF There, Inv, TypeOK
<1> DEFINE allowed == {Id(Review), Id(WorkflowFor(c))}
<1> DEFINE given == [required |-> TRUE, allowed |-> allowed, seeded |-> TRUE]
<1>3. allowed = {SeenId(Review), SeenId(WorkflowFor(c))}
  BY <1>1 DEF SeenId, Id
<1>4. given.required = TRUE /\ given.allowed = allowed /\ NoRule.seeded = FALSE
  BY DEF NoRule
<1>5. workflow' = workflow
  BY DEF ReviewPolicy, RuleSet, orgVars
<1>6. ReviewRequired(c)' = ReviewRequired(c) /\ allowed' = allowed
  BY <1>5 DEF ReviewRequired, Id, WorkflowFor
<1>7. c \notin touched => rule[c] = index[c]
  BY <1>1, RuledWhen DEF SettledInv
<1>8. c \in DOMAIN rule
  BY <1>1 DEF Inv, TypeOK
<1>9. CASE ReviewRequired(c) /\ ~(index[c].required /\ index[c].allowed = allowed)
  <2>1. RuleSet(c, given)
    BY <1>3, <1>9 DEF ReviewPolicy
  <2> HIDE DEF given
  <2>2. rule'[c] = given /\ \A d \in Component : d # c => rule'[d] = rule[d]
    BY <1>1, <1>8, <2>1 DEF RuleSet, Inv, TypeOK
  <2>3. Settled(c)'
    BY <1>4, <1>6, <1>9, <2>2 DEF Settled
  <2>4. QED
    BY <1>1, <1>2, <1>5, <2>2, <2>3 DEF given
<1>10. CASE ~ReviewRequired(c) /\ index[c].seeded
  <2>1. RuleSet(c, NoRule)
    BY <1>10 DEF ReviewPolicy
  <2>2. rule'[c] = NoRule /\ \A d \in Component : d # c => rule'[d] = rule[d]
    BY <1>1, <1>8, <2>1 DEF RuleSet, Inv, TypeOK
  <2>3. Settled(c)'
    BY <1>4, <1>6, <1>10, <2>2 DEF Settled
  <2>4. QED
    BY <1>1, <1>2, <1>5, <2>2, <2>3
<1>11. CASE \/ ReviewRequired(c) /\ index[c].required /\ index[c].allowed = allowed
            \/ ~ReviewRequired(c) /\ ~index[c].seeded
  <2>1. rule' = rule
    BY <1>3, <1>11 DEF ReviewPolicy, orgVars
  <2>2. c \notin touched => Settled(c)'
    BY <1>6, <1>7, <1>11, <2>1 DEF Settled
  <2>3. c \in touched \/ ~Holds(c) \/ rule[c].allowed = allowed
    BY <1>7, <1>11 DEF Holds
  <2>4. QED
    BY <1>1, <1>2, <1>5, <2>1, <2>2, <2>3
<1>12. QED
  BY <1>9, <1>10, <1>11

\* Steps that leave the rules alone, and the workflows they name.
LEMMA SettledFrame ==
  ASSUME Inv, SettledInv, UNCHANGED <<scenario, rule, index, touched>>, Review \in There => Review \in There',
         at' # "off" => at # "off",
         \A c \in scenario.components : Ruled(c)' => Ruled(c),
         \A c \in Component : at' # "off" /\ ~Ruled(c)' => ~Ruled(c),
         Unsettled \/ \A w \in Wanted \union {Review} : Id(w)' = Id(w)
  PROVE  SettledInv'
<1>0. scenario.components \subseteq Component
  BY WantedSlugs DEF Inv, TypeOK
<1>1. \A c : ReviewRequired(c)' = ReviewRequired(c) /\ WorkflowFor(c)' = WorkflowFor(c)
  BY DEF ReviewRequired, WorkflowFor
<1>2. ASSUME NEW c \in scenario.components \ touched, Ruled(c)' PROVE Settled(c)'
  <2>1. Ruled(c) /\ Settled(c)
    BY <1>0, <1>2 DEF SettledInv
  <2>2. WorkflowFor(c) \in Wanted
    BY <1>2 DEF Wanted
  <2>3. Id(Review)' = Id(Review) /\ Id(WorkflowFor(c))' = Id(WorkflowFor(c))
    BY <1>0, <1>1, <2>1, <2>2 DEF Unsettled
  <2>4. QED
    BY <1>1, <2>1, <2>3 DEF Settled
<1>3. QED
  BY <1>2 DEF SettledInv

\* A run that ends short of its end leaves no rule to go by.
LEMMA SettledFailed ==
  ASSUME Stop("failed"), \A c \in Component : rule'[c].seeded => Review \in There'
  PROVE  SettledInv'
BY DEF Stop, SettledInv, Ruled

LEMMA SettledPhase ==
  ASSUME Inv, ListedInv, SettledInv, Phase
  PROVE  SettledInv'
<1>0. Inv' /\ scenario' = scenario /\ touched' = touched /\ index' = index
  BY PhaseKeeps DEF Phase, Call, DeleteStale, EnsureNext, SetRule, JudgeStale, StaleDone, Ensured, RulesDone, Goes, Stop
<1>a. scenario.components \subseteq Component
  BY WantedSlugs DEF Inv, TypeOK
<1>1. CASE JudgeStale \/ StaleDone
  <2>1. UNCHANGED <<workflow, rule>> /\ at \in {"retire"} /\ at' \in {"retire", "ensure"}
    BY <1>1 DEF JudgeStale, StaleDone, Goes, orgVars
  <2>2. Unsettled /\ Unsettled'
    BY <1>0, <2>1, RuledWhen DEF Inv, Standing, Ruled, Unsettled
  <2>3. QED
    BY <1>0, <2>1, <2>2, <1>a, SettledFrame DEF There, Unsettled
<1>2. CASE at = "retire" /\ DeleteStale
  <2>1. PICK w \in doomed : Deleted(w)
    BY <1>2 DEF DeleteStale
  <2>2. at' = at /\ w # Review /\ rule' = rule
    BY <1>2, <2>1 DEF DeleteStale, Deleted, Inv, Standing
  <2>3. Unsettled /\ Unsettled'
    BY <1>0, <1>2, <2>2 DEF Inv, Standing, Ruled, Unsettled
  <2>4. QED
    BY <1>0, <1>2, <2>1, <2>2, <2>3, <1>a, SettledFrame DEF Deleted, There, Unsettled
<1>3. CASE EnsureNext
  <2>1. PICK w \in todo : EnsureWorkflow(w)
    BY <1>3 DEF EnsureNext
  <2>2. at \in {"ensure", "review"} /\ at' = at /\ seen' = seen
    BY <1>3 DEF EnsureNext
  <2>3. There' = There \union {w} /\ rule' = rule
    BY <2>1, <2>2, EnsureKeeps
  <2>4. Unsettled /\ Unsettled'
    BY <1>0, <2>2 DEF Inv, Standing, Ruled, Unsettled
  <2>5. QED
    BY <1>0, <2>2, <2>3, <2>4, <1>a, SettledFrame DEF Unsettled
<1>4. CASE Ensured
  <2>1. UNCHANGED <<workflow, rule>> /\ at \in {"ensure", "review"} /\ at' \in {"review", "rules", "off"}
        /\ (at' = "rules" => todo' = scenario.components)
    BY <1>4 DEF Ensured, Goes, Stop, orgVars
  <2>2. Unsettled
    BY <2>1, RuledWhen
  <2>3. CASE at' # "off"
    <3>1. \A c \in scenario.components : ~Ruled(c)'
      BY <1>0, <2>1, <2>3 DEF Inv, Standing, Ruled
    <3>2. QED
      BY <1>0, <2>1, <2>2, <3>1, <1>a, SettledFrame DEF There, Unsettled
  <2>4. CASE at' = "off"
    <3>1. \A c \in Component : ~rule[c].seeded /\ ~ReviewRequired(c)
      BY <1>4, <2>4, NoReviews
    <3>2. \A c \in Component : ReviewRequired(c)' = ReviewRequired(c)
      BY <1>0 DEF ReviewRequired
    <3>3. QED
      BY <1>0, <1>a, <2>1, <2>4, <3>1, <3>2 DEF SettledInv, Settled
  <2>5. QED
    BY <2>3, <2>4
<1>5. CASE SetRule
  <2>1. PICK c \in todo : ReviewPolicy(c) /\ todo' = todo \ {c}
    BY <1>5 DEF SetRule
  <2>2. at = "rules" /\ at' = at /\ outcome' = outcome /\ outcome = "running"
    BY <1>5 DEF SetRule, Inv, Standing
  <2>3. /\ c \in Component /\ workflow' = workflow /\ Review \in There
        /\ \A d \in Component : d # c => rule'[d] = rule[d]
        /\ c \notin touched => Settled(c)'
    BY <1>0, <2>1, <2>2, PolicySettles
  <2>4. \A d \in Component : d # c => (Settled(d)' = Settled(d))
    BY <1>0, <2>3 DEF Settled, ReviewRequired, WorkflowFor, Id
  <2>5. \A d \in Component : d # c => (Ruled(d)' = Ruled(d))
    BY <2>1, <2>2 DEF Ruled
  <2>6. Ruled(c)'
    BY <2>1, <2>2 DEF Ruled
  <2>7. QED
    BY <1>0, <1>a, <2>2, <2>3, <2>4, <2>5, <2>6 DEF SettledInv, There
<1>6. CASE RulesDone
  <2>1. at = "rules" /\ todo = {} /\ at' = "off" /\ UNCHANGED <<workflow, rule>>
    BY <1>6 DEF RulesDone, Stop, orgVars
  <2>2. \A c \in Component : Ruled(c)
    BY <2>1 DEF Ruled
  <2>3. QED
    BY <1>0, <2>1, <2>2, <1>a, SettledFrame DEF There, Id
<1>7. QED
  BY <1>1, <1>2, <1>3, <1>4, <1>5, <1>6 DEF Phase, Call

LEMMA SettledMishaps ==
  ASSUME Inv, ListedInv, SettledInv, Interrupted \/ AnswerLost
  PROVE  SettledInv'
<1>1. Stop("failed") /\ UNCHANGED <<scenario, seen>>
  BY DEF Interrupted, AnswerLost, Stop
<1>2. CASE UNCHANGED <<workflow, rule>>
  BY <1>1, <1>2, SettledFailed DEF SettledInv, There
<1>3. ASSUME at = "retire", NEW w \in doomed, Deleted(w) PROVE SettledInv'
  <2>1. w # Review
    BY <1>3 DEF Inv, Standing
  <2>2. QED
    BY <1>1, <1>3, <2>1, SettledFailed DEF SettledInv, Deleted, There
<1>4. ASSUME at \in {"ensure", "review"}, NEW w \in todo, EnsureWorkflow(w) PROVE SettledInv'
  <2>1. There' = There \union {w} /\ rule' = rule
    BY <1>1, <1>4, EnsureKeeps
  <2>2. QED
    BY <1>1, <2>1, SettledFailed DEF SettledInv
<1>5. ASSUME at = "rules", NEW c \in todo, ReviewPolicy(c) PROVE SettledInv'
  <2>1. workflow' = workflow /\ Review \in There
    BY <1>1, <1>5, PolicySettles
  <2>2. QED
    BY <1>1, <2>1, SettledFailed DEF There
<1>6. QED
  BY <1>2, <1>3, <1>4, <1>5 DEF Interrupted, AnswerLost, orgVars

\* What people do with the workflows leaves the wanted ones, and their IDs.
LEMMA ByHand ==
  ASSUME Inv, ListedInv, NEW w \in Slug, Adds(w) \/ DeletesByHand(w)
  PROVE  /\ at = "off" /\ UNCHANGED <<scenario, upVars, touched, rule>>
         /\ \A x \in There : (Adds(w) \/ x # w) => x \in There' /\ Id(x)' = Id(x)
         /\ DeletesByHand(w) => outcome = "ok" /\ w \notin Wanted \union {Review}
<1>1. at = "off" /\ UNCHANGED <<scenario, upVars, touched, rule>>
  BY DEF Adds, Replaced, DeletesByHand, Deleted, Inv, Standing
<1>2. CASE Adds(w)
  <2> DEFINE e == [workflow[w] EXCEPT !.added = TRUE]
  <2>1. w \in There /\ workflow' = [workflow EXCEPT ![w] = e]
    BY <1>2 DEF Adds, Replaced
  <2>2. e.id = workflow[w].id
    BY <2>1 DEF Inv, Entities, Entity
  <2> HIDE DEF e
  <2>3. \A x \in There : x \in There' /\ workflow'[x].id = workflow[x].id
    BY <2>1, <2>2 DEF There
  <2>4. There' = There
    BY <2>1 DEF There
  <2>5. ~DeletesByHand(w)
    BY <2>1, <2>4 DEF DeletesByHand, Deleted, There
  <2>6. QED
    BY <1>1, <2>3, <2>5 DEF Id
<1>3. CASE DeletesByHand(w)
  <2>1. Deleted(w) /\ w \in noted /\ outcome = "ok"
    BY <1>3 DEF DeletesByHand
  <2>2. \A x \in There : x # w => x \in There' /\ workflow'[x] = workflow[x]
    BY <2>1 DEF Deleted, There
  <2>3. ~Adds(w)
    BY <2>1 DEF Adds, Replaced, Deleted, There
  <2>4. QED
    BY <1>1, <2>1, <2>2, <2>3 DEF Id, ListedInv
<1>4. QED
  BY <1>2, <1>3

LEMMA SettledPeople ==
  ASSUME Inv, ListedInv, SettledInv, People
  PROVE  SettledInv'
<1>0. scenario.components \subseteq Component
  BY WantedSlugs DEF Inv, TypeOK
<1>1. CASE Updated
  <2>1. at' = "off" /\ outcome' = "none" /\ UNCHANGED <<workflow, rule>>
    BY <1>1 DEF Updated, orgVars
  <2>2. QED
    BY <2>1 DEF SettledInv, Ruled, There
<1>2. ASSUME NEW c \in Component, Beat(c) PROVE SettledInv'
  <2>1. UNCHANGED <<scenario, workflow, upVars>> /\ touched' = touched \union {c}
    BY <1>2 DEF Beat, RuleSet
  <2>2. \A d \in Component : rule'[d].seeded = rule[d].seeded /\ (d # c => rule'[d] = rule[d])
    BY <1>2 DEF Beat, RuleSet, Inv, TypeOK, RuleType
  <2>3. \A d \in Component : Ruled(d)' = Ruled(d) /\ (d # c => (Settled(d)' = Settled(d)))
    BY <2>1, <2>2 DEF upVars, Ruled, Settled, ReviewRequired, WorkflowFor, Id
  <2>4. QED
    BY <1>0, <2>1, <2>2, <2>3 DEF upVars, SettledInv, There
<1>3. ASSUME NEW c \in Component, Names(c) \/ Proceeds(c) \/ DeletesRoot(c) PROVE SettledInv'
  <2>1. UNCHANGED <<scenario, workflow, rule, upVars, touched>>
    BY <1>3 DEF Names, Proceeds, DeletesRoot
  <2>2. QED
    BY <1>0, <2>1, SettledFrame DEF upVars, Ruled, There, Id
<1>4. ASSUME NEW w \in Slug, Adds(w) \/ DeletesByHand(w) PROVE SettledInv'
  <2>1. /\ at = "off" /\ UNCHANGED <<scenario, upVars, touched, rule>>
        /\ \A x \in There : (Adds(w) \/ x # w) => x \in There' /\ Id(x)' = Id(x)
        /\ DeletesByHand(w) => outcome = "ok" /\ w \notin Wanted \union {Review}
    BY <1>4, ByHand
  <2>2. \A c \in Component : Ruled(c)' = Ruled(c)
    BY <2>1 DEF upVars, Ruled
  <2>3. Review \in There => Review \in There'
    BY <1>4, <2>1
  <2>4. ASSUME NEW c \in scenario.components \ touched, Ruled(c) PROVE Settled(c)'
    <3>1. Settled(c) /\ ReviewRequired(c)' = ReviewRequired(c) /\ WorkflowFor(c)' = WorkflowFor(c)
      BY <2>1, <2>4 DEF SettledInv, ReviewRequired, WorkflowFor
    <3>2. ReviewRequired(c) => Review \in There /\ WorkflowFor(c) \in There
      <4>1. outcome = "ok" /\ Done = Wanted \union (IF scenario.review THEN {Review} ELSE {})
        BY <1>0, <2>1, <2>4, RuledWhen DEF Done
      <4>2. QED
        BY <2>4, <4>1 DEF ListedInv, ReviewRequired, Wanted
    <3>3. WorkflowFor(c) \in Wanted
      BY <2>4 DEF Wanted
    <3>4. ReviewRequired(c) => Id(Review)' = Id(Review) /\ Id(WorkflowFor(c))' = Id(WorkflowFor(c))
      BY <1>4, <2>1, <3>1, <3>2, <3>3
    <3>5. QED
      BY <2>1, <3>1, <3>4 DEF Settled
  <2>5. QED
    BY <1>0, <2>1, <2>2, <2>3, <2>4 DEF upVars, SettledInv
<1>5. QED
  BY <1>1, <1>2, <1>3, <1>4 DEF People

LEMMA SettledStep == Inv /\ ListedInv /\ SettledInv /\ [Next]_vars => SettledInv'
<1>1. ASSUME Inv, SettledInv, UNCHANGED vars PROVE SettledInv'
  BY <1>1, WantedSlugs, SettledFrame DEF Inv, TypeOK, vars, orgVars, upVars, Ruled, There, Id
<1>2. ASSUME Inv, SettledInv, NEW u \in User, Up(u) PROVE SettledInv'
  <2>1. at' = "retire" /\ outcome' = "running" /\ index' = rule /\ UNCHANGED <<workflow, rule>>
    BY <1>2 DEF Up, orgVars
  <2>2. \A c \in Component : ~Ruled(c)' /\ rule'[c] = rule[c] /\ index'[c] = rule[c]
    BY <2>1 DEF Ruled
  <2>3. \A c \in Component : rule'[c].seeded => Review \in There'
    BY <1>2, <2>1 DEF SettledInv, There
  <2>4. scenario' = scenario /\ scenario.components \subseteq Component
    BY <1>2, WantedSlugs DEF Up, Inv, TypeOK
  <2>5. QED
    BY <2>2, <2>3, <2>4 DEF SettledInv
<1>3. QED
  BY <1>1, <1>2, SettledPhase, SettledMishaps, SettledPeople DEF Next

LEMMA SettledInvariance == Spec => []SettledInv
<1>1. Init => SettledInv
  BY DEF Init, SettledInv, Ruled
<1>2. QED
  BY Invariance, ListedInvariance, <1>1, SettledStep, PTL DEF Spec

\* "so the review is the component's rule" (reviewPolicy): after a run that
\* gets through, whatever runs, definitions and people went before, each
\* component nobody touched meanwhile has the rule the definition in force
\* gives it, naming the workflows that are there now.
THEOREM RulesAreSet == Spec => []RulesStand
<1>1. SettledInv => RulesStand
  <2> SUFFICES ASSUME SettledInv, outcome = "ok", NEW c \in scenario.components \ touched
               PROVE  Settled(c)
    BY DEF RulesStand, Settled
  <2>1. QED
    BY DEF SettledInv, Ruled
<1>2. QED
  BY SettledInvariance, <1>1, PTL

-----------------------------------------------------------------------------
(* What rules require is there *)

\* The workflows such rules allow are the review workflow and rollout ones,
\* which a run never deletes, and wanted ones from the time on when people may
\* delete those that are not.
RequiredInv ==
  /\ \A c \in Component : Holds(c) => \A w \in rule[c].allowed : w[1][1] # "own"
  /\ \A c \in scenario.components :
       Holds(c) /\ (Ruled(c) \/ (c \in touched /\ outcome # "none")) =>
         \A w \in rule[c].allowed : w[1] \in Wanted \union {Review}

Checked(c) == Ruled(c) \/ (c \in touched /\ outcome # "none")

\* What the property says of one step.
StaySound == \A c \in scenario.components : Sound(c) => Sound(c)'

LEMMA Listed ==
  ASSUME Inv
  PROVE  scenario.components \subseteq Component
BY WantedSlugs DEF Inv, TypeOK

\* Steps that leave the rules alone: the workflows they lose are none that a
\* rule in force allows, and no more rules have been checked.
LEMMA RequiredFrame ==
  ASSUME Inv, RequiredInv, UNCHANGED <<scenario, rule>>, NEW Lost,
         \A w \in There \ Lost : w \in There' /\ Id(w)' = Id(w),
         \A c \in scenario.components : Holds(c) => \A w \in rule[c].allowed : w[1] \notin Lost,
         \A c \in scenario.components : Checked(c)' => Checked(c)
  PROVE  RequiredInv' /\ StaySound
<1>1. StaySound
  <2> SUFFICES ASSUME NEW c \in scenario.components, Sound(c), Holds(c), NEW w \in rule[c].allowed
               PROVE  w[1] \in There' /\ w = Id(w[1])'
    BY DEF StaySound, Sound, Holds
  <2>1. w[1] \in There /\ w = Id(w[1])
    BY DEF Sound
  <2>2. QED
    BY <2>1
<1>2. \A c \in Component : Holds(c)' = Holds(c)
  BY DEF Holds
<1>3. Wanted' = Wanted
  BY DEF Wanted, WorkflowFor
<1>4. QED
  BY <1>1, <1>2, <1>3, Listed DEF RequiredInv, Checked

\* A rule that allows the review workflow and the component's own rollout one,
\* as they are, breaks nothing.
LEMMA RequiredGiven ==
  ASSUME Inv, RequiredInv, NEW c \in Component, UNCHANGED <<scenario, workflow>>,
         \A d \in Component : d # c => rule'[d] = rule[d] /\ (Checked(d)' => Checked(d)),
         \/ ~Holds(c)'
         \/ /\ c \in scenario.components /\ {Review, WorkflowFor(c)} \subseteq There
            /\ rule'[c].allowed = {Id(Review), Id(WorkflowFor(c))}
         \/ rule'[c] = rule[c] /\ (Checked(c)' => Checked(c))
  PROVE  RequiredInv' /\ StaySound
<1>1. Wanted' = Wanted /\ There' = There /\ (\A w : Id(w)' = Id(w) /\ Id(w)[1] = w)
      /\ (c \in scenario.components => WorkflowFor(c) \in Wanted)
  BY DEF Wanted, WorkflowFor, There, Id
<1>2. \A w \in Wanted \union {Review} : w[1] # "own"
  BY WantedKinds DEF Inv, TypeOK
<1> DEFINE Own1(d) == \A w \in rule[d].allowed : w[1][1] # "own"
<1> DEFINE Known(d) == Checked(d) => \A w \in rule[d].allowed : w[1] \in Wanted \union {Review}
<1>3. \A d \in Component : Holds(d) => Own1(d) /\ (d \in scenario.components => Known(d))
  BY DEF RequiredInv, Checked
<1>4. ASSUME NEW d \in Component, Holds(d)'
      PROVE  Own1(d)' /\ (d \in scenario.components => Known(d)' /\ (Sound(d) => Sound(d)'))
  <2>1. CASE rule'[d] = rule[d] /\ (Checked(d)' => Checked(d))
    BY <1>1, <1>3, <1>4, <2>1 DEF Holds, Sound
  <2>2. CASE d = c /\ c \in scenario.components /\ {Review, WorkflowFor(c)} \subseteq There
             /\ rule'[c].allowed = {Id(Review), Id(WorkflowFor(c))}
    BY <1>1, <1>2, <2>2 DEF Sound
  <2>3. QED
    BY <1>4, <2>1, <2>2
<1>5. RequiredInv'
  BY <1>1, <1>4, Listed DEF RequiredInv, Checked
<1>6. StaySound
  BY <1>4, Listed DEF StaySound, Sound
<1>7. QED
  BY <1>5, <1>6

\* Deleting what is doomed, a component's own workflow: no rule allows one.
LEMMA RequiredDeleted ==
  ASSUME Inv, ListedInv, RequiredInv, NEW w \in doomed, Deleted(w), scenario' = scenario,
         \A c \in Component : Checked(c)' => Checked(c)
  PROVE  RequiredInv' /\ StaySound
<1>2. \A x \in There \ {w} : x \in There' /\ Id(x)' = Id(x)
  BY DEF Deleted, There, Id
<1>3. w[1] = "own"
  BY DEF ListedInv
<1>4. \A c \in Component : Holds(c) => \A x \in rule[c].allowed : x[1] \notin {w}
  BY <1>3 DEF RequiredInv
<1>5. rule' = rule
  BY DEF Deleted
<1>6. QED
  BY <1>2, <1>4, <1>5, Listed, RequiredFrame

LEMMA RequiredEnsured ==
  ASSUME Inv, ListedInv, RequiredInv, NEW w \in todo, at \in {"ensure", "review"}, EnsureWorkflow(w),
         UNCHANGED <<scenario, seen>>, \A c \in Component : Checked(c)' => Checked(c)
  PROVE  RequiredInv' /\ StaySound
<1>2. \A x \in There : x \in There' /\ workflow'[x].id = workflow[x].id
  BY EnsureDoes
<1>3. rule' = rule
  BY EnsureKeeps
<1>4. \A x \in There \ {} : x \in There' /\ Id(x)' = Id(x)
  BY <1>2 DEF Id
<1>5. QED
  BY <1>3, <1>4, Listed, RequiredFrame

\* Nothing is checked any more for a step than was before: most steps.
LEMMA CheckedFrame ==
  ASSUME Inv, Inv', at' \in {"off", "retire", "ensure", "review"}, outcome' \notin {"none", "ok"},
         outcome # "none", touched' \subseteq touched
  PROVE  \A c \in Component : Checked(c)' => Checked(c)
BY DEF Checked, Ruled

LEMMA RequiredPhase ==
  ASSUME Inv, ListedInv, SettledInv, RequiredInv, Phase
  PROVE  RequiredInv' /\ StaySound
<1>0. Inv' /\ UNCHANGED <<scenario, touched>> /\ Wanted' = Wanted
  BY PhaseKeeps DEF Phase, Call, DeleteStale, EnsureNext, SetRule, JudgeStale, StaleDone,
     Ensured, RulesDone, Wanted, WorkflowFor
<1>1. at # "off" => outcome = "running"
  BY DEF Inv, Standing
<1>2. CASE JudgeStale \/ StaleDone
  <2>1. UNCHANGED <<workflow, rule, outcome>> /\ at = "retire" /\ at' \in {"retire", "ensure"}
    BY <1>2 DEF JudgeStale, StaleDone, Goes, orgVars
  <2>2. \A c \in Component : Checked(c)' => Checked(c)
    BY <1>0, <1>1, <2>1, CheckedFrame
  <2>3. \A w \in There \ {} : w \in There' /\ Id(w)' = Id(w)
    BY <2>1 DEF There, Id
  <2>4. QED
    BY <1>0, <2>1, <2>2, <2>3, RequiredFrame, Listed
<1>3. CASE at = "retire" /\ DeleteStale
  <2>1. \A c \in Component : Checked(c)' => Checked(c)
    BY <1>0, <1>1, <1>3, CheckedFrame DEF DeleteStale
  <2>2. QED
    BY <1>0, <1>3, <2>1, RequiredDeleted DEF DeleteStale
<1>4. CASE EnsureNext
  <2>1. at \in {"ensure", "review"} /\ UNCHANGED <<at, seen, outcome>>
    BY <1>4 DEF EnsureNext
  <2>2. \A c \in Component : Checked(c)' => Checked(c)
    BY <1>0, <1>1, <2>1, CheckedFrame
  <2>3. QED
    BY <1>0, <1>4, <2>1, <2>2, RequiredEnsured DEF EnsureNext
<1>5. CASE Ensured
  <2>1. UNCHANGED <<workflow, rule>> /\ at \in {"ensure", "review"}
    BY <1>5 DEF Ensured, orgVars
  <2>2. CASE at' = "off"
    <3>1. \A c \in Component : ~Holds(c)'
      BY <1>5, <2>1, <2>2, NoReviews DEF Holds
    <3>2. QED
      BY <1>0, <3>1, Listed DEF RequiredInv, Holds, StaySound, Sound
  <2>3. CASE at' # "off"
    <3>1. outcome' = outcome /\ (at' = "review" \/ (at' = "rules" /\ todo' = scenario.components))
      BY <1>5, <2>3 DEF Ensured, Goes, Stop
    <3>2. \A c \in scenario.components : Checked(c)' => Checked(c)
      BY <1>0, <1>1, <2>1, <3>1 DEF Checked, Ruled
    <3>3. \A w \in There \ {} : w \in There' /\ Id(w)' = Id(w)
      BY <2>1 DEF There, Id
    <3>4. QED
      BY <1>0, <2>1, <3>2, <3>3, RequiredFrame, Listed
  <2>4. QED
    BY <2>2, <2>3
<1>6. CASE SetRule
  <2>1. PICK c \in todo : ReviewPolicy(c) /\ todo' = todo \ {c}
    BY <1>6 DEF SetRule
  <2>2. at = "rules" /\ UNCHANGED <<at, outcome>>
    BY <1>6 DEF SetRule
  <2>3. /\ c \in Component /\ c \in scenario.components /\ workflow' = workflow
        /\ Review \in There /\ WorkflowFor(c) \in There
        /\ \A d \in Component : d # c => rule'[d] = rule[d]
        /\ \/ rule'[c] = rule[c]
              /\ (c \in touched \/ ~Holds(c) \/ rule[c].allowed = {Id(Review), Id(WorkflowFor(c))})
           \/ rule'[c] = NoRule
           \/ rule'[c] = [required |-> TRUE, allowed |-> {Id(Review), Id(WorkflowFor(c))}, seeded |-> TRUE]
    BY <1>0, <2>1, <2>2, PolicySettles
  <2>4. \A d \in Component : d # c => (Checked(d)' => Checked(d))
    BY <1>0, <2>1, <2>2 DEF Checked, Ruled
  <2>5. c \in touched => Checked(c)
    BY <1>1, <2>2 DEF Checked
  <2>6. \/ ~Holds(c)'
        \/ /\ {Review, WorkflowFor(c)} \subseteq There
           /\ rule'[c].allowed = {Id(Review), Id(WorkflowFor(c))}
        \/ rule'[c] = rule[c] /\ (Checked(c)' => Checked(c))
    <3>1. NoRule.required = FALSE
      BY DEF NoRule
    <3> DEFINE allowed == {Id(Review), Id(WorkflowFor(c))}
    <3> DEFINE given == [required |-> TRUE, allowed |-> allowed, seeded |-> TRUE]
    <3>2. given.allowed = allowed
      OBVIOUS
    <3>3. \/ rule'[c] = rule[c] /\ (c \in touched \/ ~Holds(c) \/ rule[c].allowed = allowed)
          \/ rule'[c] = NoRule
          \/ rule'[c] = given
      BY <2>3
    <3> HIDE DEF given, allowed
    <3>4. \/ ~Holds(c)'
          \/ rule'[c].allowed = allowed
          \/ rule'[c] = rule[c] /\ (Checked(c)' => Checked(c))
      BY <2>5, <3>1, <3>2, <3>3 DEF Holds
    <3>5. QED
      BY <2>3, <3>4 DEF allowed
  <2>7. QED
    BY <1>0, <2>3, <2>4, <2>6, RequiredGiven
<1>7. CASE RulesDone
  <2>1. at = "rules" /\ todo = {} /\ UNCHANGED <<workflow, rule>>
    BY <1>7 DEF RulesDone, orgVars
  <2>2. \A c \in Component : Checked(c)
    BY <2>1 DEF Checked, Ruled
  <2>3. \A w \in There \ {} : w \in There' /\ Id(w)' = Id(w)
    BY <2>1 DEF There, Id
  <2>4. QED
    BY <1>0, <2>1, <2>2, <2>3, RequiredFrame, Listed
<1>8. QED
  BY <1>2, <1>3, <1>4, <1>5, <1>6, <1>7 DEF Phase, Call

LEMMA RequiredMishaps ==
  ASSUME Inv, ListedInv, SettledInv, RequiredInv, Interrupted \/ AnswerLost
  PROVE  RequiredInv' /\ StaySound
<1>1. at' = "off" /\ outcome' = "failed" /\ UNCHANGED <<scenario, seen, touched>> /\ Inv'
  BY MishapsKeep DEF Interrupted, AnswerLost, Stop
<1>2. at # "off" /\ outcome = "running" /\ Wanted' = Wanted
  BY <1>1 DEF Interrupted, AnswerLost, Inv, Standing, Wanted, WorkflowFor
<1>3. \A c \in Component : Checked(c)' => Checked(c)
  BY <1>1, <1>2, CheckedFrame
<1>4. CASE UNCHANGED <<workflow, rule>>
  <2>1. \A w \in There \ {} : w \in There' /\ Id(w)' = Id(w)
    BY <1>4 DEF There, Id
  <2>2. QED
    BY <1>1, <1>3, <1>4, <2>1, RequiredFrame, Listed
<1>5. ASSUME NEW w \in doomed, Deleted(w) PROVE RequiredInv' /\ StaySound
  BY <1>1, <1>3, <1>5, RequiredDeleted
<1>6. ASSUME at \in {"ensure", "review"}, NEW w \in todo, EnsureWorkflow(w) PROVE RequiredInv' /\ StaySound
  BY <1>1, <1>3, <1>6, RequiredEnsured
<1>7. ASSUME at = "rules", NEW c \in todo, ReviewPolicy(c) PROVE RequiredInv' /\ StaySound
  <2> DEFINE allowed == {Id(Review), Id(WorkflowFor(c))}
  <2> DEFINE given == [required |-> TRUE, allowed |-> allowed, seeded |-> TRUE]
  <2>1. /\ c \in Component /\ c \in scenario.components /\ workflow' = workflow
        /\ {Review, WorkflowFor(c)} \subseteq There
        /\ \A d \in Component : d # c => rule'[d] = rule[d]
        /\ rule'[c] = rule[c] \/ rule'[c] = NoRule \/ rule'[c] = given
    BY <1>1, <1>7, PolicySettles
  <2>2. NoRule.required = FALSE /\ given.allowed = allowed
    BY DEF NoRule
  <2> HIDE DEF given
  <2>3. ~Holds(c)' \/ rule'[c].allowed = allowed \/ rule'[c] = rule[c]
    BY <2>1, <2>2 DEF Holds
  <2>4. QED
    BY <1>1, <1>3, <2>1, <2>3, RequiredGiven
<1>8. QED
  BY <1>4, <1>5, <1>6, <1>7 DEF Interrupted, AnswerLost, orgVars

LEMMA RequiredPeople ==
  ASSUME Inv, ListedInv, SettledInv, RequiredInv, People
  PROVE  RequiredInv' /\ StaySound
<1>1. CASE Updated
  <2>1. at' = "off" /\ outcome' = "none" /\ UNCHANGED <<workflow, rule>>
    BY <1>1 DEF Updated, orgVars
  <2>2. \A c : ~Checked(c)'
    BY <2>1 DEF Checked, Ruled
  <2>3. There' = There /\ (\A w : Id(w)' = Id(w)) /\ \A c : Holds(c)' = Holds(c)
    BY <2>1 DEF There, Id, Holds
  <2>4. QED
    BY <2>1, <2>2, <2>3 DEF RequiredInv, Checked, StaySound, Sound
<1>2. ASSUME NEW c \in Component, Beat(c) PROVE RequiredInv' /\ StaySound
  <2>1. UNCHANGED <<scenario, workflow, upVars>> /\ touched' = touched \union {c}
    BY <1>2 DEF Beat, RuleSet
  <2>2. \A d \in Component : d # c => rule'[d] = rule[d] /\ (Checked(d)' => Checked(d))
    BY <1>2, <2>1 DEF Beat, RuleSet, Inv, TypeOK, upVars, Checked, Ruled
  <2> DEFINE allowed == {Id(Review), Id(WorkflowFor(c))}
  <2> DEFINE given == [required |-> TRUE, allowed |-> allowed, seeded |-> rule[c].seeded]
  <2> DEFINE lifted == [rule[c] EXCEPT !.required = FALSE]
  <2>3. given.allowed = allowed
    OBVIOUS
  <2>4. rule[c] \in RuleType
    BY DEF Inv, TypeOK
  <2>5. lifted.required = FALSE
    BY <2>4 DEF RuleType
  <2>6. \/ c \in scenario.components /\ {Review, WorkflowFor(c)} \subseteq There /\ RuleSet(c, given)
        \/ RuleSet(c, lifted)
    BY <1>2 DEF Beat
  <2> HIDE DEF given, lifted
  <2>7. \/ c \in scenario.components /\ {Review, WorkflowFor(c)} \subseteq There /\ rule'[c] = given
        \/ rule'[c] = lifted
    BY <2>6 DEF RuleSet, Inv, TypeOK
  <2>8. \/ c \in scenario.components /\ {Review, WorkflowFor(c)} \subseteq There /\ rule'[c].allowed = allowed
        \/ ~Holds(c)'
    BY <2>3, <2>5, <2>7 DEF Holds
  <2>9. QED
    BY <2>1, <2>2, <2>8, RequiredGiven
<1>3. ASSUME NEW c \in Component, Names(c) \/ Proceeds(c) \/ DeletesRoot(c) PROVE RequiredInv' /\ StaySound
  <2>1. UNCHANGED <<scenario, workflow, rule, upVars, touched>>
    BY <1>3 DEF Names, Proceeds, DeletesRoot
  <2>2. \A w \in There \ {} : w \in There' /\ Id(w)' = Id(w)
    BY <2>1 DEF There, Id
  <2>3. Wanted' = Wanted /\ \A d \in Component : Checked(d)' => Checked(d)
    BY <2>1 DEF upVars, Wanted, WorkflowFor, Checked, Ruled
  <2>4. QED
    BY <2>1, <2>2, <2>3, RequiredFrame, Listed
<1>4. ASSUME NEW w \in Slug, Adds(w) \/ DeletesByHand(w) PROVE RequiredInv' /\ StaySound
  <2> DEFINE Lost == IF Adds(w) THEN {} ELSE {w}
  <2>1. /\ at = "off" /\ UNCHANGED <<scenario, upVars, touched, rule>>
        /\ \A x \in There : (Adds(w) \/ x # w) => x \in There' /\ Id(x)' = Id(x)
        /\ DeletesByHand(w) => outcome = "ok" /\ w \notin Wanted \union {Review}
    BY <1>4, ByHand
  <2>2. \A c \in Component : Checked(c)' => Checked(c)
    BY <2>1 DEF upVars, Checked, Ruled
  <2>3. ASSUME NEW c \in scenario.components, Holds(c), NEW x \in rule[c].allowed PROVE x[1] \notin Lost
    <3>1. CASE Adds(w)
      BY <3>1
    <3>2. CASE DeletesByHand(w)
      <4>1. Ruled(c)
        BY <2>1, <3>2 DEF Ruled
      <4>2. QED
        BY <2>1, <2>3, <3>2, <4>1 DEF RequiredInv
    <3>3. QED
      BY <1>4, <3>1, <3>2
  <2>4. \A x \in There \ Lost : x \in There' /\ Id(x)' = Id(x)
    BY <1>4, <2>1
  <2>5. rule' = rule
    BY <2>1
  <2> HIDE DEF Lost
  <2>6. QED
    BY <2>1, <2>2, <2>3, <2>4, <2>5, RequiredFrame, Listed
<1>5. QED
  BY <1>1, <1>2, <1>3, <1>4 DEF People

LEMMA RequiredStep == Inv /\ ListedInv /\ SettledInv /\ RequiredInv /\ [Next]_vars => RequiredInv' /\ StaySound
<1>1. ASSUME Inv, RequiredInv, UNCHANGED <<scenario, workflow, rule>>,
             \A c \in Component : Checked(c)' => Checked(c)
      PROVE  RequiredInv' /\ StaySound
  <2>1. \A w \in There \ {} : w \in There' /\ Id(w)' = Id(w)
    BY <1>1 DEF There, Id
  <2>2. QED
    BY <1>1, <2>1, Listed, RequiredFrame
<1>2. ASSUME Inv, RequiredInv, UNCHANGED vars PROVE RequiredInv' /\ StaySound
  <2>1. \A c \in Component : Checked(c)' => Checked(c)
    BY <1>2 DEF vars, upVars, Checked, Ruled
  <2>2. QED
    BY <1>1, <1>2, <2>1 DEF vars, orgVars
<1>3. ASSUME Inv, RequiredInv, NEW u \in User, Up(u) PROVE RequiredInv' /\ StaySound
  <2>1. \A c \in Component : ~Checked(c)'
    BY <1>3 DEF Up, Checked, Ruled
  <2>2. QED
    BY <1>1, <1>3, <2>1 DEF Up, orgVars
<1>4. QED
  BY <1>2, <1>3, RequiredPhase, RequiredMishaps, RequiredPeople DEF Next

\* What a component requires is there (reviewPolicy, retireStaleWorkflows):
\* no retired workflow, deletion by hand or change of the definition leaves a
\* component the definition lists requiring, by the seeder's rule, one that is
\* gone.
THEOREM RequiredAreThere == Spec => RequiredExist
<1>1. Init => RequiredInv
  BY DEF Init, RequiredInv, Holds
<1>2. Inv /\ ListedInv /\ SettledInv /\ RequiredInv /\ [Next]_vars => [StaySound]_vars
  BY RequiredStep
<1>3. [StaySound]_vars => [\A c \in scenario.components : Sound(c) => Sound(c)']_vars
  BY DEF StaySound
<1>4. QED
  BY Invariance, ListedInvariance, SettledInvariance, <1>1, <1>2, <1>3, RequiredStep, PTL
     DEF Spec, RequiredExist
=============================================================================

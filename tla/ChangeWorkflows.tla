--------------------------- MODULE ChangeWorkflows ---------------------------
(***************************************************************************)
(* The ChangeWorkflows of a demo and the rule its components follow: the   *)
(* workflows phase of `cub demo up` (internal/seed/workflows.go) and the   *)
(* definitions it seeds (internal/scenario/workflow.go), run again and     *)
(* again, cut short anywhere, over definitions that change, beside people  *)
(* who set a component's rule, edit a workflow and name change orders.     *)
(***************************************************************************)
EXTENDS Naturals, Sequences

CONSTANTS
  Component,      \* those some definition lists
  Classes,        \* the scenario's classes, in promotion order
  Definitions,    \* what the scenario may say, see DefinitionsAssumption
  Early,          \* components an early seeding gave a workflow of their own
  User,           \* people who run `up`
  Env,            \* what may happen besides `up`
  MaxRuns, MaxEvents  \* bounds: runs of `up`; what else happens

Class == {Classes[k] : k \in DOMAIN Classes}
Gate == SUBSET {"Released", "Healthy"}

ASSUME DefinitionsAssumption ==
  \A d \in Definitions :
    /\ d.components \subseteq Component
    /\ d.placed \in [d.components -> (SUBSET Class) \ {{}}]
    /\ d.prerequisites \in [Class \union {"final"} -> Gate]
    /\ d.review \in BOOLEAN /\ d.reviewers \subseteq User
    /\ d.reviewed \subseteq d.components
ASSUME EarlyAssumption == Early \subseteq Component
ASSUME BoundsAssumption == MaxRuns \in Nat /\ MaxEvents \in Nat

\* The slugs: one rollout workflow per set of classes some component covers,
\* the review workflow, and <component>-workflow of the pre-shared design.
Rollout(S) == <<"rollout", S>>
Review == <<"review">>
Own(c) == <<"own", c>>
Slug == {Rollout(S) : S \in (SUBSET Class) \ {{}}} \union {Review} \union {Own(c) : c \in Component}

VARIABLES
  scenario,  \* the definition in force
  workflow,  \* the ChangeWorkflows there are: [slug -> entity]
  made,      \* [Slug]: how many were ever created, each with an ID of its own
  rule,      \* [Component]: its ChangeWorkflow policy
  under,     \* [Component]: the change order promoted under its own workflow
  shared,    \* [Component]: its change order under a rollout workflow
  at, user, seen, index, todo, doomed, outcome, runs,  \* the `up` in hand
  noted,     \* workflows a run said may be deleted by hand
  touched,   \* components whose rule a person set since the last run began
  events

orgVars == <<workflow, made, rule, under, shared>>
upVars == <<at, user, seen, index, todo, doomed, outcome, runs, noted>>
vars == <<scenario, orgVars, upVars, touched, events>>

OrderState == {"none", "moving", "released", "completed", "aborted", "deleted"}

\* Change orders refer to a workflow by its ID: one made anew is another.
Id(w) == <<w, workflow[w].id>>
There == DOMAIN workflow

-----------------------------------------------------------------------------
(* What the definition says *)

WorkflowFor(c) == Rollout(scenario.placed[c])
Wanted == {WorkflowFor(c) : c \in scenario.components}
ReviewRequired(c) == scenario.review /\ c \in scenario.reviewed

\* The first of the classes a workflow covers: only bases come before it.
First(S) == CHOOSE k \in S : \E n \in DOMAIN Classes :
              Classes[n] = k /\ \A m \in 1 .. n - 1 : Classes[m] \notin S

\* A rollout workflow's gates, stage by stage and at the end; the review
\* workflow's reviewers, the listed ones or whoever runs `up`.
Body(w, u) ==
  IF w = Review
  THEN IF scenario.reviewers = {} THEN {u} ELSE scenario.reviewers
  ELSE [k \in w[2] \union {"final"} |->
          IF k = First(w[2]) THEN {} ELSE scenario.prerequisites[k]]

-----------------------------------------------------------------------------
(* The server *)

Change(f, x, v) == [y \in DOMAIN f \union {x} |-> IF y = x THEN v ELSE f[y]]

Created(w, body) ==
  /\ w \notin There
  /\ workflow' = Change(workflow, w, [body |-> body, added |-> FALSE, id |-> made[w] + 1])
  /\ made' = [made EXCEPT ![w] = @ + 1]
  /\ UNCHANGED <<rule, under, shared>>

\* The entity is replaced.
Replaced(w, entity) ==
  /\ w \in There
  /\ workflow' = [workflow EXCEPT ![w] = entity]
  /\ UNCHANGED <<made, rule, under, shared>>

Deleted(w) ==
  /\ workflow' = [x \in There \ {w} |-> workflow[x]]
  /\ UNCHANGED <<made, rule, under, shared>>

RuleSet(c, r) ==
  /\ rule' = [rule EXCEPT ![c] = r]
  /\ UNCHANGED <<workflow, made, under, shared>>

-----------------------------------------------------------------------------
(* The phase *)

Stop(result) ==
  /\ at' = "off" /\ todo' = {} /\ doomed' = {} /\ outcome' = result
  /\ UNCHANGED <<user, seen, index, runs, noted>>

\* The demo's components are indexed when the run begins, the workflows when
\* the phase does; which workflows are stale goes by that list.
Up(u) ==
  /\ at = "off" /\ runs < MaxRuns
  /\ at' = "retire" /\ user' = u /\ seen' = workflow /\ index' = rule
  /\ todo' = There \ (Wanted \union {Review})
  /\ doomed' = {} /\ outcome' = "running" /\ runs' = runs + 1 /\ noted' = {} /\ touched' = {}
  /\ UNCHANGED <<scenario, orgVars, events>>

Goes(step, items) ==
  /\ at' = step /\ todo' = items
  /\ UNCHANGED <<user, index, doomed, outcome, runs, noted>>

\* Mutant: a released change order is done.
InFlightUnreleased(c) == c \in scenario.components /\ \E o \in {under[c], shared[c]} : o = "moving"

\* componentHasOpenChangeOrder: an order is open in every state but aborted
\* (and restored), under whichever workflow. The orders are those of the root
\* space, none where it is missing; a component the definition does not list
\* is taken to have none.
InFlight(c) ==
  /\ c \in scenario.components
  /\ \E o \in {under[c], shared[c]} : o \notin {"none", "aborted", "deleted"}

\* Mutant: the suffix is not looked at.
MayRetireAny(w) == w[1] = "own" => ~InFlight(w[2])

\* Only a component's own workflow is retired; what else is stale is noted.
MayRetire(w) == w[1] = "own" /\ ~InFlight(w[2])

\* The component's orders are listed, and then its workflow is deleted.
JudgeStale ==
  /\ at = "retire" /\ doomed = {}
  /\ \E w \in todo :
       /\ todo' = todo \ {w}
       /\ doomed' = IF MayRetire(w) THEN {w} ELSE {}
       /\ noted' = IF w[1] = "rollout" THEN noted \union {w} ELSE noted
  /\ UNCHANGED <<scenario, orgVars, at, user, seen, index, outcome, runs, touched, events>>

DeleteStale ==
  /\ \E w \in doomed : Deleted(w)
  /\ doomed' = {}
  /\ UNCHANGED <<scenario, at, user, seen, index, todo, outcome, runs, noted, touched>>

StaleDone ==
  /\ at = "retire" /\ todo = {} /\ doomed = {}
  /\ Goes("ensure", Wanted)
  /\ UNCHANGED <<scenario, orgVars, seen, touched, events>>

\* Mutants: what exists is taken for what is wanted; an update starts from
\* nothing.
EnsureWorkflowExisting(w) ==
  IF w \in DOMAIN seen THEN UNCHANGED orgVars ELSE Created(w, Body(w, user))
EnsureWorkflowAfresh(w) ==
  CASE w \notin DOMAIN seen -> Created(w, Body(w, user))
    [] w \in DOMAIN seen /\ seen[w].body = Body(w, user) -> UNCHANGED orgVars
    [] OTHER -> Replaced(w, [seen[w] EXCEPT !.body = Body(w, user), !.added = FALSE])

\* The hash kept with the entity is that of the body: unchanged ones are
\* skipped, and an update starts from the entity the list returned.
EnsureWorkflow(w) ==
  CASE w \notin DOMAIN seen -> Created(w, Body(w, user))
    [] w \in DOMAIN seen /\ seen[w].body = Body(w, user) -> UNCHANGED orgVars
    [] OTHER -> Replaced(w, [seen[w] EXCEPT !.body = Body(w, user)])

EnsureNext ==
  /\ at \in {"ensure", "review"}
  /\ \E w \in todo : EnsureWorkflow(w) /\ todo' = todo \ {w}
  /\ UNCHANGED <<scenario, at, user, seen, index, doomed, outcome, runs, noted, touched>>

\* The rollout workflows first, then the review workflow; reviewPolicy lists
\* the workflows again, and has nothing to do where there is none for reviews.
Ensured ==
  /\ todo = {}
  /\ \/ at = "ensure" /\ scenario.review /\ Goes("review", {Review}) /\ UNCHANGED seen
     \/ /\ at = "review" \/ (at = "ensure" /\ ~scenario.review)
        /\ IF Review \in There
           THEN Goes("rules", scenario.components) /\ seen' = workflow
           ELSE Stop("ok")
  /\ UNCHANGED <<scenario, orgVars, touched, events>>

SeenId(w) == <<w, seen[w].id>>

NoRule == [required |-> FALSE, allowed |-> {}, seeded |-> FALSE]

\* Mutant: whoever set the rule, a component the scenario does not name loses
\* it.
ReviewPolicyStrict(c) ==
  LET allowed == {SeenId(Review), SeenId(WorkflowFor(c))} IN
  CASE ReviewRequired(c) -> RuleSet(c, [required |-> TRUE, allowed |-> allowed, seeded |-> TRUE])
    [] ~ReviewRequired(c) /\ index[c].required -> RuleSet(c, NoRule)
    [] OTHER -> UNCHANGED orgVars
\* Mutant: what the component allows is not compared.
ReviewPolicyOnce(c) ==
  LET allowed == {SeenId(Review), SeenId(WorkflowFor(c))} IN
  CASE ReviewRequired(c) /\ ~index[c].required ->
         RuleSet(c, [required |-> TRUE, allowed |-> allowed, seeded |-> TRUE])
    [] ~ReviewRequired(c) /\ index[c].seeded -> RuleSet(c, NoRule)
    [] OTHER -> UNCHANGED orgVars

\* Mutant: the workflows are named by their slugs.
ReviewPolicyBySlug(c) ==
  IF ReviewRequired(c)
  THEN RuleSet(c, [required |-> TRUE, allowed |-> {Review, WorkflowFor(c)}, seeded |-> TRUE])
  ELSE UNCHANGED orgVars

\* A component the definition names requires a workflow and allows two; one it
\* no longer names loses the rule an earlier run gave it.
ReviewPolicy(c) ==
  LET allowed == {SeenId(Review), SeenId(WorkflowFor(c))} IN
  CASE ReviewRequired(c) /\ ~(index[c].required /\ index[c].allowed = allowed) ->
         RuleSet(c, [required |-> TRUE, allowed |-> allowed, seeded |-> TRUE])
    [] ~ReviewRequired(c) /\ index[c].seeded -> RuleSet(c, NoRule)
    [] OTHER -> UNCHANGED orgVars

SetRule ==
  /\ at = "rules"
  /\ \E c \in todo : ReviewPolicy(c) /\ todo' = todo \ {c}
  /\ UNCHANGED <<scenario, at, user, seen, index, doomed, outcome, runs, noted, touched>>

RulesDone ==
  /\ at = "rules" /\ todo = {}
  /\ Stop("ok")
  /\ UNCHANGED <<scenario, orgVars, touched, events>>

Call == (at = "retire" /\ DeleteStale) \/ EnsureNext \/ SetRule
Phase == (Call /\ UNCHANGED events) \/ JudgeStale \/ StaleDone \/ Ensured \/ RulesDone

-----------------------------------------------------------------------------
(* What goes wrong, and what others do *)

Happens(e) == e \in Env /\ events < MaxEvents /\ events' = events + 1

\* The process dies, or a call fails: the first that fails ends the phase.
Interrupted ==
  /\ Happens("crash") /\ at # "off"
  /\ Stop("failed")
  /\ UNCHANGED <<scenario, orgVars, touched>>

\* A call takes effect and its answer is lost.
AnswerLost ==
  /\ Happens("lost")
  /\ \/ at = "retire" /\ \E w \in doomed : Deleted(w)
     \/ at \in {"ensure", "review"} /\ \E w \in todo : EnsureWorkflow(w)
     \/ at = "rules" /\ \E c \in todo : ReviewPolicy(c)
  /\ Stop("failed")
  /\ UNCHANGED <<scenario, touched>>

\* `cub demo install` of another definition, between two runs.
Updated ==
  /\ Happens("update") /\ at = "off"
  /\ scenario' \in Definitions \ {scenario}
  /\ outcome' = "none"
  /\ UNCHANGED <<orgVars, at, user, seen, index, todo, doomed, runs, noted, touched>>

\* A play's beat, `cub component update --change-workflow-required` with the
\* review and the component's workflow allowed, or a person who lifts the rule.
Beat(c) ==
  /\ Happens("rule")
  /\ \/ /\ c \in scenario.components /\ {Review, WorkflowFor(c)} \subseteq There
        /\ RuleSet(c, [required |-> TRUE, allowed |-> {Id(Review), Id(WorkflowFor(c))},
                       seeded |-> rule[c].seeded])
     \/ RuleSet(c, [rule[c] EXCEPT !.required = FALSE])
  /\ touched' = touched \union {c}
  /\ UNCHANGED <<scenario, upVars>>

\* A person gives a workflow what no definition carries: permissions, delete
\* gates. Between runs: an update writes back the entity as it was listed.
Adds(w) ==
  /\ Happens("edit") /\ at = "off"
  /\ w \in There
  /\ Replaced(w, [workflow[w] EXCEPT !.added = TRUE])
  /\ UNCHANGED <<scenario, upVars, touched>>

\* A noted workflow is deleted by hand, once the run that noted it is over.
DeletesByHand(w) ==
  /\ outcome = "ok" /\ w \in noted \intersect There
  /\ Deleted(w)
  /\ UNCHANGED <<scenario, upVars, touched, events>>

\* A story, a play or an agent names a change order under the component's
\* rollout workflow. Followed where it decides anything: for a component that
\* may have a workflow of its own.
Names(c) ==
  /\ c \in Early \intersect scenario.components /\ WorkflowFor(c) \in There
  /\ shared[c] = "none"
  /\ shared' = [shared EXCEPT ![c] = "moving"]
  /\ UNCHANGED <<scenario, workflow, made, rule, under, upVars, touched, events>>

\* A component's root space is deleted between runs, its change orders with
\* it; `up` makes the space again, and no later order is followed.
DeletesRoot(c) ==
  /\ Happens("root") /\ at = "off" /\ c \in Early
  /\ under' = [under EXCEPT ![c] = IF @ = "none" THEN @ ELSE "deleted"]
  /\ shared' = [shared EXCEPT ![c] = "deleted"]
  /\ UNCHANGED <<scenario, workflow, made, rule, upVars, touched>>

Later(s) == CASE s = "moving" -> {"released", "aborted"}
              [] s = "released" -> {"completed"}
              [] OTHER -> {}

Proceeds(c) ==
  /\ \/ under' \in {[under EXCEPT ![c] = s] : s \in Later(under[c])} /\ UNCHANGED shared
     \/ shared' \in {[shared EXCEPT ![c] = s] : s \in Later(shared[c])} /\ UNCHANGED under
  /\ UNCHANGED <<scenario, workflow, made, rule, upVars, touched, events>>

People ==
  \/ Updated
  \/ \E c \in Component : Beat(c) \/ Names(c) \/ DeletesRoot(c) \/ Proceeds(c)
  \/ \E w \in Slug : Adds(w) \/ DeletesByHand(w)

\* An org seeded early, where some components' own workflows still have a
\* change order under them, or a new one.
Init ==
  /\ scenario \in Definitions
  /\ \E old \in SUBSET Early :
       /\ workflow = [w \in {Own(c) : c \in old} |-> [body |-> {}, added |-> FALSE, id |-> 1]]
       /\ made = [w \in Slug |-> IF w \in DOMAIN workflow THEN 1 ELSE 0]
       /\ under \in {f \in [Component -> OrderState] : \A c \in Component : c \notin old => f[c] = "none"}
  /\ shared = [c \in Component |-> "none"]
  /\ rule = [c \in Component |-> [required |-> FALSE, allowed |-> {}, seeded |-> FALSE]]
  /\ at = "off" /\ user \in User /\ seen = [w \in {} |-> w] /\ index = rule
  /\ todo = {} /\ doomed = {} /\ outcome = "none" /\ runs = 0
  /\ noted = {} /\ touched = {} /\ events = 0

Next == (\E u \in User : Up(u)) \/ Phase \/ Interrupted \/ AnswerLost \/ People

Spec == Init /\ [][Next]_vars

-----------------------------------------------------------------------------
(* Properties *)

RuleType == [required: BOOLEAN, allowed: SUBSET (Slug \X Nat), seeded: BOOLEAN]

TypeOK ==
  /\ scenario \in Definitions
  /\ There \subseteq Slug
  /\ \A w \in There : workflow[w].added \in BOOLEAN /\ workflow[w].id \in 1 .. made[w]
  /\ made \in [Slug -> Nat]
  /\ rule \in [Component -> RuleType] /\ index \in [Component -> RuleType]
  /\ under \in [Component -> OrderState] /\ shared \in [Component -> OrderState]
  /\ at \in {"off", "retire", "ensure", "review", "rules"} /\ user \in User
  /\ DOMAIN seen \subseteq Slug
  /\ todo \subseteq Slug \union Component /\ doomed \subseteq Slug /\ noted \subseteq Slug
  /\ touched \subseteq Component /\ outcome \in {"none", "running", "failed", "ok"}
  /\ runs \in 0 .. MaxRuns /\ events \in 0 .. MaxEvents

\* "so the review is the component's rule" (reviewPolicy): after a run that
\* gets through, each component of the definition it names for review requires
\* a workflow and allows the review workflow and the one its change orders
\* bind, as they are now; no other has a rule of the seeder's left.
RulesStand ==
  outcome = "ok" => \A c \in scenario.components \ touched :
    IF ReviewRequired(c)
    THEN rule[c].required /\ rule[c].allowed = {Id(Review), Id(WorkflowFor(c))}
    ELSE ~rule[c].seeded

\* After a run that gets through the workflows are what the definition in
\* force says, whichever definitions and half runs went before.
DefinitionsStand ==
  outcome = "ok" =>
    /\ \A w \in Wanted : w \in There /\ workflow[w].body = Body(w, user)
    /\ scenario.review => Review \in There /\ workflow[Review].body = Body(Review, user)

\* A rule of the seeder's that is in force, and the workflows it allows.
Holds(c) == rule[c].seeded /\ rule[c].required
Sound(c) == Holds(c) => \A w \in rule[c].allowed : w[1] \in There /\ w = Id(w[1])

\* No step, of a run or of anybody, leaves a component of the definition
\* requiring by the seeder's rule a workflow that is gone: nothing could be
\* changed there any more. (No run comes to the rule of one the definition has
\* dropped: it may outlive the workflows it names.)
RequiredExist ==
  [][\A c \in scenario.components : Sound(c) => Sound(c)']_vars

\* "they are deleted unless a change order still in flight is promoted under
\* them" (workflows): no step takes from an order that may still move the
\* workflow it is promoted under, as long as the definition lists the component.
RolloutsKeepWorkflow ==
  [][\A c \in scenario.components :
       Own(c) \in There /\ under[c] \in {"moving", "released"} => Own(c) \in There']_vars

\* "what the definition does not carry (permissions, delete gates) survives"
\* an update (ensureWorkflow).
AdditionsSurvive ==
  [][\A w \in There \intersect DOMAIN workflow' : workflow[w].added => workflow'[w].added]_vars

\* "one a play or a person gave the policy keeps it" (reviewPolicy): no step of
\* a run touches the rule of a component it does not name and gave none.
PeoplesRulesStay ==
  [][upVars' # upVars => \A c \in Component :
       ~rule[c].seeded /\ ~ReviewRequired(c) => rule'[c] = rule[c]]_vars
=============================================================================

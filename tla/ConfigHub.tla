------------------------------ MODULE ConfigHub ------------------------------
(***************************************************************************)
(* The ConfigHub server as the demo's runner and players see it: the       *)
(* ChangeSets, change orders and Releases of the components' base spaces.  *)
(* The server is not in this repository; every definition here is read     *)
(* from how internal/agents and internal/present use it and from the       *)
(* "Product facts" of docs/DESIGN.md, and takes nothing else for granted.  *)
(*                                                                         *)
(* A ChangeSet and the change order that carries it share a slug,          *)
(* <owner>-<n>; both are indexed by the owner and the number.              *)
(***************************************************************************)
EXTENDS Naturals

CONSTANTS
  Agent,        \* the scenario's component agents
  Person,       \* presenters: they take bases and run plays
  Base,         \* root base spaces, one per component
  BaseOf,       \* the base an owner works on
  Deployment,   \* deployment spaces, numbered in the order of their slugs
  DeployedFrom, \* the base a deployment descends from
  StageOf,      \* the workflow stage a deployment is in
  LastStage,    \* stage 1 is the class bases, 2 .. LastStage are classes
  MaxCycle      \* bound: changes one owner makes

Owner == Agent \union Person
Cycle == 1 .. MaxCycle
Stage == 0 .. LastStage     \* 0: the order has entered no stage

ASSUME OwnersAssumption == Agent \cap Person = {} /\ BaseOf \in [Owner -> Base]
ASSUME BoundsAssumption == MaxCycle \in Nat /\ LastStage \in Nat /\ LastStage >= 2
ASSUME DeploymentsAssumption ==
  /\ Deployment \subseteq Nat
  /\ DeployedFrom \in [Deployment -> Base]
  /\ StageOf \in [Deployment -> 2 .. LastStage]

VARIABLES
  required,   \* [Base]: the component requires a ChangeWorkflow
  changeSet,  \* [Owner][Cycle]: the ChangeSet's State
  ruled,      \* [Owner][Cycle]: it was created under the review workflow
  requests,   \* [Owner][Cycle]: its ReviewRequests
  approved,   \* [Owner][Cycle]: a reviewer has approved it
  written,    \* [Owner][Cycle]: change steps written inside it
  order,      \* [Owner][Cycle]: the change order's standing
  stage,      \* [Owner][Cycle]: the change order's Stage
  pinned,     \* <<o, n, d>>: d's latest Release was published for order o-n
  carried,    \* <<o, n, d>>: d's latest Release carries the change of o-n
  health,     \* [Deployment]: live status of the latest Release
  releases    \* [Owner][Cycle][Deployment]: Releases published for the order

changeSetVars == <<changeSet, ruled, requests, approved, written>>
orderVars == <<order, stage>>
releaseVars == <<pinned, carried, health, releases>>
serverVars == <<required, changeSetVars, orderVars, releaseVars>>

ChangeSetState == {"none", "created", "Open", "Closed"}
OrderState == {"none", "moving", "completed", "terminal"}
Health == {"none", "unreported", "healthy", "degraded"}

\* The ChangeSets holding units of a base. `cub variant changeset open` opens
\* on all of the units or none.
Holding(b) == {o \in Owner : BaseOf[o] = b /\ \E n \in Cycle : changeSet[o][n] = "Open"}

InStage(b, k) == {d \in Deployment : DeployedFrom[d] = b /\ StageOf[d] = k}

-----------------------------------------------------------------------------
(* ChangeSets *)

\* Slugs are unique, and a component that requires a ChangeWorkflow refuses a
\* ChangeSet that names none.
CanCreate(o, n, underReview) ==
  /\ changeSet[o][n] = "none"
  /\ required[BaseOf[o]] => underReview

ServerCreate(o, n, underReview) ==
  /\ CanCreate(o, n, underReview)
  /\ changeSet' = [changeSet EXCEPT ![o][n] = "created"]
  /\ ruled' = [ruled EXCEPT ![o][n] = underReview]
  /\ UNCHANGED <<required, requests, approved, written, orderVars, releaseVars>>

CanOpen(o, n) == changeSet[o][n] = "created" /\ Holding(BaseOf[o]) = {}

ServerSetState(o, n, state) ==
  /\ changeSet' = [changeSet EXCEPT ![o][n] = state]
  /\ UNCHANGED <<required, ruled, requests, approved, written, orderVars, releaseVars>>

ServerWrite(o, n) ==
  /\ written' = [written EXCEPT ![o][n] = @ + 1]
  /\ UNCHANGED <<required, changeSet, ruled, requests, approved, orderVars, releaseVars>>

ServerAsk(o, n) ==
  /\ requests' = [requests EXCEPT ![o][n] = @ + 1]
  /\ UNCHANGED <<required, changeSet, ruled, approved, written, orderVars, releaseVars>>

\* The review workflow's Final gate: an approval that counts.
GatesHold(o, n) == ruled[o][n] => approved[o][n]

-----------------------------------------------------------------------------
(* Change orders and Releases *)

ServerCreateOrder(o, n) ==
  /\ order[o][n] = "none"
  /\ order' = [order EXCEPT ![o][n] = "moving"]
  /\ stage' = [stage EXCEPT ![o][n] = 0]
  /\ UNCHANGED <<required, changeSetVars, releaseVars>>

\* Promotion out of a class stage needs every deployment there Released (its
\* latest Release carries the change) and Healthy; the bases have no gate.
CanPromote(o, n) ==
  /\ order[o][n] = "moving"
  /\ stage[o][n] < LastStage
  /\ \A d \in InStage(BaseOf[o], stage[o][n]) :
       <<o, n, d>> \in carried /\ health[d] = "healthy"

ServerPromote(o, n) ==
  /\ CanPromote(o, n)
  /\ stage' = [stage EXCEPT ![o][n] = stage[o][n] + 1]
  /\ UNCHANGED <<required, changeSetVars, order, releaseVars>>

NotOf(S, d) == {t \in S : t[3] # d}

\* A Release pinned to an order; it is the latest of its space and nobody has
\* reported on it. Taken to carry no other order that is still moving.
ServerPublish(o, n, d) ==
  /\ order[o][n] \in {"moving", "completed"}
  /\ pinned' = NotOf(pinned, d) \union {<<o, n, d>>}
  /\ carried' = NotOf(carried, d) \union {<<o, n, d>>}
  /\ health' = [health EXCEPT ![d] = "unreported"]
  /\ releases' = [releases EXCEPT ![o][n][d] = @ + 1]
  /\ UNCHANGED <<required, changeSetVars, orderVars>>

\* A Release of the space's head revisions that names no order: it carries
\* every change promoted that far, and advances none.
ServerPublishPlain(d) ==
  /\ pinned' = NotOf(pinned, d)
  /\ carried' = NotOf(carried, d) \union
       {t \in Owner \X Cycle \X {d} :
          BaseOf[t[1]] = DeployedFrom[d] /\ stage[t[1]][t[2]] >= StageOf[d]}
  /\ health' = [health EXCEPT ![d] = "unreported"]
  /\ UNCHANGED <<required, changeSetVars, orderVars, releases>>

\* Live status on a space's latest Release. What was published for an order
\* and is reported healthy across the last stage completes that order.
Finished(o, n, h) ==
  /\ order[o][n] = "moving" /\ stage[o][n] = LastStage
  /\ \A d \in InStage(BaseOf[o], LastStage) :
       <<o, n, d>> \in pinned /\ h[d] = "healthy"

ServerReport(d, h) ==
  /\ health' = [health EXCEPT ![d] = h]
  /\ order' = [o \in Owner |-> [n \in Cycle |->
                 IF Finished(o, n, health') THEN "completed" ELSE order[o][n]]]
  /\ UNCHANGED <<required, changeSetVars, stage, pinned, carried, releases>>

-----------------------------------------------------------------------------
ServerTypeOK ==
  /\ required \in [Base -> BOOLEAN]
  /\ changeSet \in [Owner -> [Cycle -> ChangeSetState]]
  /\ ruled \in [Owner -> [Cycle -> BOOLEAN]]
  /\ requests \in [Owner -> [Cycle -> Nat]]
  /\ approved \in [Owner -> [Cycle -> BOOLEAN]]
  /\ written \in [Owner -> [Cycle -> Nat]]
  /\ order \in [Owner -> [Cycle -> OrderState]]
  /\ stage \in [Owner -> [Cycle -> Stage]]
  /\ pinned \subseteq Owner \X Cycle \X Deployment
  /\ carried \subseteq Owner \X Cycle \X Deployment
  /\ health \in [Deployment -> Health]
  /\ releases \in [Owner -> [Cycle -> [Deployment -> Nat]]]
=============================================================================

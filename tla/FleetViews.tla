----------------------------- MODULE FleetViews -----------------------------
(***************************************************************************)
(* The views phase of `up` (internal/seed/views.go): the saved filters and *)
(* the views over them in the home space, brought to what this version of  *)
(* the tool defines, call by call. Runs of several versions come one after *)
(* the other, and any of them may stop between two calls.                  *)
(*                                                                         *)
(* A slug's view and filter are sets of at most one.                       *)
(***************************************************************************)
EXTENDS Naturals

CONSTANTS
  Views,      \* how many there are
  Tool,       \* versions of the tool
  Query,      \* what a filter selects: its From and Where
  Look,       \* the rest of a view's definition
  Definition  \* [Tool -> [1 .. Views -> a definition]]

ViewDefinition == [query : Query, look : Look]

ASSUME DefinitionAssumption ==
  Views \in Nat /\ Definition \in [Tool -> [1 .. Views -> ViewDefinition]]

VARIABLES
  view,    \* the definition whose hash the view bears
  filter,  \* what the filter selects
  turn,    \* the definition in hand; 0: not running
  tool     \* of the run in hand, or the last

viewVars == <<view, filter, turn, tool>>

Nothing == [v \in 1 .. Views |-> {}]
Wanted == Definition[tool][turn]

ViewsInit == view = Nothing /\ filter = Nothing /\ turn = 0 /\ tool \in Tool

ViewsBegin(t) == turn' = 1 /\ tool' = t /\ UNCHANGED <<view, filter>>

KeepView ==
  /\ turn \in 1 .. Views /\ view[turn] = {Wanted}
  /\ turn' = turn + 1
  /\ UNCHANGED <<view, filter, tool>>

DeleteView ==
  /\ turn \in 1 .. Views /\ view[turn] \notin {{}, {Wanted}}
  /\ view' = [view EXCEPT ![turn] = {}]
  /\ UNCHANGED <<filter, turn, tool>>

\* A filter with another From or Where is replaced, whether its view stands or
\* was deleted by a run that went no further.
DeleteFilter ==
  /\ turn \in 1 .. Views /\ view[turn] = {} /\ filter[turn] \notin {{}, {Wanted.query}}
  /\ filter' = [filter EXCEPT ![turn] = {}]
  /\ UNCHANGED <<view, turn, tool>>

MakeFilter ==
  /\ turn \in 1 .. Views /\ view[turn] = {} /\ filter[turn] = {}
  /\ filter' = [filter EXCEPT ![turn] = {Wanted.query}]
  /\ UNCHANGED <<view, turn, tool>>

\* Mutant: allow-exists gives the filter there is, and it is taken as it is.
MakeViewOverAny ==
  /\ turn \in 1 .. Views /\ view[turn] = {} /\ filter[turn] # {}
  /\ view' = [view EXCEPT ![turn] = {Wanted}]
  /\ turn' = turn + 1
  /\ UNCHANGED <<filter, tool>>

MakeView ==
  /\ turn \in 1 .. Views /\ view[turn] = {} /\ filter[turn] = {Wanted.query}
  /\ view' = [view EXCEPT ![turn] = {Wanted}]
  /\ turn' = turn + 1
  /\ UNCHANGED <<filter, tool>>

ViewsStep == KeepView \/ DeleteView \/ DeleteFilter \/ MakeFilter \/ MakeView

\* The run stops, wherever it is.
ViewsStop == turn' = 0 /\ UNCHANGED <<view, filter, tool>>

\* Filters and views go with the home space.
HomeGone == view' = Nothing /\ filter' = Nothing /\ turn' = 0 /\ UNCHANGED tool

ViewsNext == (\E t \in Tool : ViewsBegin(t)) \/ ViewsStep \/ ViewsStop \/ HomeGone
ViewsSpec == ViewsInit /\ [][ViewsNext]_viewVars

-----------------------------------------------------------------------------
ViewsTypeOK ==
  /\ view \in [1 .. Views -> SUBSET ViewDefinition]
  /\ filter \in [1 .. Views -> SUBSET Query]
  /\ turn \in 0 .. Views + 1
  /\ tool \in Tool

\* "Converge" (views.go): whatever versions ran before and wherever they
\* stopped, no view ever stands over another definition's filter, and all a
\* run has been through are as its version defines them.
ViewsCurrent ==
  \A v \in 1 .. Views :
    /\ view[v] # {} => filter[v] = {d.query : d \in view[v]}
    /\ v < turn => view[v] = {Definition[tool][v]}
=============================================================================

-------------------------- MODULE MCChangeWorkflows --------------------------
(* A small instance of ChangeWorkflows. *)
EXTENDS ChangeWorkflows, TLC

CONSTANTS c1, c2, dev, prod, u1, u2

TwoClasses == <<dev, prod>>
Gates(f) == [k \in {dev, prod, "final"} |-> IF k = "final" THEN f ELSE {"Released", "Healthy"}]

\* The first definition lists one component of the two and has no review; the
\* second lists both and reviews the one, by whoever seeds; the third moves
\* that one, drops a gate and has the other reviewed, by a person it lists.
\* Going back to the first drops a component that may have a rule, a rollout
\* workflow of its classes, one of its own and an order moving under it.
Plain == [components |-> {c2}, placed |-> c2 :> {dev}, prerequisites |-> Gates({"Healthy"}),
          review |-> FALSE, reviewers |-> {}, reviewed |-> {}]
Reviewed == [Plain EXCEPT !.components = {c1, c2}, !.placed = (c1 :> {dev, prod}) @@ (c2 :> {dev}),
                          !.review = TRUE, !.reviewed = {c1}]
Moved == [Reviewed EXCEPT !.placed = (c1 :> {prod}) @@ (c2 :> {dev}), !.prerequisites = Gates({}),
                          !.reviewers = {u2}, !.reviewed = {c2}]
ThreeDefinitions == {Plain, Reviewed, Moved}
=============================================================================

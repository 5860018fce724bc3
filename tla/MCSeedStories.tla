--------------------------- MODULE MCSeedStories ---------------------------
(* Small instances of SeedStories. *)
EXTENDS SeedStories, TLC

CONSTANTS st1, st2, c1, c2, d1, d2, d3, d4, d5

AllPhases == {"releases", "livestatus", "stories"}
Whole == {AllPhases}
SomePhases == (SUBSET AllPhases) \ {{}}
Default == [k \in 3 .. 4 |-> {"Released", "Healthy"}]
Three == [i \in Story |-> 3]
Ungated == [k \in 3 .. 4 |-> {}]

\* One component, two deployments in its first class and one in its last.
One == <<st1>>
OneOf == [x \in {st1, d1, d2, d3} |-> c1]
TwoAndOne == (d1 :> 2) @@ (d2 :> 2) @@ (d3 :> 3)
ToTheEnd == st1 :> 3
NoneDegraded == [i \in Story |-> {}]

\* One story walked through its last stage, one half way and blocked there.
HalfOf == (st1 :> c1) @@ (d1 :> c1) @@ (d2 :> c1) @@ (d3 :> c1) @@ (st2 :> c2) @@ (d4 :> c2) @@ (d5 :> c2)
HalfStages == (d1 :> 2) @@ (d2 :> 2) @@ (d3 :> 3) @@ (d4 :> 2) @@ (d5 :> 3)
HalfLands == (st1 :> 3) @@ (st2 :> 2)
HalfDegraded == (st1 :> {}) @@ (st2 :> {d4})

\* Two components: a story walked through its last stage, and one that only
\* has its change in the bases, on deployments with something to show.
Two == <<st1, st2>>
TwoComponents == {c1, c2}
TwoSpaces == {d1, d2, d3, d4}
TwoOf == [x \in {st1, st2} \union TwoSpaces |-> IF x \in {st1, d1, d2} THEN c1 ELSE c2]
TwoStages == [s \in TwoSpaces |-> IF s = d2 THEN 3 ELSE 2]
TwoLast == [i \in {st1, st2} |-> IF i = st1 THEN 3 ELSE 2]
OneLands == [i \in {st1, st2} |-> IF i = st1 THEN 3 ELSE 1]
TwoDegraded == [i \in {st1, st2} |-> {}]
TwoUnreleased == {d4}
TwoSkewed == {d3, d4}
=============================================================================

------------------------------ MODULE MCStories -----------------------------
(* Two instances of SeedStories in one run. The walk has stories walked      *)
(* behind gates; beside it, nothing is gated, so that what keeps the classes *)
(* and the Releases in order is the seeder's own order, and later changes    *)
(* come into the bases. Which of the two a behaviour is of never changes.    *)
EXTENDS MCSeedStories

VARIABLE which

Beside == INSTANCE SeedStories WITH
  Stories <- Two, Component <- TwoComponents, ComponentOf <- TwoOf,
  LandedThrough <- OneLands, Degrade <- TwoDegraded,
  Space <- TwoSpaces, StageOf <- TwoStages, LastStage <- TwoLast,
  Prerequisites <- Ungated, Unreleased <- TwoUnreleased, Skewed <- TwoSkewed,
  Exceptions <- {}, Env <- {"crash", "fault", "later"}

\* The names of the second instance are of different things.
ASSUME NamesApart ==
  /\ c1 # c2
  /\ \A j, k \in 1 .. 6 : LET n == <<st1, st2, d1, d2, d3, d4>> IN n[j] = n[k] => j = k
  /\ {st1, st2} \intersect {"seed", "skew", "edit", "none"} = {}

BothInit == (which = "walk" /\ Init) \/ (which = "beside" /\ Beside!Init)
BothNext ==
  /\ UNCHANGED which
  /\ \/ which = "walk" /\ Next
     \/ which = "beside" /\ Beside!Next

\* A run of the walk takes its next call, and `up` is run again.
Both ==
  /\ BothInit /\ [][BothNext]_<<vars, which>>
  /\ WF_vars(which = "walk" /\ Step) /\ WF_vars(which = "walk" /\ Up)

\* The walk's: a run that gets through leaves each story where the scenario
\* says (SeedStories states these as its own).
WalkTypeOK == which = "walk" => TypeOK
WalkStoriesStand == which = "walk" => StoriesStand

\* No promotion of a walk is refused by a gate the walk itself was to open.
WalkNeverRefused == which = "walk" => NeverRefused

\* As long as no run is cut short and no call fails, a walked story completes.
WalkCompletes == which = "walk" => UndisturbedWalkCompletes

\* "an interrupted run is resumed by running up again" (cmd/up.go): whatever
\* fails, a run gets through in the end.
WalkGetsThrough == <>(which = "walk" => outcome = "ok")

\* Walked, edited, cut short and resumed, behind gates and without any: each
\* instance implements StoryWalk, so that a change goes class by class and is
\* never taken back.
PromisedStart ==
  /\ which = "walk" => Promise!Init
  /\ which = "beside" => Beside!Promise!Init
PromisedStep ==
  /\ which = "walk" => [Promise!Next]_(Promise!vars)
  /\ which = "beside" => [Beside!Promise!Next]_(Beside!Promise!vars)
BothKeepTheirPromise == PromisedStart /\ [][PromisedStep]_<<vars, which>>

\* A skewed space never bundles its skew, in any order of phases.
BesideSkewShows == which = "beside" => Beside!SkewShows

\* "re-releases skip" (stories.go): a Release bundles something new.
BesideNothingRepublished ==
  [][which = "beside" => Beside!PublishesSomethingNew]_<<vars, which>>
=============================================================================

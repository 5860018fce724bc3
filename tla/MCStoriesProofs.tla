--------------------------- MODULE MCStoriesProofs ---------------------------
(* What stories_both checks of its two instances: of the walk for any        *)
(* constants, and of the other for the stories and spaces it is given there. *)
(* A behaviour of the run is a behaviour of SeedStories, as one or the other. *)
EXTENDS MCStories, StoriesProofs

\* The theorems, of the instance beside the walk.
P == INSTANCE StoriesProofs WITH
  Stories <- Two, Component <- TwoComponents, ComponentOf <- TwoOf,
  LandedThrough <- OneLands, Degrade <- TwoDegraded,
  Space <- TwoSpaces, StageOf <- TwoStages, LastStage <- TwoLast,
  Prerequisites <- Ungated, Unreleased <- TwoUnreleased, Skewed <- TwoSkewed,
  Exceptions <- {}, Env <- {"crash", "fault", "later"}

-----------------------------------------------------------------------------
(* The second instance meets the assumptions of the theorems *)

LEMMA NamesDiffer ==
  /\ c1 # c2 /\ st1 # st2 /\ {st1, st2} \intersect TwoSpaces = {}
  /\ d1 # d2 /\ d1 # d3 /\ d1 # d4 /\ d2 # d3 /\ d2 # d4 /\ d3 # d4
<1> DEFINE n == <<st1, st2, d1, d2, d3, d4>>
<1>1. \A j, k \in 1 .. 6 : n[j] = n[k] => j = k
  BY NamesApart DEF NamesApart
<1>2. n[1] = st1 /\ n[2] = st2 /\ n[3] = d1 /\ n[4] = d2 /\ n[5] = d3 /\ n[6] = d4
  OBVIOUS
<1> HIDE DEF n
<1>3. c1 # c2
  BY NamesApart DEF NamesApart
<1> QED BY <1>1, <1>2, <1>3 DEF TwoSpaces

LEMMA TwoStories == DOMAIN Two = 1 .. 2 /\ Two[1] = st1 /\ Two[2] = st2 /\ P!Story = {st1, st2}
<1>1. DOMAIN Two = 1 .. 2 /\ Two[1] = st1 /\ Two[2] = st2
  BY DEF Two
<1> QED BY <1>1 DEF P!Story

\* The first component has the first story, the second the other.
LEMMA TwoComponentsOf ==
  /\ TwoOf[st1] = c1 /\ TwoOf[d1] = c1 /\ TwoOf[d2] = c1
  /\ TwoOf[st2] = c2 /\ TwoOf[d3] = c2 /\ TwoOf[d4] = c2
BY NamesDiffer DEF TwoOf, TwoSpaces

LEMMA TwoStagesOf ==
  /\ TwoStages[d1] = 2 /\ TwoStages[d2] = 3 /\ TwoStages[d3] = 2 /\ TwoStages[d4] = 2
  /\ TwoLast[st1] = 3 /\ TwoLast[st2] = 2
BY NamesDiffer DEF TwoStages, TwoLast, TwoSpaces

LEMMA BesideIsAssumed ==
  /\ P!NamesAssumption /\ P!RunsAssumption /\ P!SpacesAssumption
  /\ P!StagesAssumption /\ P!StoriesAssumption
<1>1. P!NamesAssumption
  <2>1. Two \in Seq({st1, st2}) /\ Two # <<>>
    BY DEF Two
  <2> QED BY <2>1, TwoStories, NamesApart DEF P!NamesAssumption, NamesApart
<1>2. P!RunsAssumption
  BY RunsAssumption DEF RunsAssumption, P!RunsAssumption
<1>3. P!SpacesAssumption
  BY DEF P!SpacesAssumption, TwoUnreleased, TwoSkewed, TwoSpaces
<1>4. P!StagesAssumption
  <2>1. TwoStages \in [TwoSpaces -> Nat \ {0, 1}] /\ TwoLast \in [{st1, st2} -> Nat]
    BY DEF TwoStages, TwoLast
  <2>2. {t \in TwoSpaces : TwoOf[t] = TwoOf[st1]} = {d1, d2}
    BY TwoComponentsOf, NamesDiffer DEF TwoSpaces
  <2>3. {t \in TwoSpaces : TwoOf[t] = TwoOf[st2]} = {d3, d4}
    BY TwoComponentsOf, NamesDiffer DEF TwoSpaces
  <2>4. {TwoStages[s] : s \in {d1, d2}} = 2 .. TwoLast[st1]
    <3>1. {TwoStages[s] : s \in {d1, d2}} = {2, 3}
      BY TwoStagesOf
    <3> QED BY <3>1, TwoStagesOf
  <2>5. {TwoStages[s] : s \in {d3, d4}} = 2 .. TwoLast[st2]
    <3>1. {TwoStages[s] : s \in {d3, d4}} = {2}
      BY TwoStagesOf
    <3> QED BY <3>1, TwoStagesOf
  <2> QED BY <2>1, <2>2, <2>3, <2>4, <2>5, TwoStories DEF P!StagesAssumption
<1>5. P!StoriesAssumption
  BY TwoStories, NamesDiffer DEF P!StoriesAssumption, OneLands, TwoLast, TwoDegraded
<1> QED BY <1>1, <1>2, <1>3, <1>4, <1>5

\* No two of its stories are of one component, each of which has a deployment,
\* and none is walked into a skew.
LEMMA BesideIsApart == P!Apart /\ P!Deployed /\ P!SkewsUnreached
<1>1. P!Apart
  <2> SUFFICES ASSUME NEW j \in 1 .. 2, NEW k \in 1 .. 2, TwoOf[Two[j]] = TwoOf[Two[k]] PROVE j = k
    BY TwoStories DEF P!Apart
  <2> QED BY TwoStories, TwoComponentsOf, NamesDiffer
<1>2. P!SkewsUnreached
  <2> SUFFICES ASSUME NEW i \in {st1, st2}, NEW s \in TwoSkewed, TwoOf[s] = TwoOf[i]
               PROVE  TwoStages[s] > OneLands[i]
    BY TwoStories DEF P!SkewsUnreached, P!OfStory
  <2>1. i = st2
    BY TwoComponentsOf, NamesDiffer DEF TwoSkewed
  <2>2. OneLands[st2] = 1
    BY NamesDiffer DEF OneLands
  <2> QED BY <2>1, <2>2, TwoStagesOf DEF TwoSkewed
<1>3. P!Deployed
  BY TwoStories, TwoStagesOf DEF P!Deployed
<1> QED BY <1>1, <1>2, <1>3

\* The instance that is run and the one the theorems are about are one.
LEMMA BesideIsInstance ==
  (Beside!Init <=> P!Init) /\ (Beside!Next <=> P!Next) /\ (UNCHANGED vars <=> UNCHANGED P!vars)
<1>1. Beside!Init <=> P!Init
  BY DEF P!Init, Beside!Init, P!Story, Beside!Story
<1>2. UNCHANGED vars <=> UNCHANGED P!vars
  BY DEF vars, orgVars, upVars, P!vars, P!orgVars, P!upVars
<1>3. Beside!Next <=> P!Next
  BY Zenon DEF
     P!Story, Beside!Story, P!Phases, Beside!Phases, P!orgVars, Beside!orgVars, P!upVars,
     Beside!upVars, P!vars, Beside!vars, P!Pending, Beside!Pending, P!OfStory, Beside!OfStory,
     P!InStage, Beside!InStage, P!cur, Beside!cur, P!Bundle, Beside!Bundle, P!GatesHold,
     Beside!GatesHold, P!PromoteInto, Beside!PromoteInto, P!Observed, Beside!Observed, P!GoOn,
     Beside!GoOn, P!Up, Beside!Up, P!Stop, Beside!Stop, P!ToPublish, Beside!ToPublish,
     P!ReleasesPhase, Beside!ReleasesPhase, P!SkewSpaces, Beside!SkewSpaces, P!Painted,
     Beside!Painted, P!Wanted, Beside!Wanted, P!Observation, Beside!Observation, P!ToReport,
     Beside!ToReport, P!BeginReport, Beside!BeginReport, P!LiveStatusPhase,
     Beside!LiveStatusPhase, P!MakeChange, Beside!MakeChange, P!NextStory, Beside!NextStory,
     P!EnsureOrder, Beside!EnsureOrder, P!Walk, Beside!Walk, P!Promote, Beside!Promote,
     P!ReleaseStage, Beside!ReleaseStage, P!Shipped, Beside!Shipped, P!Call, Beside!Call,
     P!PoolCall, Beside!PoolCall, P!PoolEnds, Beside!PoolEnds, P!Step, Beside!Step, P!Happens,
     Beside!Happens, P!Interrupted, Beside!Interrupted, P!PoolCallFails, Beside!PoolCallFails,
     P!PromotesInPart, Beside!PromotesInPart, P!Edit, Beside!Edit, P!MovesOn, Beside!MovesOn,
     P!Next, Beside!Next
<1> QED BY <1>1, <1>2, <1>3

\* Which of the two a behaviour is of is settled at its start.
LEMMA WalkOrBeside ==
  Both => (Spec /\ [](which = "walk")) \/ (P!Spec /\ [](which = "beside"))
<1>1. Both => BothInit /\ [][BothNext]_<<vars, which>>
  BY PTL DEF Both
<1>2. BothInit => (which = "walk" /\ Init) \/ (which = "beside" /\ P!Init)
  BY BesideIsInstance DEF BothInit
<1>3. which = "walk" /\ [BothNext]_<<vars, which>> => [Next]_vars /\ (which = "walk")'
  BY DEF BothNext
<1>4. which = "beside" /\ [BothNext]_<<vars, which>> => [P!Next]_(P!vars) /\ (which = "beside")'
  BY BesideIsInstance DEF BothNext
<1>5. Both /\ which = "walk" /\ Init => Spec /\ [](which = "walk")
  BY <1>1, <1>3, PTL DEF Spec
<1>6. Both /\ which = "beside" /\ P!Init => P!Spec /\ [](which = "beside")
  BY <1>1, <1>4, PTL DEF P!Spec
<1> QED BY <1>1, <1>2, <1>5, <1>6

LEMMA OneOrTheOther == (which = "beside" => which # "walk") /\ (which = "walk" => which # "beside")
OBVIOUS

-----------------------------------------------------------------------------
(* The walk *)

\* Whichever phases are run, cut short and run again beside edits
\* (seed/releases.go, livestatus.go, stories.go), every variable stays in its
\* type.
THEOREM WalkTypes == Both => []WalkTypeOK
<1>1. (which # "walk" => WalkTypeOK) /\ (TypeOK => WalkTypeOK)
  BY DEF WalkTypeOK
<1> QED BY <1>1, OneOrTheOther, WalkOrBeside, TypeCorrect, PTL

\* A walk promotes into a stage only when its gates, which read the Releases of
\* the stage before, are open (stories.go).
THEOREM WalkIsLetThrough == Both => []WalkNeverRefused
<1>1. (which # "walk" => WalkNeverRefused) /\ (NeverRefused => WalkNeverRefused)
  BY DEF WalkNeverRefused
<1> QED BY <1>1, OneOrTheOther, WalkOrBeside, GatesAreOpen, PTL

\* Where no two stories are of one component, a run that gets through leaves
\* each story where the scenario says, whatever was cut short before.
THEOREM WalkLeavesStories == Apart => (Both => []WalkStoriesStand)
<1> SUFFICES ASSUME Apart PROVE Both => []WalkStoriesStand
  OBVIOUS
<1>1. (which # "walk" => WalkStoriesStand) /\ (StoriesStand => WalkStoriesStand)
  BY DEF WalkStoriesStand
<1>2. Spec => []StoriesStand
  BY StoriesStandThen
<1> QED BY <1>1, <1>2, OneOrTheOther, WalkOrBeside, PTL

\* The order of a story that is walked through its last stage completes, as
\* long as no run is cut short and no call fails.
THEOREM WalkIsCompleted ==
  Apart /\ Deployed => (Both => []WalkCompletes)
<1> SUFFICES ASSUME Apart, Deployed PROVE Both => []WalkCompletes
  OBVIOUS
<1>1. (which # "walk" => WalkCompletes) /\ (UndisturbedWalkCompletes => WalkCompletes)
  BY DEF WalkCompletes
<1>2. Spec => []UndisturbedWalkCompletes
  BY WalkedIsCompleted
<1> QED BY <1>1, <1>2, OneOrTheOther, WalkOrBeside, PTL

-----------------------------------------------------------------------------
(* Beside it *)

\* A skewed space never bundles its skew (seed/releases.go), in any order of
\* phases and wherever they are cut short.
THEOREM BesideShowsSkews == Both => []BesideSkewShows
<1>1. P!Spec => []P!SkewShows
  BY BesideIsAssumed, BesideIsApart, P!SkewsShow
     DEF P!NamesAssumption, P!RunsAssumption, P!SpacesAssumption,
         P!StagesAssumption, P!StoriesAssumption
<1>2. P!SkewShows => Beside!SkewShows
  BY DEF P!SkewShows, Beside!SkewShows
<1>3. (which # "beside" => BesideSkewShows) /\ (Beside!SkewShows => BesideSkewShows)
  BY DEF BesideSkewShows
<1> QED BY <1>1, <1>2, <1>3, OneOrTheOther, WalkOrBeside, PTL

\* "re-releases skip" (stories.go): nobody edits a deployment here, and no
\* Release bundles what the one before it does.
THEOREM BesideReReleasesSkip == Both => BesideNothingRepublished
<1>1. P!Spec => [][P!PublishesSomethingNew]_(P!vars)
  <2>1. "edit" \notin {"crash", "fault", "later"}
    OBVIOUS
  <2> QED BY <2>1, BesideIsAssumed, BesideIsApart, P!ReReleasesSkip
     DEF P!NamesAssumption, P!RunsAssumption, P!SpacesAssumption,
         P!StagesAssumption, P!StoriesAssumption
<1>2. [P!PublishesSomethingNew]_(P!vars)
        => [which = "beside" => Beside!PublishesSomethingNew]_<<vars, which>>
  <2>1. UNCHANGED P!vars => P!PublishesSomethingNew
    BY DEF P!PublishesSomethingNew, P!vars, P!orgVars
  <2>2. P!PublishesSomethingNew => Beside!PublishesSomethingNew
    BY DEF P!PublishesSomethingNew, Beside!PublishesSomethingNew
  <2> QED BY <2>1, <2>2
<1>3. which # "beside" => [which = "beside" => Beside!PublishesSomethingNew]_<<vars, which>>
  OBVIOUS
<1> QED BY <1>1, <1>2, <1>3, OneOrTheOther, WalkOrBeside, PTL DEF BesideNothingRepublished

-----------------------------------------------------------------------------
(* Both *)

\* The two instances of the promise are one.
LEMMA BesideIsPromised ==
  (P!Promise!Init <=> Beside!Promise!Init)
  /\ ([P!Promise!Next]_(P!Promise!vars) <=> [Beside!Promise!Next]_(Beside!Promise!vars))
<1>1. P!Promise!Init <=> Beside!Promise!Init
  BY DEF P!Promise!Init, Beside!Promise!Init, P!Story, Beside!Story
<1>2. [P!Promise!Next]_(P!Promise!vars) <=> [Beside!Promise!Next]_(Beside!Promise!vars)
  BY Zenon DEF P!Promise!Next, Beside!Promise!Next, P!Promise!vars, Beside!Promise!vars,
     P!Promise!Name, Beside!Promise!Name, P!Promise!IntoBases, Beside!Promise!IntoBases,
     P!Promise!IntoClass, Beside!Promise!IntoClass, P!Promise!Release, Beside!Promise!Release,
     P!Promise!Complete, Beside!Promise!Complete, P!Promise!InClass, Beside!Promise!InClass,
     P!Promise!Moving, Beside!Promise!Moving, P!Story, Beside!Story
<1> QED BY <1>1, <1>2

\* Walked, edited, cut short and resumed, behind gates and without any: a change
\* goes class by class, is never taken back, and its order completes once all of
\* the last class runs it.
THEOREM BothArePromised == Apart /\ Deployed => (Both => BothKeepTheirPromise)
<1> SUFFICES ASSUME Apart, Deployed PROVE Both => BothKeepTheirPromise
  OBVIOUS
<1>1. Spec => Promise!Spec
  BY StoriesKeepTheirPromise DEF KeepsItsPromise
<1>2. P!Spec => P!Promise!Spec
  BY BesideIsAssumed, BesideIsApart, P!StoriesKeepTheirPromise
     DEF P!NamesAssumption, P!RunsAssumption, P!SpacesAssumption,
         P!StagesAssumption, P!StoriesAssumption, P!KeepsItsPromise
<1>3. which = "walk" /\ [Promise!Next]_(Promise!vars) => PromisedStep
  BY OneOrTheOther, Zenon DEF PromisedStep
<1>4. which = "beside" /\ [P!Promise!Next]_(P!Promise!vars) => PromisedStep
  BY OneOrTheOther, BesideIsPromised, Zenon DEF PromisedStep
<1>5. /\ which = "walk" /\ Promise!Init => PromisedStart
      /\ which = "beside" /\ P!Promise!Init => PromisedStart
  BY OneOrTheOther, BesideIsPromised, Zenon DEF PromisedStart
<1>6. Promise!Spec /\ [](which = "walk") => BothKeepTheirPromise
  BY <1>3, <1>5, PTL DEF Promise!Spec, BothKeepTheirPromise
<1>7. P!Promise!Spec /\ [](which = "beside") => BothKeepTheirPromise
  BY <1>4, <1>5, PTL DEF P!Promise!Spec, BothKeepTheirPromise
<1> QED BY <1>1, <1>2, <1>6, <1>7, WalkOrBeside, PTL
=============================================================================

---------------------------- MODULE SeedStories ----------------------------
(***************************************************************************)
(* `cub demo up` on a seeded org: the releases, livestatus and stories     *)
(* phases (internal/seed/releases.go, livestatus.go, stories.go), run      *)
(* again and again, all of them or some, interrupted anywhere, beside      *)
(* people who change what was seeded.                                      *)
(*                                                                         *)
(* A revision of a deployment space is the set of changes in it: a space   *)
(* has something unreleased when its head is not what its latest Release   *)
(* bundles. Server definitions are read from the phases' calls and from    *)
(* "Product facts" of docs/DESIGN.md.                                      *)
(***************************************************************************)
EXTENDS Naturals, Sequences, FiniteSets

CONSTANTS
  Stories,        \* the scenario's change orders, a sequence of names
  Component,
  ComponentOf,    \* [story or deployment space -> its component]
  LandedThrough,  \* [story -> stage]: 1 is "bases"
  Degrade,        \* [story -> deployments degradeStage names]
  Space,          \* the deployment spaces
  StageOf,        \* [Space -> stage]: the class of the space
  LastStage,      \* [story -> last stage]: 1 is the class bases, then the classes
  Prerequisites,  \* [stage -> subset of {"Released", "Healthy"}], from stage 3 on
  Unreleased, Skewed, Exceptions,   \* the story's picks among the spaces
  Unpainted,      \* components with `liveStatus: none`
  Choices,        \* sets of phases an `up` is asked to run
  Env,            \* what may happen besides `up`
  MaxRuns, MaxEvents  \* bounds: runs of `up`; crashes, failures and edits

Story == {Stories[j] : j \in DOMAIN Stories}
Phases == <<"releases", "livestatus", "stories">>
Change == {"seed", "skew", "edit"} \union Story
Health == {"none", "healthy", "exception", "degraded"}
At == {"off", "releases", "publish", "skew", "livestatus", "paint",
       "stories", "order", "promote", "stage", "ship", "settle", "degrade"}

ASSUME NamesAssumption ==
  /\ Stories \in Seq(Story) /\ Stories # <<>>
  /\ Story \intersect {"seed", "skew", "edit", "none"} = {}
ASSUME RunsAssumption ==
  /\ Choices \subseteq (SUBSET {"releases", "livestatus", "stories"}) \ {{}}
  /\ MaxRuns \in Nat /\ MaxEvents \in Nat
ASSUME SpacesAssumption ==
  Unreleased \subseteq Space /\ Skewed \subseteq Space /\ Exceptions \subseteq Space
ASSUME StagesAssumption ==
  /\ StageOf \in [Space -> Nat \ {0, 1}]
  /\ LastStage \in [Story -> Nat]
  /\ \A i \in Story : {StageOf[s] : s \in {t \in Space : ComponentOf[t] = ComponentOf[i]}} = 2 .. LastStage[i]
ASSUME StoriesAssumption ==
  /\ \A i \in Story : LandedThrough[i] \in 1 .. LastStage[i]
  /\ Degrade \in [Story -> SUBSET Space]
  /\ \A i \in Story : \A s \in Degrade[i] :
       ComponentOf[s] = ComponentOf[i] /\ StageOf[s] = LandedThrough[i]

VARIABLES
  root,      \* [Story]: the field its change sets, in the root base
  order,     \* [Story]: the change order, whether its Stage has come to Completed
  terminal,  \* [Story]: its State is Released, which the walk takes for an end
  carries,   \* [Story]: the change lies between the order's start and end tag
  spread,    \* [Story]: promoted into the class bases
  ended,     \* [Story][Space]: the revision at the end tag; {} if not promoted
  head,      \* [Space]: the head revision
  content,   \* [Space]: what the latest Release bundles; {} if never released
  pin,       \* [Space]: the story the latest Release was published for
  health,    \* [Space]: the latest Release's live status
  releases,  \* [Space]: Releases published
  at, phases, turn, climb, todo, failed, ran, outcome, runs,  \* the `up` in hand
  events

orgVars == <<root, order, terminal, carries, spread, ended, head, content, pin, health, releases>>
upVars == <<at, phases, turn, climb, todo, failed, ran, outcome, runs>>
vars == <<orgVars, upVars, events>>

Pending(s) == head[s] # content[s]
OfStory(i) == {s \in Space : ComponentOf[s] = ComponentOf[i]}
InStage(i, k) == {s \in OfStory(i) : StageOf[s] = k}
cur == Stories[turn]

-----------------------------------------------------------------------------
(* The server *)

\* Published for a story, a Release bundles each unit where the order ended;
\* otherwise it bundles the heads. Nothing has reported on it yet. With the
\* last stage's Releases all its own, the order's State is Released.
Bundle(s, i) ==
  /\ content' = [content EXCEPT ![s] = IF i \in Story THEN ended[i][s] ELSE head[s]]
  /\ pin' = [pin EXCEPT ![s] = i]
  /\ health' = [health EXCEPT ![s] = "none"]
  /\ releases' = [releases EXCEPT ![s] = @ + 1]
  /\ terminal' = [j \in Story |->
       terminal[j] \/ (j = i /\ \A t \in InStage(j, LastStage[j]) : pin'[t] = j)]
  /\ UNCHANGED <<root, order, carries, spread, ended, head>>

\* A stage's entry gates read the latest Releases of the stage before.
GatesHold(i, k) ==
  k > 2 => \A s \in InStage(i, k - 1) :
    /\ "Released" \in Prerequisites[k] => i \in content[s]
    /\ "Healthy" \in Prerequisites[k] => health[s] = "healthy"

\* Promotion into spaces S; one the order is already promoted into is not
\* selected again.
PromoteInto(i, S) ==
  LET fresh == {s \in S : ended[i][s] = {}}
      next == [s \in Space |->
                IF s \in fresh /\ carries[i] /\ spread[i]
                THEN head[s] \union {i} ELSE head[s]]
  IN
  /\ head' = next
  /\ ended' = [ended EXCEPT ![i] = [s \in Space |-> IF s \in fresh THEN next[s] ELSE @[s]]]
  /\ UNCHANGED <<root, order, terminal, carries, content, pin, health, releases>>

\* Live status on the latest Release. What was published for an order and is
\* healthy across the last stage brings that order's Stage to Completed.
Observed(s, h) ==
  /\ health' = [health EXCEPT ![s] = h]
  /\ order' = [i \in Story |->
       IF order[i] = "moving" /\ terminal[i] /\ \A t \in InStage(i, LastStage[i]) :
            pin[t] = i /\ health'[t] = "healthy"
       THEN "completed" ELSE order[i]]
  /\ UNCHANGED <<root, terminal, carries, spread, ended, head, content, pin, releases>>

-----------------------------------------------------------------------------
(* One run of `up` *)

\* The next asked-for phase in canonical order, or the end of the run.
GoOn(left) ==
  LET due == {n \in 1 .. 3 : Phases[n] \in left} IN
  IF due = {} THEN at' = "off" /\ outcome' = "ok" /\ phases' = {}
  ELSE LET p == Phases[CHOOSE n \in due : \A m \in due : n <= m] IN
       at' = p /\ phases' = left \ {p} /\ UNCHANGED outcome

Up ==
  /\ at = "off" /\ runs < MaxRuns
  /\ runs' = runs + 1
  /\ \E P \in Choices :
       /\ ran' = P
       /\ at' = Phases[CHOOSE n \in 1 .. 3 : Phases[n] \in P /\ \A m \in 1 .. n - 1 : Phases[m] \notin P]
       /\ phases' = P \ {at'}
  /\ turn' = 1 /\ climb' = 1 /\ todo' = {} /\ failed' = FALSE /\ outcome' = "running"
  /\ UNCHANGED <<orgVars, events>>

Stop(result) == at' = "off" /\ phases' = {} /\ outcome' = result

\* Mutant: publishes a skewed space again.
ToPublishSkewed == {s \in Space \ Unreleased : Pending(s)}

\* Every space with something to publish, but the unreleased and, once they
\* have a Release, the skewed.
ToPublish == {s \in Space \ Unreleased : Pending(s) /\ (s \in Skewed => content[s] = {})}

ReleasesPhase ==
  /\ at = "releases"
  /\ todo' = ToPublish /\ at' = "publish"
  /\ UNCHANGED <<orgVars, phases, turn, climb, failed, ran, outcome, runs, events>>

\* A skew sets the same value again: it changes nothing where it holds.
SkewSpaces ==
  /\ at = "skew"
  /\ head' = [s \in Space |-> IF s \in Skewed THEN head[s] \union {"skew"} ELSE head[s]]
  /\ GoOn(phases)
  /\ UNCHANGED <<root, order, terminal, carries, spread, ended, content, pin, health, releases>>
  /\ UNCHANGED <<turn, climb, todo, failed, ran, runs, events>>

\* What each report of the run writes, and on which spaces.
Painted == {s \in Space : ComponentOf[s] \notin Unpainted}
Wanted(a) == CASE a = "paint" -> Painted
               [] a = "settle" -> InStage(cur, climb)
               [] a = "degrade" -> Degrade[cur]
Observation(a, s) == CASE a = "paint" /\ s \in Exceptions -> "exception"
                       [] a = "degrade" -> "degraded"
                       [] OTHER -> "healthy"

\* Mutant: a Release that has been reported on is left alone.
ToReportOnce(a) == {s \in Wanted(a) : content[s] # {} /\ health[s] = "none"}

\* report skips a space with no Release and a Release already carrying it.
ToReport(a) == {s \in Wanted(a) : content[s] # {} /\ health[s] # Observation(a, s)}

BeginReport(a) == at' = a /\ todo' = ToReport(a)

LiveStatusPhase ==
  /\ at = "livestatus"
  /\ BeginReport("paint")
  /\ UNCHANGED <<orgVars, phases, turn, climb, failed, ran, outcome, runs, events>>

\* story: the change is made in the root base first, always.
MakeChange ==
  /\ at = "stories"
  /\ root' = [root EXCEPT ![cur] = "story"]
  /\ at' = "order"
  /\ UNCHANGED <<order, terminal, carries, spread, ended, head, content, pin, health, releases>>
  /\ UNCHANGED <<phases, turn, climb, todo, failed, ran, outcome, runs, events>>

\* The next story, or the end of the phase, which is the last one.
NextStory ==
  IF turn = Len(Stories) THEN GoOn(phases) /\ UNCHANGED turn
  ELSE turn' = turn + 1 /\ at' = "stories" /\ UNCHANGED <<phases, outcome>>

\* Mutants: an order that exists has been walked; every run creates the order.
EnsureOrderOnce ==
  /\ at = "order"
  /\ climb' = 1
  /\ \/ order[cur] # "none" /\ NextStory /\ UNCHANGED orgVars
     \/ /\ order[cur] = "none"
        /\ order' = [order EXCEPT ![cur] = "moving"]
        /\ carries' = [carries EXCEPT ![cur] = root[cur] # "old"]
        /\ at' = "promote"
        /\ UNCHANGED <<root, terminal, spread, ended, head, content, pin, health, releases, phases, turn, outcome>>
  /\ UNCHANGED <<todo, failed, ran, runs, events>>
EnsureOrderCreates ==
  /\ at = "order"
  /\ climb' = 1
  /\ \/ order[cur] # "none" /\ Stop("failed") /\ UNCHANGED <<orgVars, turn>>
     \/ /\ order[cur] = "none"
        /\ order' = [order EXCEPT ![cur] = "moving"]
        /\ carries' = [carries EXCEPT ![cur] = root[cur] # "old"]
        /\ at' = "promote"
        /\ UNCHANGED <<root, terminal, spread, ended, head, content, pin, health, releases, phases, turn, outcome>>
  /\ UNCHANGED <<todo, failed, ran, runs, events>>

\* The order is found by its slug or created. One whose State is Released has
\* "nothing left to walk", reported on or not.
EnsureOrder ==
  /\ at = "order"
  /\ climb' = 1
  /\ \/ terminal[cur] /\ NextStory /\ UNCHANGED orgVars
     \/ /\ order[cur] = "moving" /\ ~terminal[cur]
        /\ at' = "promote"
        /\ UNCHANGED <<orgVars, phases, turn, outcome>>
     \/ /\ order[cur] = "none"
        /\ order' = [order EXCEPT ![cur] = "moving"]
        /\ carries' = [carries EXCEPT ![cur] = root[cur] # "old"]
        /\ at' = "promote"
        /\ UNCHANGED <<root, terminal, spread, ended, head, content, pin, health, releases, phases, turn, outcome>>
  /\ UNCHANGED <<todo, failed, ran, runs, events>>

\* Mutant: a story goes on past the stage it landed through.
WalkPast ==
  IF climb <= LandedThrough[cur]
  THEN at' = "promote" /\ climb' = climb + 1 /\ UNCHANGED <<phases, turn, todo, outcome>>
  ELSE NextStory /\ UNCHANGED <<climb, todo>>

\* On to the next stage, or past the stage the story landed through.
Walk ==
  IF climb # LandedThrough[cur]
  THEN at' = "promote" /\ climb' = climb + 1 /\ UNCHANGED <<phases, turn, todo, outcome>>
  ELSE UNCHANGED climb /\
       IF Degrade[cur] # {}
       THEN BeginReport("degrade") /\ UNCHANGED <<phases, turn, outcome>>
       ELSE NextStory /\ UNCHANGED todo

Promote ==
  /\ at = "promote"
  /\ \/ /\ ~GatesHold(cur, climb)
        /\ Stop("failed")
        /\ UNCHANGED <<orgVars, turn, climb, todo>>
     \/ /\ climb = 1
        /\ spread' = [spread EXCEPT ![cur] = TRUE]
        /\ Walk
        /\ UNCHANGED <<root, order, terminal, carries, ended, head, content, pin, health, releases>>
     \/ /\ climb > 1 /\ GatesHold(cur, climb)
        /\ PromoteInto(cur, InStage(cur, climb))
        /\ at' = "stage"
        /\ UNCHANGED <<spread, phases, turn, climb, todo, outcome>>
  /\ UNCHANGED <<failed, ran, runs, events>>

\* Mutants: only what was never released is published; the whole class is.
ReleaseStageFirst ==
  /\ at = "stage"
  /\ todo' = {s \in InStage(cur, climb) : content[s] = {}}
  /\ at' = "ship"
  /\ UNCHANGED <<orgVars, phases, turn, climb, failed, ran, outcome, runs, events>>
ReleaseStageWhole ==
  /\ at = "stage"
  /\ todo' = InStage(cur, climb)
  /\ at' = "ship"
  /\ UNCHANGED <<orgVars, phases, turn, climb, failed, ran, outcome, runs, events>>

\* releaseStage publishes, for the order, whatever is unreleased in the class,
ReleaseStage ==
  /\ at = "stage"
  /\ todo' = {s \in InStage(cur, climb) : Pending(s)}
  /\ at' = "ship"
  /\ UNCHANGED <<orgVars, phases, turn, climb, failed, ran, outcome, runs, events>>

\* and then reports the whole class healthy.
Shipped ==
  /\ at = "ship" /\ todo = {} /\ ~failed
  /\ BeginReport("settle")
  /\ UNCHANGED <<orgVars, phases, turn, climb, failed, ran, outcome, runs, events>>

\* Mutant: a stage's Releases do not name the order.
CallPlain(s) ==
  /\ s \in todo
  /\ IF at \in {"publish", "ship"} THEN Bundle(s, "none") ELSE Observed(s, Observation(at, s))
  /\ todo' = todo \ {s}

\* forEach: the calls of a pool are made in any order.
Call(s) ==
  /\ s \in todo
  /\ CASE at = "publish" -> Bundle(s, "none")
       [] at = "ship" -> Bundle(s, cur)
       [] OTHER -> Observed(s, Observation(at, s))
  /\ todo' = todo \ {s}

PoolCall ==
  /\ at \in {"publish", "ship", "paint", "settle", "degrade"}
  /\ \E s \in todo : Call(s)
  /\ UNCHANGED <<at, phases, turn, climb, failed, ran, outcome, runs, events>>

PoolEnds ==
  /\ at \in {"publish", "ship", "paint", "settle", "degrade"} /\ todo = {}
  /\ \/ failed /\ Stop("failed") /\ UNCHANGED <<turn, climb, todo>>
     \/ ~failed /\ at = "publish" /\ at' = "skew" /\ UNCHANGED <<phases, turn, climb, todo, outcome>>
     \/ ~failed /\ at = "paint" /\ GoOn(phases) /\ UNCHANGED <<turn, climb, todo>>
     \/ ~failed /\ at = "settle" /\ Walk
     \/ ~failed /\ at = "degrade" /\ NextStory /\ UNCHANGED <<climb, todo>>
  /\ UNCHANGED <<orgVars, failed, ran, runs, events>>

Step ==
  \/ ReleasesPhase \/ SkewSpaces \/ LiveStatusPhase \/ MakeChange
  \/ EnsureOrder \/ Promote \/ ReleaseStage \/ Shipped \/ PoolCall \/ PoolEnds

-----------------------------------------------------------------------------
(* What goes wrong, and what others do *)

Happens(e) == e \in Env /\ events < MaxEvents /\ events' = events + 1

\* The process dies, or a call outside a pool fails.
Interrupted ==
  /\ Happens("crash") /\ at # "off"
  /\ Stop("failed")
  /\ UNCHANGED <<orgVars, turn, climb, todo, failed, ran, runs>>

\* A call of a pool fails, or took effect and its answer is lost: the others
\* are made all the same and the pool fails in the end.
PoolCallFails ==
  /\ Happens("fault")
  /\ at \in {"publish", "ship", "paint", "settle", "degrade"}
  /\ \E s \in todo : Call(s) \/ (todo' = todo \ {s} /\ UNCHANGED orgVars)
  /\ failed' = TRUE
  /\ UNCHANGED <<at, phases, turn, climb, ran, outcome, runs>>

\* The server promotes space by space, and some of them fail.
PromotesInPart ==
  /\ Happens("fault")
  /\ at = "promote" /\ climb > 1 /\ GatesHold(cur, climb)
  /\ \E S \in SUBSET InStage(cur, climb) : PromoteInto(cur, S)
  /\ Stop("failed")
  /\ UNCHANGED <<spread, turn, climb, todo, failed, ran, runs>>

\* Somebody changes a deployment: a play's step, another change promoted in.
Edit(s) ==
  /\ Happens("edit")
  /\ head' = [head EXCEPT ![s] = @ \union {"edit"}]
  /\ UNCHANGED <<root, order, terminal, carries, spread, ended, content, pin, health, releases, upVars>>

\* A play or an agent sets the field of a story's change to a later value.
MovesOn(i) ==
  /\ Happens("later")
  /\ root[i] = "story"
  /\ root' = [root EXCEPT ![i] = "later"]
  /\ UNCHANGED <<order, terminal, carries, spread, ended, head, content, pin, health, releases, upVars>>

\* The deployments phase is done; nothing is released and no story begun.
Init ==
  /\ root = [i \in Story |-> "old"]
  /\ order = [i \in Story |-> "none"] /\ terminal = [i \in Story |-> FALSE]
  /\ carries = [i \in Story |-> FALSE]
  /\ spread = [i \in Story |-> FALSE]
  /\ ended = [i \in Story |-> [s \in Space |-> {}]]
  /\ head = [s \in Space |-> {"seed"}]
  /\ content = [s \in Space |-> {}]
  /\ pin = [s \in Space |-> "none"]
  /\ health = [s \in Space |-> "none"]
  /\ releases = [s \in Space |-> 0]
  /\ at = "off" /\ phases = {} /\ turn = 1 /\ climb = 1 /\ todo = {}
  /\ failed = FALSE /\ ran = {} /\ outcome = "none" /\ runs = 0
  /\ events = 0

Next ==
  \/ Up \/ Step
  \/ Interrupted \/ PoolCallFails \/ PromotesInPart
  \/ \E s \in Space : Edit(s)
  \/ \E i \in Story : MovesOn(i)

Spec == Init /\ [][Next]_vars
-----------------------------------------------------------------------------
(* Properties *)

TypeOK ==
  /\ root \in [Story -> {"old", "story", "later"}]
  /\ order \in [Story -> {"none", "moving", "completed"}] /\ terminal \in [Story -> BOOLEAN]
  /\ carries \in [Story -> BOOLEAN] /\ spread \in [Story -> BOOLEAN]
  /\ ended \in [Story -> [Space -> SUBSET Change]]
  /\ head \in [Space -> SUBSET Change] /\ content \in [Space -> SUBSET Change]
  /\ pin \in [Space -> Story \union {"none"}]
  /\ health \in [Space -> Health] /\ releases \in [Space -> Nat]
  /\ at \in At /\ phases \subseteq {"releases", "livestatus", "stories"}
  /\ turn \in DOMAIN Stories /\ climb \in Nat \ {0} /\ todo \subseteq Space
  /\ at \in {"promote", "stage", "ship", "settle", "degrade"} => climb <= LandedThrough[cur]
  /\ failed \in BOOLEAN /\ ran \subseteq {"releases", "livestatus", "stories"}
  /\ outcome \in {"none", "running", "failed", "ok"}
  /\ runs \in 0 .. MaxRuns /\ events \in 0 .. MaxEvents

\* "an interrupted run is resumed by running up again" (cmd/up.go), as far as it
\* goes: a run that gets through the stories leaves each one released through
\* its stage and no further, and the one whose order is not terminal healthy but
\* for those it degrades. Only a story walked to its component's last stage comes
\* to a terminal order; cut short before its report, it never gets one.
Finished == at = "off" /\ outcome = "ok" /\ "stories" \in ran
StoriesStand ==
  Finished => \A i \in Story :
    /\ \A s \in OfStory(i) :
         StageOf[s] <= LandedThrough[i] <=> i \in content[s]
    /\ terminal[i] => LandedThrough[i] = LastStage[i]
    /\ order[i] = "moving" /\ ~terminal[i] => \A s \in OfStory(i) :
         StageOf[s] <= LandedThrough[i] =>
           health[s] = IF s \in Degrade[i] THEN "degraded" ELSE "healthy"

\* Class by class, over failures half way through a stage and phases that
\* publish in between: a change is promoted into a class only when every
\* deployment of the class before runs it.
ClassByClass ==
  \A i \in Story : \A s, t \in OfStory(i) :
    i \in head[s] /\ StageOf[t] = StageOf[s] - 1 => i \in content[t]

\* The seeder's walk opens its own gates: no promotion of its is refused.
NeverRefused == at = "promote" => GatesHold(cur, climb)

\* "skewed spaces are published only once, or a re-run would fold the skew
\* into a fresh release and erase the story" (releases.go).
SkewShows == \A s \in Skewed : "skew" \notin content[s]

\* "re-releases skip" (stories.go), in every phase and run: a Release is
\* published only where it bundles something its space's latest does not.
PublishesSomethingNew ==
  \A s \in Space : releases'[s] # releases[s] => content'[s] # content[s]

\* "one walked through its last stage and reported healthy reads Completed"
\* (docs/DATA-MODEL.md).
WalkedReadsCompleted ==
  Finished => \A i \in Story :
    LandedThrough[i] = LastStage[i] => order[i] = "completed"

\* So it does as long as no run is cut short and no call fails.
UndisturbedWalkCompletes == events = 0 => WalkedReadsCompleted

\* What the stories promise, with no phases, runs, pools or failures: a change
\* goes from class to class, is never taken back, and its order completes once
\* all of the last class runs it. A change has reached a deployment when it is
\* in its head, and runs there when it is in its latest Release.
Promise == INSTANCE StoryWalk WITH
  reached <- [i \in Story |-> {s \in Space : i \in head[s]}],
  running <- [i \in Story |-> {s \in Space : i \in content[s]}]

KeepsItsPromise == Promise!Spec
=============================================================================

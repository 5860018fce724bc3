----------------------------- MODULE StoriesProofs -----------------------------
(***************************************************************************)
(* Theorems about SeedStories: that it is type correct, that a run that    *)
(* gets through the stories leaves each where the scenario says, that the  *)
(* seeder opens its own gates, keeps a change out of a class until every   *)
(* deployment of the classes before runs it, publishes nothing twice, goes *)
(* on showing a skew, completes the orders of undisturbed runs, and with   *)
(* all that implements StoryWalk.                                          *)
(***************************************************************************)
EXTENDS SeedStories, TLAPS

USE NamesAssumption, RunsAssumption, StagesAssumption, StoriesAssumption

\* The conditions some theorems need. Stories of one component each, which has
\* a deployment; no story reaches a deployment that is skewed.
Apart == \A j, k \in DOMAIN Stories : ComponentOf[Stories[j]] = ComponentOf[Stories[k]] => j = k
Deployed == \A i \in Story : LastStage[i] > 1
SkewsUnreached == \A i \in Story : \A s \in OfStory(i) \intersect Skewed : StageOf[s] > LandedThrough[i]

Landing == {"promote", "stage", "ship", "settle", "degrade"}
Telling == Landing \union {"stories", "order"}
Pools == {"publish", "ship", "paint", "settle", "degrade"}

-----------------------------------------------------------------------------
(* What the definitions say *)

LEMMA Basics ==
  /\ Len(Stories) \in Nat /\ Len(Stories) >= 1 /\ DOMAIN Stories = 1 .. Len(Stories)
  /\ \A j \in DOMAIN Stories : Stories[j] \in Story
  /\ \A i \in Story : LandedThrough[i] \in Nat /\ LandedThrough[i] >= 1
                      /\ LandedThrough[i] <= LastStage[i] /\ LastStage[i] \in Nat
  /\ \A s \in Space : StageOf[s] \in Nat /\ StageOf[s] >= 2
  /\ \A i \in Story : \A s \in OfStory(i) : s \in Space /\ StageOf[s] <= LastStage[i]
  /\ \A i \in Story : \A s \in Degrade[i] : s \in InStage(i, LandedThrough[i])
<1>1. Len(Stories) \in Nat /\ Len(Stories) >= 1 /\ DOMAIN Stories = 1 .. Len(Stories)
  OBVIOUS
<1>2. \A j \in DOMAIN Stories : Stories[j] \in Story
  BY DEF Story
<1>3. \A i \in Story : LandedThrough[i] \in Nat /\ LandedThrough[i] >= 1
                       /\ LandedThrough[i] <= LastStage[i] /\ LastStage[i] \in Nat
  OBVIOUS
<1>4. \A s \in Space : StageOf[s] \in Nat /\ StageOf[s] >= 2
  OBVIOUS
<1>5. ASSUME NEW i \in Story, NEW s \in OfStory(i) PROVE s \in Space /\ StageOf[s] <= LastStage[i]
  <2>1. s \in {t \in Space : ComponentOf[t] = ComponentOf[i]}
    BY DEF OfStory
  <2>2. StageOf[s] \in 2 .. LastStage[i]
    BY <2>1
  <2>3. QED
    BY <1>3, <2>1, <2>2
<1>6. ASSUME NEW i \in Story, NEW s \in Degrade[i] PROVE s \in InStage(i, LandedThrough[i])
  <2>1. s \in Space /\ ComponentOf[s] = ComponentOf[i] /\ StageOf[s] = LandedThrough[i]
    OBVIOUS
  <2>2. QED
    BY <2>1 DEF InStage, OfStory
<1>7. QED
  BY <1>1, <1>2, <1>3, <1>4, <1>5, <1>6

LEMMA PhaseNames ==
  /\ Phases[1] = "releases" /\ Phases[2] = "livestatus" /\ Phases[3] = "stories"
  /\ \A n \in 1 .. 3 : n = 1 \/ n = 2 \/ n = 3
BY DEF Phases

\* The next phase is one of those left, the stories when no other is.
LEMMA GoOnDoes ==
  ASSUME NEW left \in SUBSET {"releases", "livestatus", "stories"}, GoOn(left)
  PROVE  \/ left = {} /\ at' = "off" /\ outcome' = "ok" /\ phases' = {}
         \/ /\ at' \in left /\ phases' = left \ {at'} /\ outcome' = outcome
            /\ at' = "stories" => phases' = {}
<1> DEFINE due == {n \in 1 .. 3 : Phases[n] \in left}
<1>0. GoOn(left) = IF due = {} THEN at' = "off" /\ outcome' = "ok" /\ phases' = {}
                   ELSE /\ at' = Phases[CHOOSE k \in due : \A m \in due : k <= m]
                        /\ phases' = left \ {Phases[CHOOSE k \in due : \A m \in due : k <= m]}
                        /\ UNCHANGED outcome
  BY DEF GoOn
<1>1. CASE due = {}
  <2>1. 1 \notin due /\ 2 \notin due /\ 3 \notin due
    BY <1>1
  <2>2. "releases" \notin left /\ "livestatus" \notin left /\ "stories" \notin left
    BY <2>1, PhaseNames
  <2>3. left = {}
    BY <2>2
  <2>4. QED
    BY <1>0, <1>1, <2>3
<1>2. CASE due # {}
  <2> DEFINE n == CHOOSE k \in due : \A m \in due : k <= m
  <2>1. \E k \in due : \A m \in due : k <= m
    <3>1. \A k \in due : k = 1 \/ k = 2 \/ k = 3
      OBVIOUS
    <3>2. QED
      BY <1>2, <3>1
  <2>2. n \in due /\ \A m \in due : n <= m
    BY <2>1
  <2>3. at' = Phases[n] /\ phases' = left \ {at'} /\ outcome' = outcome
    BY <1>0, <1>2
  <2> HIDE DEF n
  <2>4. n \in 1 .. 3 /\ Phases[n] \in left
    BY <2>2
  <2>5. at' = "stories" => n = 3
    <3>1. n = 1 \/ n = 2 \/ n = 3
      BY <2>4, PhaseNames
    <3>2. QED
      BY <2>3, <3>1, PhaseNames
  <2>6. n = 3 => 1 \notin due /\ 2 \notin due
    BY <2>2
  <2>7. n = 3 => "releases" \notin left /\ "livestatus" \notin left
    <3>1. n = 3 => Phases[1] \notin left /\ Phases[2] \notin left
      BY <2>6
    <3>2. QED
      BY <3>1, PhaseNames
  <2>8. at' = "stories" => phases' = {}
    BY <2>3, <2>5, <2>7
  <2>9. QED
    BY <2>3, <2>4, <2>8
<1>3. QED
  BY <1>1, <1>2

LEMMA UpDoes ==
  ASSUME Up
  PROVE  /\ at = "off" /\ runs < MaxRuns /\ runs' = runs + 1
         /\ ran' \in Choices /\ at' \in ran' /\ phases' = ran' \ {at'}
         /\ at' = "stories" => phases' = {}
         /\ turn' = 1 /\ climb' = 1 /\ todo' = {} /\ failed' = FALSE /\ outcome' = "running"
         /\ UNCHANGED <<orgVars, events>>
<1>1. PICK P \in Choices :
        /\ ran' = P
        /\ at' = Phases[CHOOSE n \in 1 .. 3 : Phases[n] \in P /\ \A m \in 1 .. n - 1 : Phases[m] \notin P]
        /\ phases' = P \ {at'}
  BY DEF Up
<1> DEFINE First(n) == Phases[n] \in P /\ \A m \in 1 .. n - 1 : Phases[m] \notin P
<1> DEFINE k == CHOOSE n \in 1 .. 3 : First(n)
<1>2. P \subseteq {"releases", "livestatus", "stories"} /\ P # {}
  OBVIOUS
<1>3. \E n \in 1 .. 3 : First(n)
  <2>1. CASE "releases" \in P
    <3>1. First(1)
      BY <2>1, PhaseNames
    <3>2. QED
      BY <3>1
  <2>2. CASE "releases" \notin P /\ "livestatus" \in P
    <3>1. First(2)
      BY <2>2, PhaseNames
    <3>2. QED
      BY <3>1
  <2>3. CASE "releases" \notin P /\ "livestatus" \notin P
    <3>1. "stories" \in P
      BY <1>2, <2>3
    <3>2. \A m \in 1 .. 2 : m = 1 \/ m = 2
      OBVIOUS
    <3>3. First(3)
      BY <2>3, <3>1, <3>2, PhaseNames
    <3>4. QED
      BY <3>3
  <2>4. QED
    BY <2>1, <2>2, <2>3
<1>4. k \in 1 .. 3 /\ First(k)
  BY <1>3
<1>5. at' = Phases[k]
  BY <1>1
<1> HIDE DEF k
<1>6. at' = "stories" => k = 3
  <2>1. k = 1 \/ k = 2 \/ k = 3
    BY <1>4, PhaseNames
  <2>2. QED
    BY <1>5, <2>1, PhaseNames
<1>7. k = 3 => Phases[1] \notin P /\ Phases[2] \notin P
  BY <1>4
<1>8. at' = "stories" => phases' = {}
  <2>1. k = 3 => "releases" \notin P /\ "livestatus" \notin P
    BY <1>7, PhaseNames
  <2>2. phases' = P \ {at'}
    BY <1>1
  <2>3. k = 3 => \A p \in P : p = "stories"
    BY <1>2, <2>1
  <2>4. QED
    BY <1>6, <2>2, <2>3
<1>9. at' \in P
  BY <1>4, <1>5
<1>10. QED
  BY <1>1, <1>8, <1>9 DEF Up

\* On to the next story, or the end of the run.
LEMMA NextDoes ==
  ASSUME phases = {}, NextStory, turn \in DOMAIN Stories
  PROVE  \/ turn = Len(Stories) /\ turn' = turn /\ at' = "off" /\ outcome' = "ok" /\ phases' = {}
         \/ turn < Len(Stories) /\ turn' = turn + 1 /\ at' = "stories" /\ UNCHANGED <<phases, outcome>>
BY GoOnDoes, Basics DEF NextStory

LEMMA WalkDoes ==
  ASSUME Walk, climb <= LandedThrough[cur], climb \in Nat, cur \in Story
  PROVE  \/ climb < LandedThrough[cur] /\ climb' = climb + 1 /\ at' = "promote"
            /\ UNCHANGED <<phases, turn, todo, outcome>>
         \/ climb = LandedThrough[cur] /\ climb' = climb /\ Degrade[cur] # {} /\ at' = "degrade"
            /\ todo' = ToReport("degrade") /\ UNCHANGED <<phases, turn, outcome>>
         \/ climb = LandedThrough[cur] /\ climb' = climb /\ Degrade[cur] = {} /\ todo' = todo /\ NextStory
<1>1. LandedThrough[cur] \in Nat
  BY Basics
<1>2. QED
  BY <1>1 DEF Walk, BeginReport

\* What the calls of a pool do.
LEMMA CallDoes ==
  ASSUME NEW s \in todo, Call(s)
  PROVE  /\ todo' = todo \ {s}
         /\ \/ at = "publish" /\ Bundle(s, "none")
            \/ at = "ship" /\ Bundle(s, cur)
            \/ at \notin {"publish", "ship"} /\ Observed(s, Observation(at, s))
BY DEF Call

LEMMA Observations ==
  \A a, s : Observation(a, s) \in {"healthy", "exception", "degraded"}
BY DEF Observation

LEMMA ReportsOn ==
  /\ ToReport("paint") \subseteq Space
  /\ ToReport("settle") \subseteq InStage(cur, climb)
  /\ ToReport("degrade") \subseteq Degrade[cur]
BY DEF ToReport, Wanted, Painted

-----------------------------------------------------------------------------
(* Where a run stands *)

\* The types of what the server keeps, and of the run.
OrgTypeOK ==
  /\ root \in [Story -> {"old", "story", "later"}]
  /\ order \in [Story -> {"none", "moving", "completed"}] /\ terminal \in [Story -> BOOLEAN]
  /\ carries \in [Story -> BOOLEAN] /\ spread \in [Story -> BOOLEAN]
  /\ ended \in [Story -> [Space -> SUBSET Change]]
  /\ head \in [Space -> SUBSET Change] /\ content \in [Space -> SUBSET Change]
  /\ pin \in [Space -> Story \union {"none"}]
  /\ health \in [Space -> Health] /\ releases \in [Space -> Nat]

RunTypeOK ==
  /\ at \in At /\ phases \subseteq {"releases", "livestatus", "stories"}
  /\ turn \in DOMAIN Stories /\ climb \in Nat \ {0} /\ todo \subseteq Space
  /\ at \in Landing => climb <= LandedThrough[cur]
  /\ failed \in BOOLEAN /\ ran \subseteq {"releases", "livestatus", "stories"}
  /\ outcome \in {"none", "running", "failed", "ok"}
  /\ runs \in 0 .. MaxRuns /\ events \in 0 .. MaxEvents

\* An order is terminal once its last stage's Releases are all its own.
TerminalInv ==
  \A i \in Story :
    /\ terminal[i] => order[i] # "none" /\ LandedThrough[i] = LastStage[i]
    /\ InStage(i, LastStage[i]) # {} /\ (\A t \in InStage(i, LastStage[i]) : pin[t] = i) => terminal[i]

\* What the server keeps of an order: it carries its change, was promoted into
\* a space with it, and all it or a Release ends at is in the space's head. One
\* that names all the last stage's Releases is terminal, and no other comes to it.
OrdersInv ==
  /\ \A s \in Space : content[s] \subseteq head[s] /\ "seed" \in head[s]
  /\ \A i \in Story : \A s \in Space :
       /\ ended[i][s] \subseteq head[s] /\ (ended[i][s] # {} => i \in ended[i][s])
       /\ i \in head[s] => s \in OfStory(i) /\ ended[i][s] # {} /\ StageOf[s] <= LandedThrough[i]
       /\ pin[s] = i => s \in OfStory(i) /\ i \in content[s]
  /\ \A i \in Story : order[i] # "none" => carries[i]
  /\ TerminalInv

\* Which phases are left, what the calls of a pool are about, and what the
\* story in hand has behind it.
PlaceInv ==
  /\ at # "off" => outcome = "running"
  /\ at \notin Telling \union {"off"} => turn = 1
  /\ at \notin Pools \union {"off"} => ~failed
  /\ at \notin Telling \union {"off"} /\ "stories" \in ran => "stories" \in phases
  /\ at \in Telling => phases = {}
  /\ at = "publish" => todo \intersect Unreleased = {}
  /\ at \in {"ship", "settle"} => todo \subseteq InStage(cur, climb)
  /\ at = "degrade" => todo \subseteq Degrade[cur] /\ climb = LandedThrough[cur]
  /\ at = "order" => root[cur] # "old"
  /\ at \in Landing => order[cur] # "none"
  /\ at \in Landing /\ climb > 1 => spread[cur]
  /\ at \in {"stage", "ship", "settle"} => climb > 1

\* What the walk in hand has left behind it, and what of its stage.
WalkInv ==
  /\ at \in Landing => \A t \in OfStory(cur) :
       StageOf[t] < climb => cur \in content[t] /\ health[t] = "healthy"
  /\ at \in {"stage", "ship", "settle", "degrade"} =>
       \A t \in InStage(cur, climb) : ended[cur][t] # {}
  /\ at = "ship" /\ ~failed => \A t \in InStage(cur, climb) \ todo : cur \in content[t]
  /\ at \in {"settle", "degrade"} => \A t \in InStage(cur, climb) : cur \in content[t]
  /\ at = "settle" /\ ~failed => \A t \in InStage(cur, climb) \ todo : health[t] = "healthy"
  /\ at = "degrade" => \A t \in InStage(cur, climb) \ Degrade[cur] : health[t] = "healthy"
  /\ at = "degrade" /\ ~failed => \A t \in Degrade[cur] \ todo : health[t] = "degraded"

Inv == OrgTypeOK /\ RunTypeOK /\ OrdersInv /\ PlaceInv /\ WalkInv

-----------------------------------------------------------------------------
(* What the server's calls keep *)

LEMMA Types == TypeOK <=> OrgTypeOK /\ RunTypeOK
BY DEF TypeOK, OrgTypeOK, RunTypeOK, Landing

\* A story with a space has one in its last stage.
LEMMA LastOfStory ==
  ASSUME NEW i \in Story, NEW s \in OfStory(i)
  PROVE  \E t \in InStage(i, LastStage[i]) : TRUE
<1>1. s \in {x \in Space : ComponentOf[x] = ComponentOf[i]}
  BY DEF OfStory
<1>2. StageOf[s] \in 2 .. LastStage[i]
  BY <1>1
<1>3. LastStage[i] \in 2 .. LastStage[i]
  BY <1>2, Basics
<1>4. LastStage[i] \in {StageOf[x] : x \in {y \in Space : ComponentOf[y] = ComponentOf[i]}}
  BY <1>3
<1> QED BY <1>4 DEF InStage, OfStory

\* A step that leaves the pins alone and takes no order back leaves what
\* TerminalInv says.
LEMMA TerminalSame ==
  ASSUME TerminalInv, UNCHANGED <<terminal, pin>>, \A i \in Story : order[i] # "none" => order'[i] # "none"
  PROVE  TerminalInv'
<1>1. ASSUME NEW i \in Story
      PROVE  /\ terminal'[i] => order'[i] # "none" /\ LandedThrough[i] = LastStage[i]
             /\ InStage(i, LastStage[i]) # {} /\ (\A t \in InStage(i, LastStage[i]) : pin'[t] = i) => terminal'[i]
  <2>1. terminal[i] => order[i] # "none" /\ LandedThrough[i] = LastStage[i]
    BY DEF TerminalInv
  <2>2. InStage(i, LastStage[i]) # {} /\ (\A t \in InStage(i, LastStage[i]) : pin[t] = i) => terminal[i]
    BY DEF TerminalInv
  <2> QED BY <2>1, <2>2
<1> QED BY <1>1, Zenon DEF TerminalInv, InStage, OfStory

LEMMA BundleKeeps ==
  ASSUME OrgTypeOK, OrdersInv, NEW s \in Space, NEW i, Bundle(s, i),
         i = "none" \/ (i \in Story /\ s \in OfStory(i) /\ ended[i][s] # {} /\ order[i] # "none")
  PROVE  /\ OrgTypeOK' /\ OrdersInv'
         /\ UNCHANGED <<root, order, carries, spread, ended, head>>
         /\ \A j \in Story : terminal'[j] <=>
              terminal[j] \/ (j = i /\ \A t \in InStage(j, LastStage[j]) : pin'[t] = j)
         /\ \A t \in Space : t # s => content'[t] = content[t] /\ health'[t] = health[t] /\ pin'[t] = pin[t]
         /\ i \in Story => i \in content'[s] /\ pin'[s] = i /\ content'[s] = ended[i][s]
         /\ i = "none" => content'[s] = head[s] /\ pin'[s] = "none"
         /\ health'[s] = "none"
         /\ \A t \in Space : t # s => releases'[t] = releases[t]
<1>1. UNCHANGED <<root, order, carries, spread, ended, head>>
  BY DEF Bundle
<1>2. /\ content' = [content EXCEPT ![s] = IF i \in Story THEN ended[i][s] ELSE head[s]]
      /\ pin' = [pin EXCEPT ![s] = i] /\ health' = [health EXCEPT ![s] = "none"]
      /\ releases' = [releases EXCEPT ![s] = @ + 1]
  BY DEF Bundle
<1>t. terminal' = [j \in Story |->
        terminal[j] \/ (j = i /\ \A t \in InStage(j, LastStage[j]) : pin'[t] = j)]
  BY DEF Bundle
<1>3. "none" \notin Story
  OBVIOUS
<1>4. \A t \in Space : t # s => content'[t] = content[t] /\ health'[t] = health[t] /\ pin'[t] = pin[t]
                                /\ releases'[t] = releases[t]
  BY <1>2 DEF OrgTypeOK
<1>5. health'[s] = "none" /\ pin'[s] = i /\ content'[s] = IF i \in Story THEN ended[i][s] ELSE head[s]
  BY <1>2 DEF OrgTypeOK
<1>6. i \in Story => i \in content'[s]
  BY <1>5 DEF OrdersInv
<1>7. content'[s] \subseteq head[s]
  BY <1>5 DEF OrdersInv
<1>8. OrgTypeOK'
  <2>1. content' \in [Space -> SUBSET Change]
    BY <1>2 DEF OrgTypeOK
  <2>2. pin' \in [Space -> Story \union {"none"}]
    BY <1>2 DEF OrgTypeOK
  <2>3. health' \in [Space -> Health]
    BY <1>2 DEF OrgTypeOK, Health
  <2>4. releases' \in [Space -> Nat]
    BY <1>2 DEF OrgTypeOK
  <2>5. terminal' \in [Story -> BOOLEAN]
    BY <1>t DEF OrgTypeOK
  <2>6. QED
    BY <1>1, <2>1, <2>2, <2>3, <2>4, <2>5 DEF OrgTypeOK
<1>9. \A t \in Space : content'[t] \subseteq head[t]
  BY <1>4, <1>7 DEF OrdersInv
<1>10. \A j \in Story, t \in Space : pin'[t] = j => t \in OfStory(j) /\ j \in content'[t]
  <2> TAKE j \in Story, t \in Space
  <2>1. CASE t = s
    BY <1>3, <1>5, <1>6, <2>1
  <2>2. CASE t # s
    BY <1>4, <2>2 DEF OrdersInv
  <2> QED BY <2>1, <2>2
<1>11. ASSUME NEW j \in Story
       PROVE  /\ terminal'[j] => order[j] # "none" /\ LandedThrough[j] = LastStage[j]
              /\ InStage(j, LastStage[j]) # {} /\ (\A t \in InStage(j, LastStage[j]) : pin'[t] = j) => terminal'[j]
  <2> DEFINE All == \A t \in InStage(j, LastStage[j]) : pin'[t] = j
  <2>1. terminal'[j] <=> terminal[j] \/ (j = i /\ All)
    BY <1>t
  <2>2. terminal[j] => order[j] # "none" /\ LandedThrough[j] = LastStage[j]
    BY DEF OrdersInv, TerminalInv
  <2>3. \A t \in InStage(j, LastStage[j]) : t \in Space /\ t \in OfStory(j) /\ StageOf[t] = LastStage[j]
    BY DEF InStage, OfStory
  <2>4. ASSUME j = i, All PROVE order[j] # "none" /\ LandedThrough[j] = LastStage[j]
    <3>1. s \in OfStory(j) /\ order[j] # "none"
      BY <1>3, <2>4
    <3>2. PICK t \in InStage(j, LastStage[j]) : TRUE
      BY <3>1, LastOfStory
    <3>3. j \in head[t]
      BY <1>9, <1>10, <2>3, <2>4, <3>2
    <3>4. StageOf[t] <= LandedThrough[j] /\ StageOf[t] = LastStage[j]
      BY <2>3, <3>2, <3>3 DEF OrdersInv
    <3> QED BY <3>1, <3>4, Basics
  <2>5. ASSUME InStage(j, LastStage[j]) # {}, All, j # i PROVE terminal[j]
    <3>1. \A t \in InStage(j, LastStage[j]) : pin[t] = j
      BY <1>4, <1>5, <2>3, <2>5
    <3> QED BY <2>5, <3>1 DEF OrdersInv, TerminalInv
  <2> QED BY <2>1, <2>2, <2>4, <2>5
<1>12. OrdersInv'
  <2>1. TerminalInv'
    BY <1>1, <1>11 DEF TerminalInv, OfStory, InStage
  <2> QED BY <1>1, <1>9, <1>10, <2>1 DEF OrdersInv, OfStory, InStage
<1>13. QED
  BY <1>1, <1>t, <1>3, <1>4, <1>5, <1>6, <1>8, <1>12

LEMMA ObservedKeeps ==
  ASSUME OrgTypeOK, OrdersInv, NEW s \in Space, NEW h \in Health, Observed(s, h)
  PROVE  /\ OrgTypeOK' /\ OrdersInv'
         /\ UNCHANGED <<root, terminal, carries, spread, ended, head, content, pin, releases>>
         /\ health'[s] = h /\ \A t \in Space : t # s => health'[t] = health[t]
         /\ \A i \in Story :
              order'[i] = IF order[i] = "moving" /\ terminal[i] /\ \A t \in InStage(i, LastStage[i]) :
                                                       pin[t] = i /\ health'[t] = "healthy"
                          THEN "completed" ELSE order[i]
<1>1. UNCHANGED <<root, terminal, carries, spread, ended, head, content, pin, releases>>
  BY DEF Observed
<1>2. health' = [health EXCEPT ![s] = h]
  BY DEF Observed
<1>3. order' = [i \in Story |->
         IF order[i] = "moving" /\ terminal[i] /\ \A t \in InStage(i, LastStage[i]) : pin[t] = i /\ health'[t] = "healthy"
         THEN "completed" ELSE order[i]]
  BY DEF Observed
<1>4. \A i \in Story : order'[i] # "none" => order[i] # "none"
  BY <1>3
<1>5. OrgTypeOK'
  <2>1. health' \in [Space -> Health]
    BY <1>2 DEF OrgTypeOK
  <2>2. order' \in [Story -> {"none", "moving", "completed"}]
    BY <1>3 DEF OrgTypeOK
  <2>3. QED
    BY <1>1, <2>1, <2>2 DEF OrgTypeOK
<1>6. OrdersInv'
  <2>1. \A i \in Story : order[i] # "none" => order'[i] # "none"
    BY <1>3
  <2>2. TerminalInv'
    BY <1>1, <2>1, TerminalSame DEF OrdersInv
  <2> QED BY <1>1, <1>4, <2>2 DEF OrdersInv, OfStory, InStage
<1>7. QED
  BY <1>1, <1>2, <1>3, <1>5, <1>6 DEF OrgTypeOK

LEMMA PromoteKeeps ==
  ASSUME OrgTypeOK, RunTypeOK, OrdersInv, at = "promote", carries[cur], spread[cur],
         NEW S \in SUBSET InStage(cur, climb), PromoteInto(cur, S), spread' = spread
  PROVE  /\ OrgTypeOK' /\ OrdersInv'
         /\ UNCHANGED <<root, order, terminal, carries, spread, content, pin, health, releases>>
         /\ \A t \in Space : head'[t] = IF t \in S /\ ended[cur][t] = {} THEN head[t] \union {cur} ELSE head[t]
         /\ \A i \in Story, t \in Space :
              ended'[i][t] = IF i = cur /\ t \in S /\ ended[cur][t] = {} THEN head'[t] ELSE ended[i][t]
         /\ \A t \in S : ended'[cur][t] # {}
<1>1. cur \in Story /\ climb <= LandedThrough[cur]
  BY Basics DEF RunTypeOK, Landing, cur
<1>2. UNCHANGED <<root, order, terminal, carries, spread, content, pin, health, releases>>
  BY DEF PromoteInto
<1>3. S \subseteq Space /\ \A t \in S : t \in OfStory(cur) /\ StageOf[t] = climb
  BY DEF InStage, OfStory
<1>4. carries[cur] = TRUE /\ spread[cur] = TRUE
  BY <1>1 DEF OrgTypeOK
<1> DEFINE fresh == {t \in S : ended[cur][t] = {}}
<1>5. head' = [t \in Space |-> IF t \in fresh /\ carries[cur] /\ spread[cur] THEN head[t] \union {cur} ELSE head[t]]
  BY DEF PromoteInto
<1>6. ended' = [ended EXCEPT ![cur] = [t \in Space |-> IF t \in fresh THEN head'[t] ELSE ended[cur][t]]]
  BY <1>5 DEF PromoteInto
<1>7. \A t \in Space : head'[t] = IF t \in fresh THEN head[t] \union {cur} ELSE head[t]
  BY <1>4, <1>5
<1>8. \A t \in Space : ended'[cur][t] = IF t \in fresh THEN head'[t] ELSE ended[cur][t]
  BY <1>1, <1>6 DEF OrgTypeOK
<1>9. \A i \in Story : i # cur => ended'[i] = ended[i]
  BY <1>1, <1>6 DEF OrgTypeOK
<1>10. OrgTypeOK'
  <2>1. cur \in Change
    BY <1>1 DEF Change
  <2>2. head' \in [Space -> SUBSET Change]
    BY <1>5, <2>1 DEF OrgTypeOK
  <2>3. [t \in Space |-> IF t \in fresh THEN head'[t] ELSE ended[cur][t]] \in [Space -> SUBSET Change]
    BY <1>1, <2>2 DEF OrgTypeOK
  <2>4. ended' \in [Story -> [Space -> SUBSET Change]]
    <3> DEFINE e == [t \in Space |-> IF t \in fresh THEN head'[t] ELSE ended[cur][t]]
               T == [Space -> SUBSET Change]
    <3>1. e \in T /\ ended' = [ended EXCEPT ![cur] = e] /\ ended \in [Story -> T]
      BY <1>6, <2>3 DEF OrgTypeOK
    <3> HIDE DEF e, T
    <3>2. ended' \in [Story -> T]
      BY <3>1
    <3>3. QED
      BY <3>2 DEF T
  <2>5. QED
    BY <1>2, <2>2, <2>4 DEF OrgTypeOK
<1>11. OrdersInv'
  <2>1. \A t \in Space : head[t] \subseteq head'[t]
    BY <1>7
  <2> HIDE DEF fresh
  <2>4. \A t \in Space, i \in Story : i # cur => (i \in head'[t] => i \in head[t])
    <3> TAKE t \in Space, i \in Story
    <3>1. head'[t] = head[t] \/ head'[t] = head[t] \union {cur}
      BY <1>7, Zenon
    <3> QED BY <3>1
  <2>2. \A t \in Space : content'[t] \subseteq head'[t] /\ "seed" \in head'[t]
    BY <1>2, <2>1 DEF OrdersInv
  <2>3. ASSUME NEW i \in Story, NEW t \in Space
        PROVE  /\ ended'[i][t] \subseteq head'[t] /\ (ended'[i][t] # {} => i \in ended'[i][t])
               /\ i \in head'[t] => t \in OfStory(i) /\ ended'[i][t] # {} /\ StageOf[t] <= LandedThrough[i]
    <3>1. CASE i # cur
      BY <1>9, <2>1, <2>4, <3>1 DEF OrdersInv
    <3>2. CASE i = cur /\ t \in fresh
      BY <1>1, <1>3, <1>7, <1>8, <3>2 DEF fresh
    <3>3. CASE i = cur /\ t \notin fresh
      BY <1>1, <1>7, <1>8, <3>3 DEF OrdersInv
    <3>4. QED
      BY <3>1, <3>2, <3>3
  <2>5. QED
    <3>1. TerminalInv'
      BY <1>2, TerminalSame DEF OrdersInv
    <3> QED BY <1>2, <2>2, <2>3, <3>1 DEF OrdersInv, OfStory, InStage
<1>12. \A t \in S : ended'[cur][t] # {}
  BY <1>3, <1>7, <1>8
<1>13. QED
  BY <1>2, <1>3, <1>7, <1>8, <1>9, <1>10, <1>11, <1>12

\* Heads that grow by what is no story's.
LEMMA GrownKeeps ==
  ASSUME OrgTypeOK, OrdersInv, NEW G \in [Space -> SUBSET {"skew", "edit"}],
         head' = [s \in Space |-> head[s] \union G[s]],
         UNCHANGED <<root, order, terminal, carries, spread, ended, content, pin, health, releases>>
  PROVE  /\ OrgTypeOK' /\ OrdersInv'
         /\ \A s \in Space : head'[s] = head[s] \union G[s]
         /\ \A i \in Story, s \in Space : i \in head'[s] => i \in head[s]
<1>1. \A s \in Space : head'[s] = head[s] \union G[s] /\ G[s] \subseteq {"skew", "edit"}
  OBVIOUS
<1>2. head' \in [Space -> SUBSET Change]
  BY <1>1 DEF OrgTypeOK, Change
<1>3. \A i \in Story : i # "skew" /\ i # "edit"
  OBVIOUS
<1>4. \A i \in Story, s \in Space : i \in head'[s] => i \in head[s]
  BY <1>1, <1>3
<1>5. OrgTypeOK'
  BY <1>2 DEF OrgTypeOK
<1>6. OrdersInv'
  <2>1. TerminalInv'
    BY <1>1, TerminalSame DEF OrdersInv
  <2> QED BY <1>1, <1>4, <2>1 DEF OrdersInv, OfStory, InStage
<1>7. QED
  BY <1>1, <1>4, <1>5, <1>6

\* An edit makes the head of a space grow.
LEMMA EditDoes ==
  ASSUME OrgTypeOK, NEW s \in Space, Edit(s)
  PROVE  /\ UNCHANGED <<root, order, terminal, carries, spread, ended, content, pin, health, releases, upVars>>
         /\ \E G \in [Space -> SUBSET {"skew", "edit"}] : head' = [t \in Space |-> head[t] \union G[t]]
<1>1. /\ head' = [head EXCEPT ![s] = @ \union {"edit"}]
      /\ UNCHANGED <<root, order, terminal, carries, spread, ended, content, pin, health, releases, upVars>>
  BY DEF Edit
<1> DEFINE G == [t \in Space |-> IF t = s THEN {"edit"} ELSE {}]
<1>2. head' = [t \in Space |-> IF t = s THEN head[t] \union {"edit"} ELSE head[t]]
  BY <1>1 DEF OrgTypeOK
<1>3. \A t \in Space : (IF t = s THEN head[t] \union {"edit"} ELSE head[t]) = head[t] \union G[t]
  OBVIOUS
<1>4. G \in [Space -> SUBSET {"skew", "edit"}] /\ head' = [t \in Space |-> head[t] \union G[t]]
  <2>1. head' = [t \in Space |-> head[t] \union G[t]]
    BY <1>2, <1>3, Zenon
  <2>2. QED
    BY <2>1
<1> HIDE DEF G
<1>5. QED
  BY <1>1, <1>4

LEMMA SameOrg ==
  ASSUME OrgTypeOK, OrdersInv, UNCHANGED orgVars
  PROVE  OrgTypeOK' /\ OrdersInv'
<1>1. TerminalInv'
  BY TerminalSame DEF orgVars, OrdersInv
<1> QED BY <1>1 DEF orgVars, OrgTypeOK, OrdersInv, OfStory, InStage

-----------------------------------------------------------------------------
(* Steps of a run *)

LEMMA Current ==
  ASSUME RunTypeOK
  PROVE  /\ cur \in Story /\ turn \in Nat /\ turn <= Len(Stories) /\ climb \in Nat /\ climb >= 1
         /\ todo \subseteq Space
BY Basics DEF RunTypeOK, cur

\* No story is landing: nothing is owed to one.
LEMMA NotLanding ==
  ASSUME at' \notin Landing
  PROVE  WalkInv'
BY DEF WalkInv, Landing

\* The run is over.
LEMMA RunOver ==
  ASSUME at' = "off"
  PROVE  PlaceInv' /\ WalkInv'
BY NotLanding DEF PlaceInv, Telling, Landing, Pools

\* What a run leaves alone but for where it is.
LEMMA RunGoes ==
  ASSUME RunTypeOK, at' \in At, phases' \subseteq phases, todo' \subseteq Space,
         outcome' \in {"none", "running", "failed", "ok"}, failed' \in BOOLEAN,
         UNCHANGED <<ran, runs>>, events' \in 0 .. MaxEvents,
         \/ UNCHANGED <<turn, climb>> /\ (at' \in Landing => at \in Landing)
         \/ turn' \in DOMAIN Stories /\ climb' \in Nat \ {0}
            /\ (at' \in Landing => climb' <= LandedThrough[cur'])
  PROVE  RunTypeOK'
BY DEF RunTypeOK, cur

LEMMA UpKeeps ==
  ASSUME Inv, Up
  PROVE  Inv'
<1>1. /\ at = "off" /\ runs < MaxRuns /\ runs' = runs + 1
      /\ ran' \in Choices /\ at' \in ran' /\ phases' = ran' \ {at'}
      /\ at' = "stories" => phases' = {}
      /\ turn' = 1 /\ climb' = 1 /\ todo' = {} /\ failed' = FALSE /\ outcome' = "running"
      /\ UNCHANGED <<orgVars, events>>
  BY UpDoes
<1>2. ran' \subseteq {"releases", "livestatus", "stories"}
  BY <1>1
<1>3. OrgTypeOK' /\ OrdersInv'
  BY <1>1, SameOrg DEF Inv
<1>4. at' \in {"releases", "livestatus", "stories"}
  BY <1>1, <1>2
<1>5. RunTypeOK'
  <2>1. runs' \in 0 .. MaxRuns /\ events' \in 0 .. MaxEvents
    BY <1>1 DEF Inv, RunTypeOK
  <2>2. at' \in At /\ at' \notin Landing /\ turn' \in DOMAIN Stories
    BY <1>1, <1>4, Basics DEF At, Landing
  <2>3. phases' \subseteq {"releases", "livestatus", "stories"} /\ climb' \in Nat \ {0} /\ todo' \subseteq Space
    BY <1>1, <1>2
  <2>4. QED
    BY <1>1, <1>2, <2>1, <2>2, <2>3 DEF RunTypeOK
<1>6. WalkInv'
  BY <1>4, NotLanding DEF Landing
<1>7. PlaceInv'
  BY <1>1, <1>4 DEF PlaceInv, Telling, Landing, Pools
<1>8. QED
  BY <1>3, <1>5, <1>6, <1>7 DEF Inv

\* The steps from phase to phase.
LEMMA GoOnKeeps ==
  ASSUME Inv, at \notin Telling \union {"off"}, ~failed, GoOn(phases),
         UNCHANGED <<turn, climb, failed, ran, runs, events>>, todo' \subseteq Space
  PROVE  RunTypeOK' /\ PlaceInv' /\ WalkInv'
<1>1. phases \in SUBSET {"releases", "livestatus", "stories"}
  BY DEF Inv, RunTypeOK
<1>2. \/ phases = {} /\ at' = "off" /\ outcome' = "ok" /\ phases' = {}
      \/ /\ at' \in phases /\ phases' = phases \ {at'} /\ outcome' = outcome
         /\ at' = "stories" => phases' = {}
  BY <1>1, GoOnDoes
<1>3. at' \in {"off", "releases", "livestatus", "stories"} /\ phases' \subseteq phases
  BY <1>1, <1>2
<1>4. RunTypeOK'
  <2>1. outcome' \in {"none", "running", "failed", "ok"} /\ events' \in 0 .. MaxEvents /\ failed' \in BOOLEAN
    BY <1>2 DEF Inv, RunTypeOK
  <2>2. at' \in At /\ at' \notin Landing
    BY <1>3 DEF At, Landing
  <2>3. QED
    BY <1>3, <2>1, <2>2, RunGoes DEF Inv
<1>5. WalkInv'
  BY <1>3, NotLanding DEF Landing
<1>6. PlaceInv'
  BY <1>2, <1>3 DEF Inv, PlaceInv, Telling, Landing, Pools
<1>7. QED
  BY <1>4, <1>5, <1>6

LEMMA NextKeeps ==
  ASSUME Inv, at \in Telling, ~failed, NextStory, UNCHANGED <<failed, ran, runs, events>>,
         climb' \in Nat \ {0}, todo' \subseteq Space
  PROVE  RunTypeOK' /\ PlaceInv' /\ WalkInv'
<1>1. phases = {} /\ turn \in DOMAIN Stories /\ outcome = "running"
  BY DEF Inv, PlaceInv, RunTypeOK, Telling, Landing
<1>2. \/ turn = Len(Stories) /\ turn' = turn /\ at' = "off" /\ outcome' = "ok" /\ phases' = {}
      \/ turn < Len(Stories) /\ turn' = turn + 1 /\ at' = "stories" /\ UNCHANGED <<phases, outcome>>
  BY <1>1, NextDoes
<1>3. turn' \in DOMAIN Stories
  BY <1>1, <1>2, Basics
<1>4. RunTypeOK'
  <2>1. at' \in At /\ at' \notin Landing /\ phases' \subseteq phases
    BY <1>1, <1>2 DEF At, Landing
  <2>2. outcome' \in {"none", "running", "failed", "ok"} /\ events' \in 0 .. MaxEvents /\ failed' \in BOOLEAN
    BY <1>1, <1>2 DEF Inv, RunTypeOK
  <2>3. QED
    BY <1>3, <2>1, <2>2, RunGoes DEF Inv
<1>5. WalkInv'
  BY <1>2, NotLanding DEF Landing
<1>6. PlaceInv'
  BY <1>1, <1>2 DEF PlaceInv, Telling, Landing, Pools
<1>7. QED
  BY <1>4, <1>5, <1>6

\* On from a stage that is all released and healthy.
LEMMA WalkKeeps ==
  ASSUME Inv, at \in Landing, Walk, UNCHANGED <<failed, ran, runs, events>>,
         UNCHANGED <<order, ended, head, content, health>>, spread'[cur], ~failed,
         \A t \in OfStory(cur) : StageOf[t] <= climb => cur \in content[t] /\ health[t] = "healthy",
         \A t \in InStage(cur, climb) : ended[cur][t] # {}
  PROVE  RunTypeOK' /\ PlaceInv' /\ WalkInv'
<1>1. climb <= LandedThrough[cur] /\ climb \in Nat /\ climb >= 1 /\ cur \in Story /\ LandedThrough[cur] \in Nat
      /\ todo \subseteq Space /\ order[cur] # "none" /\ phases = {} /\ outcome = "running"
  BY Current, Basics DEF Inv, RunTypeOK, PlaceInv, Telling, Landing
<1>2. outcome \in {"none", "running", "failed", "ok"} /\ events' \in 0 .. MaxEvents /\ failed' \in BOOLEAN
      /\ turn \in DOMAIN Stories
  BY DEF Inv, RunTypeOK
<1>3. \A t \in OfStory(cur) : StageOf[t] \in Nat /\ t \in Space
  BY <1>1, Basics
<1>4. CASE climb < LandedThrough[cur] /\ climb' = climb + 1 /\ at' = "promote"
           /\ UNCHANGED <<phases, turn, todo, outcome>>
  <2>1. cur' = cur
    BY <1>4 DEF cur
  <2>2. RunTypeOK'
    <3>1. at' \in At /\ climb' \in Nat \ {0} /\ climb' <= LandedThrough[cur'] /\ turn' \in DOMAIN Stories
      BY <1>1, <1>2, <1>4, <2>1 DEF At
    <3>2. QED
      BY <1>1, <1>2, <1>4, <3>1, RunGoes DEF Inv
  <2>3. PlaceInv'
    BY <1>1, <1>4, <2>1 DEF PlaceInv, Telling, Landing, Pools
  <2>4. \A t \in OfStory(cur) : StageOf[t] < climb' => StageOf[t] <= climb
    BY <1>1, <1>3, <1>4
  <2>5. WalkInv'
    BY <1>4, <2>1, <2>4 DEF WalkInv, OfStory, Landing
  <2>6. QED
    BY <2>2, <2>3, <2>5
<1>5. CASE climb = LandedThrough[cur] /\ climb' = climb /\ Degrade[cur] # {} /\ at' = "degrade"
           /\ todo' = ToReport("degrade") /\ UNCHANGED <<phases, turn, outcome>>
  <2>1. cur' = cur
    BY <1>5 DEF cur
  <2>2. todo' \subseteq Degrade[cur] /\ Degrade[cur] \subseteq InStage(cur, climb)
    BY <1>1, <1>5, ReportsOn, Basics
  <2>3. todo' \subseteq Space
    BY <2>2, <1>3 DEF InStage
  <2>4. RunTypeOK'
    <3>1. at' \in At /\ climb' \in Nat \ {0} /\ climb' <= LandedThrough[cur'] /\ turn' \in DOMAIN Stories
      BY <1>1, <1>2, <1>5, <2>1 DEF At
    <3>2. QED
      BY <1>1, <1>2, <1>5, <2>3, <3>1, RunGoes DEF Inv
  <2>5. PlaceInv'
    BY <1>1, <1>5, <2>1, <2>2 DEF PlaceInv, Telling, Landing, Pools
  <2>6. \A t \in InStage(cur, climb) : t \in OfStory(cur) /\ StageOf[t] = climb
    BY DEF InStage
  <2>7. \A t \in Degrade[cur] : t \notin todo' => health[t] = "degraded"
    <3>1. \A t \in Degrade[cur] : t \in OfStory(cur) /\ StageOf[t] <= climb
      BY <1>1, <2>2, <2>6
    <3>2. \A t \in Degrade[cur] : content[t] # {}
      BY <3>1
    <3>3. QED
      BY <1>5, <3>2 DEF ToReport, Wanted, Observation
  <2>8. WalkInv'
    <3>1. \A t \in OfStory(cur) : StageOf[t] < climb => cur \in content[t] /\ health[t] = "healthy"
      BY <1>1, <1>3
    <3>2. \A t \in InStage(cur, climb) : cur \in content[t] /\ health[t] = "healthy"
      BY <1>1, <2>6
    <3>3. QED
      BY <1>5, <2>1, <2>7, <3>1, <3>2 DEF WalkInv, OfStory, InStage, Landing
  <2>9. QED
    BY <2>4, <2>5, <2>8
<1>6. CASE climb = LandedThrough[cur] /\ climb' = climb /\ Degrade[cur] = {} /\ todo' = todo /\ NextStory
  <2>1. climb' \in Nat \ {0} /\ todo' \subseteq Space
    BY <1>1, <1>6
  <2>2. QED
    BY <1>6, <2>1, NextKeeps DEF Telling
<1>7. QED
  BY <1>1, <1>4, <1>5, <1>6, WalkDoes

LEMMA PhaseKeeps ==
  ASSUME Inv, ReleasesPhase \/ SkewSpaces \/ LiveStatusPhase
  PROVE  Inv'
<1>1. at # "off" /\ at \notin Telling /\ outcome = "running" /\ ~failed
  BY DEF ReleasesPhase, SkewSpaces, LiveStatusPhase, Telling, Landing, Pools, Inv, PlaceInv
<1>2. CASE ReleasesPhase
  <2>1. at = "releases" /\ at' = "publish" /\ todo' = ToPublish
        /\ UNCHANGED <<orgVars, phases, turn, climb, failed, ran, outcome, runs, events>>
    BY <1>2 DEF ReleasesPhase
  <2>2. OrgTypeOK' /\ OrdersInv'
    BY <2>1, SameOrg DEF Inv
  <2>3. todo' \subseteq Space \ Unreleased
    BY <2>1 DEF ToPublish
  <2>4. at' \in At /\ failed' \in BOOLEAN /\ events' \in 0 .. MaxEvents
        /\ outcome' \in {"none", "running", "failed", "ok"}
    BY <2>1 DEF At, Inv, RunTypeOK
  <2>5. RunTypeOK'
    BY <2>1, <2>3, <2>4, RunGoes DEF Inv, Landing
  <2>6. PlaceInv' /\ WalkInv'
    BY <1>1, <2>1, <2>3, NotLanding DEF Inv, PlaceInv, Telling, Landing, Pools
  <2>7. QED
    BY <2>2, <2>5, <2>6 DEF Inv
<1>3. CASE SkewSpaces
  <2>1. /\ head' = [s \in Space |-> IF s \in Skewed THEN head[s] \union {"skew"} ELSE head[s]]
        /\ GoOn(phases)
        /\ UNCHANGED <<root, order, terminal, carries, spread, ended, content, pin, health, releases>>
        /\ UNCHANGED <<turn, climb, todo, failed, ran, runs, events>>
    BY <1>3 DEF SkewSpaces
  <2> DEFINE G == [s \in Space |-> IF s \in Skewed THEN {"skew"} ELSE {}]
  <2>2. G \in [Space -> SUBSET {"skew", "edit"}] /\ head' = [s \in Space |-> head[s] \union G[s]]
    BY <2>1
  <2> HIDE DEF G
  <2>3. OrgTypeOK' /\ OrdersInv'
    BY <2>1, <2>2, GrownKeeps DEF Inv
  <2>4. todo' \subseteq Space
    BY <2>1 DEF Inv, RunTypeOK
  <2>5. RunTypeOK' /\ PlaceInv' /\ WalkInv'
    BY <1>1, <2>1, <2>4, GoOnKeeps
  <2>6. QED
    BY <2>3, <2>5 DEF Inv
<1>4. CASE LiveStatusPhase
  <2>1. at = "livestatus" /\ at' = "paint" /\ todo' = ToReport("paint")
        /\ UNCHANGED <<orgVars, phases, turn, climb, failed, ran, outcome, runs, events>>
    BY <1>4 DEF LiveStatusPhase, BeginReport
  <2>2. OrgTypeOK' /\ OrdersInv'
    BY <2>1, SameOrg DEF Inv
  <2>3. todo' \subseteq Space
    BY <2>1, ReportsOn
  <2>4. at' \in At /\ failed' \in BOOLEAN /\ events' \in 0 .. MaxEvents
        /\ outcome' \in {"none", "running", "failed", "ok"}
    BY <2>1 DEF At, Inv, RunTypeOK
  <2>5. RunTypeOK'
    BY <2>1, <2>3, <2>4, RunGoes DEF Inv, Landing
  <2>6. PlaceInv' /\ WalkInv'
    BY <1>1, <2>1, NotLanding DEF Inv, PlaceInv, Telling, Landing, Pools
  <2>7. QED
    BY <2>2, <2>5, <2>6 DEF Inv
<1>5. QED
  BY <1>2, <1>3, <1>4

\* The change, and the order found or made.
LEMMA BeginKeeps ==
  ASSUME Inv, MakeChange \/ EnsureOrder
  PROVE  Inv'
<1>0. cur \in Story /\ turn \in DOMAIN Stories /\ at \in {"stories", "order"} /\ outcome = "running" /\ phases = {} /\ ~failed
  BY Current DEF MakeChange, EnsureOrder, Inv, PlaceInv, RunTypeOK, Telling, Pools
<1>1. LandedThrough[cur] >= 1 /\ LandedThrough[cur] \in Nat
  BY <1>0, Basics
<1>2. CASE MakeChange
  <2>1. /\ at = "stories" /\ at' = "order" /\ root' = [root EXCEPT ![cur] = "story"]
        /\ UNCHANGED <<order, terminal, carries, spread, ended, head, content, pin, health, releases>>
        /\ UNCHANGED <<phases, turn, climb, todo, failed, ran, outcome, runs, events>>
    BY <1>2 DEF MakeChange
  <2>2. OrgTypeOK' /\ OrdersInv'
    <3>1. TerminalInv'
      BY <2>1, TerminalSame DEF Inv, OrdersInv
    <3> QED BY <2>1, <3>1 DEF Inv, OrgTypeOK, OrdersInv, OfStory, InStage
  <2>3. cur' = cur /\ root'[cur] = "story"
    BY <1>0, <2>1 DEF cur, Inv, OrgTypeOK
  <2>4. RunTypeOK'
    BY <2>1 DEF Inv, RunTypeOK, At, Landing
  <2>5. PlaceInv' /\ WalkInv'
    BY <1>0, <2>1, <2>3, NotLanding DEF Inv, PlaceInv, Telling, Landing, Pools
  <2>6. QED
    BY <2>2, <2>4, <2>5 DEF Inv
<1>3. CASE EnsureOrder
  <2>1. at = "order" /\ climb' = 1 /\ UNCHANGED <<todo, failed, ran, runs, events>> /\ todo \subseteq Space
    BY <1>3 DEF EnsureOrder, Inv, RunTypeOK
  <2>2. CASE terminal[cur] /\ NextStory /\ UNCHANGED orgVars
    <3>1. RunTypeOK' /\ PlaceInv' /\ WalkInv'
      BY <1>0, <2>1, <2>2, NextKeeps DEF Telling
    <3>2. QED
      BY <2>2, <3>1, SameOrg DEF Inv
  <2>3. ASSUME at' = "promote", UNCHANGED <<phases, turn, outcome>>, OrgTypeOK', OrdersInv', order'[cur] # "none"
        PROVE  Inv'
    <3>1. cur' = cur
      BY <2>3 DEF cur
    <3>2. RunTypeOK'
      <4>1. at' \in At /\ turn' \in DOMAIN Stories /\ climb' \in Nat \ {0} /\ climb' <= LandedThrough[cur']
        BY <1>0, <1>1, <2>1, <2>3, <3>1 DEF At
      <4>2. QED
        BY <2>1, <2>3, <4>1 DEF Inv, RunTypeOK
    <3>3. PlaceInv'
      BY <1>0, <2>1, <2>3, <3>1 DEF PlaceInv, Telling, Landing, Pools
    <3>4. \A t \in OfStory(cur) : ~(StageOf[t] < 1)
      BY <1>0, Basics
    <3>5. WalkInv'
      BY <2>1, <2>3, <3>1, <3>4 DEF WalkInv, OfStory, Landing
    <3>6. QED
      BY <2>3, <3>2, <3>3, <3>5 DEF Inv
  <2>4. CASE order[cur] = "moving" /\ ~terminal[cur] /\ at' = "promote" /\ UNCHANGED <<orgVars, phases, turn, outcome>>
    BY <2>3, <2>4, SameOrg DEF orgVars, Inv
  <2>5. CASE /\ order[cur] = "none"
             /\ order' = [order EXCEPT ![cur] = "moving"]
             /\ carries' = [carries EXCEPT ![cur] = root[cur] # "old"]
             /\ at' = "promote"
             /\ UNCHANGED <<root, terminal, spread, ended, head, content, pin, health, releases, phases, turn, outcome>>
    <3>1. root[cur] # "old"
      BY <2>1 DEF Inv, PlaceInv
    <3>2. order'[cur] = "moving" /\ carries'[cur] = TRUE
          /\ \A i \in Story : i # cur => order'[i] = order[i] /\ carries'[i] = carries[i]
      BY <1>0, <2>5, <3>1 DEF Inv, OrgTypeOK
    <3>3. OrgTypeOK'
      <4>1. order' \in [Story -> {"none", "moving", "completed"}]
        BY <1>0, <2>5 DEF Inv, OrgTypeOK
      <4>2. carries' \in [Story -> BOOLEAN]
        BY <1>0, <2>5, <3>1 DEF Inv, OrgTypeOK
      <4>3. QED
        BY <2>5, <4>1, <4>2 DEF Inv, OrgTypeOK
    <3>4. OrdersInv'
      <4>1. \A i \in Story : (order'[i] # "none" => carries'[i]) /\ (order[i] # "none" => order'[i] # "none")
        BY <3>2 DEF Inv, OrdersInv
      <4>2. TerminalInv'
        BY <2>5, <4>1, TerminalSame DEF Inv, OrdersInv
      <4> QED BY <2>5, <4>1, <4>2 DEF Inv, OrdersInv, OfStory, InStage
    <3>5. QED
      BY <2>3, <2>5, <3>2, <3>3, <3>4
  <2>6. QED
    BY <1>3, <2>2, <2>4, <2>5 DEF EnsureOrder
<1>4. QED
  BY <1>2, <1>3

\* A promotion, refused, into the bases, or into a class.
LEMMA PromotesKeep ==
  ASSUME Inv, Promote
  PROVE  Inv'
<1>0. at = "promote" /\ cur \in Story /\ climb \in Nat /\ climb >= 1 /\ UNCHANGED <<failed, ran, runs, events>>
      /\ order[cur] # "none" /\ outcome = "running" /\ todo \subseteq Space /\ at \in Landing /\ ~failed
      /\ phases = {} /\ turn \in DOMAIN Stories /\ climb <= LandedThrough[cur]
  BY Current DEF Promote, Inv, PlaceInv, RunTypeOK, Telling, Landing, Pools
<1>1. CASE ~GatesHold(cur, climb) /\ Stop("failed") /\ UNCHANGED <<orgVars, turn, climb, todo>>
  <2>1. at' = "off" /\ phases' = {} /\ outcome' = "failed"
    BY <1>1 DEF Stop
  <2>2. RunTypeOK'
    BY <1>0, <1>1, <2>1 DEF Inv, RunTypeOK, At, Landing
  <2>3. QED
    BY <1>1, <2>1, <2>2, SameOrg, RunOver DEF Inv
<1>2. CASE /\ climb = 1
           /\ spread' = [spread EXCEPT ![cur] = TRUE]
           /\ Walk
           /\ UNCHANGED <<root, order, terminal, carries, ended, head, content, pin, health, releases>>
  <2>1. OrgTypeOK' /\ spread'[cur]
    BY <1>0, <1>2 DEF Inv, OrgTypeOK
  <2>2. OrdersInv'
    <3>1. TerminalInv'
      BY <1>2, TerminalSame DEF Inv, OrdersInv
    <3> QED BY <1>2, <3>1 DEF Inv, OrdersInv, OfStory, InStage
  <2>3. \A t \in OfStory(cur) : StageOf[t] >= 2 /\ StageOf[t] \in Nat
    BY <1>0, Basics
  <2>4. \A t \in OfStory(cur) : ~(StageOf[t] <= climb)
    BY <1>2, <2>3
  <2>5. InStage(cur, climb) = {}
    BY <1>2, <2>3 DEF InStage
  <2>6. RunTypeOK' /\ PlaceInv' /\ WalkInv'
    BY <1>0, <1>2, <2>1, <2>4, <2>5, WalkKeeps
  <2>7. QED
    BY <2>1, <2>2, <2>6 DEF Inv
<1>3. CASE /\ climb > 1 /\ GatesHold(cur, climb)
           /\ PromoteInto(cur, InStage(cur, climb))
           /\ at' = "stage"
           /\ UNCHANGED <<spread, phases, turn, climb, todo, outcome>>
  <2>1. carries[cur] /\ spread[cur]
    BY <1>0, <1>3 DEF Inv, PlaceInv, OrdersInv
  <2>2. /\ OrgTypeOK' /\ OrdersInv'
        /\ UNCHANGED <<root, order, terminal, carries, spread, content, pin, health, releases>>
        /\ \A t \in InStage(cur, climb) : ended'[cur][t] # {}
    BY <1>0, <1>3, <2>1, PromoteKeeps DEF Inv
  <2>3. cur' = cur
    BY <1>3 DEF cur
  <2>4. RunTypeOK'
    BY <1>0, <1>3, <2>3 DEF Inv, RunTypeOK, At, Landing
  <2>5. PlaceInv'
    BY <1>0, <1>3, <2>1, <2>2, <2>3 DEF PlaceInv, Telling, Landing, Pools
  <2>6. WalkInv'
    BY <1>0, <1>3, <2>2, <2>3 DEF Inv, WalkInv, Landing, OfStory, InStage
  <2>7. QED
    BY <2>2, <2>4, <2>5, <2>6 DEF Inv
<1>4. QED
  BY <1>1, <1>2, <1>3 DEF Promote

\* What is to be released of the class, and that all of it was.
LEMMA ReleaseKeeps ==
  ASSUME Inv, ReleaseStage \/ Shipped
  PROVE  Inv'
<1>0. cur \in Story /\ at \in {"stage", "ship"} /\ climb > 1 /\ order[cur] # "none" /\ outcome = "running"
      /\ phases = {} /\ spread[cur] /\ ~failed /\ InStage(cur, climb) \subseteq Space
  BY Current DEF ReleaseStage, Shipped, Inv, PlaceInv, RunTypeOK, Telling, Landing, Pools, InStage, OfStory
<1>1. CASE ReleaseStage
  <2>1. at = "stage" /\ at' = "ship" /\ todo' = {s \in InStage(cur, climb) : Pending(s)}
        /\ UNCHANGED <<orgVars, phases, turn, climb, failed, ran, outcome, runs, events>>
    BY <1>1 DEF ReleaseStage
  <2>2. OrgTypeOK' /\ OrdersInv'
    BY <2>1, SameOrg DEF Inv
  <2>3. cur' = cur /\ todo' \subseteq InStage(cur, climb) /\ todo' \subseteq Space
    BY <1>0, <2>1 DEF cur
  <2>4. RunTypeOK'
    BY <2>1, <2>3 DEF Inv, RunTypeOK, At, Landing, cur
  <2>5. PlaceInv'
    BY <1>0, <2>1, <2>3 DEF PlaceInv, Telling, Landing, Pools, orgVars, InStage, OfStory
  <2>6. WalkInv'
    <3>1. \A t \in InStage(cur, climb) : ended[cur][t] # {}
      BY <2>1 DEF Inv, WalkInv
    <3>2. \A t \in InStage(cur, climb) : cur \in head[t]
      BY <1>0, <3>1 DEF Inv, OrdersInv
    <3>3. \A t \in InStage(cur, climb) \ todo' : cur \in content[t]
      BY <2>1, <3>2 DEF Pending
    <3>4. \A t \in OfStory(cur) : StageOf[t] < climb => cur \in content[t] /\ health[t] = "healthy"
      BY <2>1 DEF Inv, WalkInv, Landing
    <3>5. QED
      BY <2>1, <2>3, <3>1, <3>3, <3>4 DEF WalkInv, Landing, orgVars, InStage, OfStory
  <2>7. QED
    BY <2>2, <2>4, <2>5, <2>6 DEF Inv
<1>2. CASE Shipped
  <2>1. at = "ship" /\ todo = {} /\ at' = "settle" /\ todo' = ToReport("settle")
        /\ UNCHANGED <<orgVars, phases, turn, climb, failed, ran, outcome, runs, events>>
    BY <1>2 DEF Shipped, BeginReport
  <2>2. OrgTypeOK' /\ OrdersInv'
    BY <2>1, SameOrg DEF Inv
  <2>3. cur' = cur /\ todo' \subseteq InStage(cur, climb) /\ todo' \subseteq Space
    BY <1>0, <2>1, ReportsOn DEF cur
  <2>4. RunTypeOK'
    BY <2>1, <2>3 DEF Inv, RunTypeOK, At, Landing, cur
  <2>5. PlaceInv'
    BY <1>0, <2>1, <2>3 DEF PlaceInv, Telling, Landing, Pools, orgVars, InStage, OfStory
  <2>6. WalkInv'
    <3>1. \A t \in InStage(cur, climb) : ended[cur][t] # {} /\ cur \in content[t]
      BY <1>0, <2>1 DEF Inv, WalkInv
    <3>2. \A t \in InStage(cur, climb) \ todo' : health[t] = "healthy"
      BY <2>1, <3>1 DEF ToReport, Wanted, Observation
    <3>3. \A t \in OfStory(cur) : StageOf[t] < climb => cur \in content[t] /\ health[t] = "healthy"
      BY <2>1 DEF Inv, WalkInv, Landing
    <3>4. QED
      BY <2>1, <2>3, <3>1, <3>2, <3>3 DEF WalkInv, Landing, orgVars, InStage, OfStory
  <2>7. QED
    BY <2>2, <2>4, <2>5, <2>6 DEF Inv
<1>3. QED
  BY <1>1, <1>2

\* A call of a pool, whose answer may be lost.
LEMMA CallKeeps ==
  ASSUME Inv, at \in Pools, NEW s \in todo, Call(s), failed' \in BOOLEAN, failed => failed',
         UNCHANGED <<at, phases, turn, climb, ran, outcome, runs>>, events' \in 0 .. MaxEvents
  PROVE  Inv'
<1>0. cur \in Story /\ cur' = cur /\ climb \in Nat /\ s \in Space /\ todo' = todo \ {s}
      /\ \A t \in OfStory(cur) : t \in Space
  BY Current DEF Inv, cur, Call, OfStory
<1>1. RunTypeOK'
  BY <1>0 DEF Inv, RunTypeOK, cur
<1>2. at \in Landing => \A t \in OfStory(cur) :
        StageOf[t] < climb => cur \in content[t] /\ health[t] = "healthy"
  BY DEF Inv, WalkInv
<1>3. at \in Landing => climb = StageOf[s] /\ s \in InStage(cur, climb)
  <2>1. CASE at = "degrade"
    <3>1. s \in Degrade[cur] /\ climb = LandedThrough[cur]
      BY <2>1 DEF Inv, PlaceInv
    <3>2. QED
      BY <1>0, <3>1, Basics DEF InStage
  <2>2. CASE at \in {"ship", "settle"}
    BY <2>2 DEF Inv, PlaceInv, InStage
  <2>3. QED
    BY <2>1, <2>2 DEF Landing, Pools
<1>4. ASSUME OrgTypeOK', OrdersInv', UNCHANGED <<root, spread, ended>>, order[cur] # "none" => order'[cur] # "none",
             WalkInv'
      PROVE  Inv'
  <2>1. PlaceInv'
    BY <1>0, <1>4 DEF Inv, PlaceInv, Telling, Landing, Pools, InStage, OfStory
  <2>2. QED
    BY <1>1, <1>4, <2>1 DEF Inv
<1>5. CASE at = "publish" /\ Bundle(s, "none")
  <2>1. OrgTypeOK' /\ OrdersInv' /\ UNCHANGED <<root, order, spread, ended>>
    BY <1>0, <1>5, BundleKeeps DEF Inv
  <2>2. WalkInv'
    BY <1>5, NotLanding DEF Landing
  <2>3. QED
    BY <1>4, <2>1, <2>2
<1>6. CASE at = "ship" /\ Bundle(s, cur)
  <2>1. s \in OfStory(cur) /\ ended[cur][s] # {} /\ order[cur] # "none"
    BY <1>3, <1>6 DEF Inv, PlaceInv, WalkInv, InStage, Landing
  <2>2. /\ OrgTypeOK' /\ OrdersInv' /\ UNCHANGED <<root, order, spread, ended>>
        /\ \A t \in Space : t # s => content'[t] = content[t] /\ health'[t] = health[t]
        /\ cur \in content'[s]
    BY <1>0, <1>6, <2>1, BundleKeeps DEF Inv
  <2>3. WalkInv'
    <3>1. \A t \in OfStory(cur) : StageOf[t] < climb => t # s
      BY <1>0, <1>3, <1>6 DEF Landing
    <3>2. \A t \in OfStory(cur) : StageOf[t] < climb => cur \in content'[t] /\ health'[t] = "healthy"
      BY <1>0, <1>2, <1>6, <2>2, <3>1 DEF Landing
    <3>3. \A t \in InStage(cur, climb) : ended'[cur][t] # {} /\ t \in Space
      BY <1>0, <1>6, <2>2 DEF Inv, WalkInv, InStage
    <3>4. ~failed' => \A t \in InStage(cur, climb) \ todo' : cur \in content'[t]
      BY <1>0, <1>6, <2>2, <3>3 DEF Inv, WalkInv
    <3>5. QED
      BY <1>0, <1>6, <3>2, <3>3, <3>4 DEF WalkInv, Landing, InStage, OfStory
  <2>4. QED
    BY <1>4, <2>2, <2>3
<1>7. CASE at \notin {"publish", "ship"} /\ Observed(s, Observation(at, s))
  <2>1. Observation(at, s) \in Health
    BY Observations DEF Health
  <2>2. /\ OrgTypeOK' /\ OrdersInv' /\ UNCHANGED <<root, spread, ended, content>>
        /\ health'[s] = Observation(at, s) /\ \A t \in Space : t # s => health'[t] = health[t]
    BY <1>0, <1>7, <2>1, ObservedKeeps DEF Inv
  <2>3. order'[cur] = order[cur] \/ order'[cur] = "completed"
    BY <1>0, <1>7, <2>1, ObservedKeeps DEF Inv
  <2>4. CASE at = "paint"
    <3>1. WalkInv'
      BY <2>4, NotLanding DEF Landing
    <3>2. QED
      BY <1>4, <2>2, <2>3, <3>1
  <2>5. CASE at \in {"settle", "degrade"}
    <3>1. \A t \in OfStory(cur) : StageOf[t] < climb => t # s
      BY <1>0, <1>3, <2>5 DEF Landing
    <3>2. \A t \in OfStory(cur) : StageOf[t] < climb => cur \in content'[t] /\ health'[t] = "healthy"
      BY <1>0, <1>2, <2>2, <2>5, <3>1 DEF Landing
    <3>3. \A t \in InStage(cur, climb) : ended'[cur][t] # {} /\ t \in Space /\ cur \in content'[t]
      BY <1>0, <2>2, <2>5 DEF Inv, WalkInv, InStage
    <3>4. at = "settle" => health'[s] = "healthy"
      BY <2>2 DEF Observation
    <3>5. at = "degrade" => health'[s] = "degraded" /\ s \in Degrade[cur]
      BY <2>2 DEF Observation, Inv, PlaceInv
    <3>6. at = "settle" /\ ~failed' => \A t \in InStage(cur, climb) \ todo' : health'[t] = "healthy"
      BY <1>0, <2>2, <3>3, <3>4 DEF Inv, WalkInv
    <3>7. at = "degrade" => \A t \in InStage(cur, climb) \ Degrade[cur] : health'[t] = "healthy"
      BY <2>2, <3>3, <3>5 DEF Inv, WalkInv
    <3>8. at = "degrade" /\ ~failed' => \A t \in Degrade[cur] \ todo' : health'[t] = "degraded"
      BY <1>0, <2>2, <3>5 DEF Inv, WalkInv
    <3>9. WalkInv'
      BY <1>0, <2>5, <3>2, <3>3, <3>6, <3>7, <3>8 DEF WalkInv, Landing, InStage, OfStory
    <3>10. QED
      BY <1>4, <2>2, <2>3, <3>9
  <2>6. QED
    BY <1>7, <2>4, <2>5 DEF Pools
<1>8. QED
  BY <1>5, <1>6, <1>7, CallDoes

\* A call of a pool that took no effect.
LEMMA LostKeeps ==
  ASSUME Inv, at \in Pools, NEW s \in todo, todo' = todo \ {s}, failed' = TRUE,
         UNCHANGED <<orgVars, at, phases, turn, climb, ran, outcome, runs>>, events' \in 0 .. MaxEvents
  PROVE  Inv'
<1>1. OrgTypeOK' /\ OrdersInv' /\ cur' = cur
  BY SameOrg DEF Inv, cur
<1>2. RunTypeOK'
  BY <1>1 DEF Inv, RunTypeOK, cur
<1>3. PlaceInv'
  BY <1>1 DEF Inv, PlaceInv, Telling, Landing, Pools, InStage, OfStory, orgVars
<1>4. WalkInv'
  BY <1>1 DEF Inv, WalkInv, InStage, OfStory, orgVars
<1>5. QED
  BY <1>1, <1>2, <1>3, <1>4 DEF Inv

\* A pool is through.
LEMMA EndsKeep ==
  ASSUME Inv, PoolEnds
  PROVE  Inv'
<1>0. /\ at \in Pools /\ at # "off" /\ todo = {} /\ UNCHANGED <<orgVars, failed, ran, runs, events>>
      /\ outcome = "running" /\ phases \subseteq {"releases", "livestatus", "stories"}
  BY DEF PoolEnds, Pools, Inv, PlaceInv, RunTypeOK
<1>1. OrgTypeOK' /\ OrdersInv'
  BY <1>0, SameOrg DEF Inv
<1>2. CASE failed /\ Stop("failed") /\ UNCHANGED <<turn, climb, todo>>
  <2>1. at' = "off" /\ phases' = {} /\ outcome' = "failed"
    BY <1>2 DEF Stop
  <2>2. RunTypeOK'
    BY <1>0, <1>2, <2>1 DEF Inv, RunTypeOK, At, Landing
  <2>3. QED
    BY <1>1, <2>1, <2>2, RunOver DEF Inv
<1>3. CASE ~failed /\ at = "publish" /\ at' = "skew" /\ UNCHANGED <<phases, turn, climb, todo, outcome>>
  <2>1. RunTypeOK'
    BY <1>0, <1>3 DEF Inv, RunTypeOK, At, Landing
  <2>2. PlaceInv' /\ WalkInv'
    BY <1>0, <1>3, NotLanding DEF Inv, PlaceInv, Telling, Landing, Pools
  <2>3. QED
    BY <1>1, <2>1, <2>2 DEF Inv
<1>4. CASE ~failed /\ at = "paint" /\ GoOn(phases) /\ UNCHANGED <<turn, climb, todo>>
  <2>1. at \notin Telling \union {"off"} /\ todo' \subseteq Space
    BY <1>0, <1>4 DEF Telling, Landing
  <2>2. RunTypeOK' /\ PlaceInv' /\ WalkInv'
    BY <1>0, <1>4, <2>1, GoOnKeeps
  <2>3. QED
    BY <1>1, <2>2 DEF Inv
<1>5. CASE ~failed /\ at = "settle" /\ Walk
  <2>1. at \in Landing /\ UNCHANGED <<order, ended, head, content, health>>
    BY <1>0, <1>5 DEF Landing, orgVars
  <2>2. cur \in Story /\ climb \in Nat /\ \A t \in OfStory(cur) : StageOf[t] \in Nat
    BY Current, Basics DEF Inv
  <2>3. \A t \in InStage(cur, climb) : ended[cur][t] # {} /\ cur \in content[t] /\ health[t] = "healthy"
    BY <1>0, <1>5 DEF Inv, WalkInv
  <2>4. \A t \in OfStory(cur) : StageOf[t] <= climb => cur \in content[t] /\ health[t] = "healthy"
    BY <2>1, <2>2, <2>3 DEF Inv, WalkInv, InStage
  <2>5. spread'[cur]
    BY <1>0, <1>5 DEF Inv, PlaceInv, Landing, orgVars
  <2>6. RunTypeOK' /\ PlaceInv' /\ WalkInv'
    BY <1>0, <1>5, <2>1, <2>3, <2>4, <2>5, WalkKeeps
  <2>7. QED
    BY <1>1, <2>6 DEF Inv
<1>6. CASE ~failed /\ at = "degrade" /\ NextStory /\ UNCHANGED <<climb, todo>>
  <2>1. at \in Telling /\ climb' \in Nat \ {0} /\ todo' \subseteq Space
    BY <1>0, <1>6 DEF Telling, Landing, Inv, RunTypeOK
  <2>2. RunTypeOK' /\ PlaceInv' /\ WalkInv'
    BY <1>0, <1>6, <2>1, NextKeeps
  <2>3. QED
    BY <1>1, <2>2 DEF Inv
<1>7. QED
  BY <1>2, <1>3, <1>4, <1>5, <1>6 DEF PoolEnds

\* What goes wrong, and what others do.
LEMMA EventsKeep ==
  ASSUME Inv, \/ Interrupted \/ PoolCallFails \/ PromotesInPart
              \/ \E s \in Space : Edit(s)
              \/ \E i \in Story : MovesOn(i)
  PROVE  Inv'
<1>0. events' \in 0 .. MaxEvents
  BY DEF Interrupted, PoolCallFails, PromotesInPart, Edit, MovesOn, Happens, Inv, RunTypeOK
<1>1. ASSUME Stop("failed"), UNCHANGED <<turn, climb, todo, failed, ran, runs>>, OrgTypeOK', OrdersInv'
      PROVE  Inv'
  <2>1. at' = "off" /\ phases' = {} /\ outcome' = "failed"
    BY <1>1 DEF Stop
  <2>2. RunTypeOK'
    BY <1>0, <1>1, <2>1 DEF Inv, RunTypeOK, At, Landing
  <2>3. QED
    BY <1>1, <2>1, <2>2, RunOver DEF Inv
<1>2. CASE Interrupted
  BY <1>1, <1>2, SameOrg DEF Interrupted, Inv
<1>3. CASE PoolCallFails
  <2>1. PICK s \in todo : Call(s) \/ (todo' = todo \ {s} /\ UNCHANGED orgVars)
    BY <1>3 DEF PoolCallFails
  <2>2. at \in Pools /\ failed' = TRUE /\ UNCHANGED <<at, phases, turn, climb, ran, outcome, runs>>
    BY <1>3 DEF PoolCallFails, Pools
  <2>3. CASE Call(s)
    BY <1>0, <2>2, <2>3, CallKeeps
  <2>4. CASE todo' = todo \ {s} /\ UNCHANGED orgVars
    BY <1>0, <2>2, <2>4, LostKeeps
  <2>5. QED
    BY <2>1, <2>3, <2>4
<1>4. CASE PromotesInPart
  <2>1. PICK S \in SUBSET InStage(cur, climb) : PromoteInto(cur, S)
    BY <1>4 DEF PromotesInPart
  <2>2. at = "promote" /\ climb > 1 /\ Stop("failed") /\ UNCHANGED <<spread, turn, climb, todo, failed, ran, runs>>
    BY <1>4 DEF PromotesInPart
  <2>3. carries[cur] /\ spread[cur]
    <3>1. cur \in Story
      BY Current DEF Inv
    <3>2. QED
      BY <2>2, <3>1 DEF Inv, PlaceInv, OrdersInv, Landing
  <2>4. OrgTypeOK' /\ OrdersInv'
    BY <2>1, <2>2, <2>3, PromoteKeeps DEF Inv
  <2>5. QED
    BY <1>1, <2>2, <2>4
<1>5. ASSUME UNCHANGED <<upVars, order, spread, ended, content, health>>,
             OrgTypeOK', OrdersInv', root[cur] # "old" => root'[cur] # "old"
      PROVE  Inv'
  <2>1. cur' = cur
    BY <1>5 DEF upVars, cur
  <2>2. RunTypeOK'
    BY <1>0, <1>5, <2>1 DEF Inv, RunTypeOK, upVars, cur
  <2>3. PlaceInv'
    BY <1>5, <2>1 DEF Inv, PlaceInv, upVars, InStage, OfStory
  <2>4. WalkInv'
    BY <1>5, <2>1 DEF Inv, WalkInv, upVars, InStage, OfStory
  <2>5. QED
    BY <1>5, <2>2, <2>3, <2>4 DEF Inv
<1>6. ASSUME NEW s \in Space, Edit(s) PROVE Inv'
  <2>1. /\ UNCHANGED <<root, order, terminal, carries, spread, ended, content, pin, health, releases, upVars>>
        /\ \E G \in [Space -> SUBSET {"skew", "edit"}] : head' = [t \in Space |-> head[t] \union G[t]]
    BY <1>6, EditDoes DEF Inv
  <2>2. OrgTypeOK' /\ OrdersInv'
    BY <2>1, GrownKeeps DEF Inv
  <2>3. QED
    BY <1>5, <2>1, <2>2
<1>7. ASSUME NEW i \in Story, MovesOn(i) PROVE Inv'
  <2>1. /\ root' = [root EXCEPT ![i] = "later"]
        /\ UNCHANGED <<order, terminal, carries, spread, ended, head, content, pin, health, releases, upVars>>
    BY <1>7 DEF MovesOn
  <2>2. OrgTypeOK'
    BY <2>1 DEF Inv, OrgTypeOK
  <2>3. OrdersInv'
    <3>1. TerminalInv'
      BY <2>1, TerminalSame DEF Inv, OrdersInv
    <3> QED BY <2>1, <3>1 DEF Inv, OrdersInv, OfStory, InStage
  <2>4. root[cur] # "old" => root'[cur] # "old"
    <3>1. cur \in Story
      BY Current DEF Inv
    <3>2. QED
      BY <2>1, <3>1 DEF Inv, OrgTypeOK
  <2>5. QED
    BY <1>5, <2>1, <2>2, <2>3, <2>4
<1>8. QED
  BY <1>2, <1>3, <1>4, <1>6, <1>7

LEMMA InvInit == Init => Inv
<1> SUFFICES ASSUME Init PROVE Inv
  OBVIOUS
<1>1. OrgTypeOK
  <2>1. head \in [Space -> SUBSET Change] /\ content \in [Space -> SUBSET Change]
    BY DEF Init, Change
  <2>2. ended \in [Story -> [Space -> SUBSET Change]]
    <3>1. [s \in Space |-> {}] \in [Space -> SUBSET Change]
      OBVIOUS
    <3>2. QED
      BY <3>1 DEF Init
  <2>3. pin \in [Space -> Story \union {"none"}]
    BY DEF Init
  <2>4. health \in [Space -> Health] /\ releases \in [Space -> Nat]
    BY DEF Init, Health
  <2>5. QED
    BY <2>1, <2>2, <2>3, <2>4 DEF Init, OrgTypeOK
<1>2. RunTypeOK
  <2>1. 1 \in DOMAIN Stories /\ 0 \in 0 .. MaxRuns /\ 0 \in 0 .. MaxEvents
    BY Basics
  <2>2. at \in At /\ at \notin Landing /\ climb \in Nat \ {0} /\ todo \subseteq Space
    BY DEF Init, At, Landing
  <2>3. QED
    BY <2>1, <2>2 DEF Init, RunTypeOK
<1>3. OrdersInv
  <2>1. \A i \in Story : InStage(i, LastStage[i]) # {} => \E s \in Space : s \in InStage(i, LastStage[i])
    BY DEF InStage, OfStory
  <2>2. \A s \in Space, i \in Story : pin[s] # i
    BY Basics DEF Init
  <2>3. TerminalInv
    BY <2>1, <2>2 DEF Init, TerminalInv
  <2> QED BY <2>2, <2>3 DEF Init, OrdersInv
<1>4. PlaceInv /\ WalkInv
  BY DEF Init, PlaceInv, WalkInv, Telling, Landing, Pools
<1>5. QED
  BY <1>1, <1>2, <1>3, <1>4 DEF Inv

LEMMA InvStep == Inv /\ [Next]_vars => Inv'
<1> SUFFICES ASSUME Inv, [Next]_vars PROVE Inv'
  OBVIOUS
<1>1. CASE PoolCall
  <2>1. PICK s \in todo : Call(s)
    BY <1>1 DEF PoolCall
  <2>2. at \in Pools /\ failed' \in BOOLEAN /\ (failed => failed') /\ events' \in 0 .. MaxEvents
        /\ UNCHANGED <<at, phases, turn, climb, ran, outcome, runs>>
    BY <1>1 DEF PoolCall, Pools, Inv, RunTypeOK
  <2>3. QED
    BY <2>1, <2>2, CallKeeps
<1>2. CASE UNCHANGED vars
  <2>1. OrgTypeOK' /\ OrdersInv'
    BY <1>2, SameOrg DEF vars, Inv
  <2>2. RunTypeOK' /\ PlaceInv'
    BY <1>2 DEF vars, orgVars, upVars, Inv, RunTypeOK, PlaceInv, cur, InStage, OfStory
  <2>3. WalkInv'
    BY <1>2 DEF vars, orgVars, upVars, Inv, WalkInv, cur, InStage, OfStory
  <2> QED BY <2>1, <2>2, <2>3 DEF Inv
<1>3. CASE Up
  BY <1>3, UpKeeps
<1>4. CASE Step
  BY <1>1, <1>4, PhaseKeeps, BeginKeeps, PromotesKeep, ReleaseKeeps, EndsKeep DEF Step
<1>5. QED
  BY <1>2, <1>3, <1>4, EventsKeep DEF Next

\* Whatever is run, cut short and changed: what the server keeps is what it
\* can, and a run is where up's phases can be (releases.go, livestatus.go,
\* stories.go); a story is never walked past the stage it landed through.
THEOREM TypeCorrect == Spec => []TypeOK
<1>1. Spec => []Inv
  BY InvInit, InvStep, PTL DEF Spec
<1>2. Inv => TypeOK
  BY Types DEF Inv
<1>3. QED
  BY <1>1, <1>2, PTL

\* The stage before the one to be promoted into is released and healthy.
LEMMA OpenGates ==
  ASSUME Inv, at = "promote"
  PROVE  GatesHold(cur, climb)
<1> SUFFICES ASSUME climb > 2, NEW s \in InStage(cur, climb - 1)
             PROVE  cur \in content[s] /\ health[s] = "healthy"
  BY DEF GatesHold
<1>1. cur \in Story /\ climb \in Nat
  BY Current DEF Inv
<1>2. s \in OfStory(cur) /\ StageOf[s] < climb
  BY <1>1 DEF InStage
<1>3. QED
  BY <1>2 DEF Inv, WalkInv, Landing

\* walk (stories.go) comes to a stage's promotion with its gates open: it has
\* released the stage before and reported it healthy, so none is refused.
THEOREM GatesAreOpen == Spec => []NeverRefused
<1>1. Spec => []Inv
  BY InvInit, InvStep, PTL DEF Spec
<1>2. Inv => NeverRefused
  BY OpenGates DEF NeverRefused
<1>3. QED
  BY <1>1, <1>2, PTL

\* What a step does to the spaces, and which orders it may touch.
LEMMA SpacesSteps ==
  ASSUME Inv, [Next]_vars
  PROVE  /\ \/ UNCHANGED <<terminal, ended, head, content, pin, health, releases>>
               /\ \A i \in Story : order'[i] # order[i] => at = "order" /\ i = cur /\ order[i] = "none"
            \/ at \in Pools /\ UNCHANGED <<at, turn, climb>> /\ \E s \in todo : Call(s)
            \/ at = "promote" /\ climb > 1 /\ UNCHANGED <<spread, turn, climb>>
               /\ \E S \in SUBSET InStage(cur, climb) : PromoteInto(cur, S)
            \/ /\ SkewSpaces \/ \E s \in Space : Edit(s)
               /\ UNCHANGED <<root, order, terminal, carries, spread, ended, content, pin, health, releases>>
               /\ \E G \in [Space -> SUBSET {"skew", "edit"}] : head' = [s \in Space |-> head[s] \union G[s]]
         /\ at \in Landing => (carries[cur] /\ spread[cur]) \/ climb = 1
<1>0. cur \in Story /\ climb \in Nat /\ climb >= 1
  BY Current DEF Inv
<1>1. at \in Landing => (carries[cur] /\ spread[cur]) \/ climb = 1
  BY <1>0 DEF Inv, PlaceInv, OrdersInv
<1>2. CASE \/ UNCHANGED vars \/ Up \/ ReleasesPhase \/ LiveStatusPhase \/ ReleaseStage \/ Shipped \/ PoolEnds
           \/ Interrupted \/ MakeChange \/ \E i \in Story : MovesOn(i)
  <2>1. UNCHANGED <<order, terminal, ended, head, content, pin, health, releases>>
    <3>1. CASE Up
      BY <3>1, UpDoes DEF orgVars
    <3>2. CASE ~Up
      BY <1>2, <3>2 DEF vars, orgVars, ReleasesPhase, LiveStatusPhase, ReleaseStage, Shipped, PoolEnds,
                        Interrupted, MakeChange, MovesOn
    <3>3. QED
      BY <3>1, <3>2
  <2>2. QED
    BY <1>1, <2>1
<1>3. CASE EnsureOrder
  <2>1. at = "order" /\ UNCHANGED <<terminal, ended, head, content, pin, health, releases>>
    BY <1>3 DEF EnsureOrder, orgVars
  <2>2. UNCHANGED order \/ (order[cur] = "none" /\ order' = [order EXCEPT ![cur] = "moving"])
    BY <1>3 DEF EnsureOrder, orgVars
  <2>3. \A i \in Story : order'[i] # order[i] => i = cur /\ order[i] = "none"
    BY <2>2 DEF Inv, OrgTypeOK
  <2>4. QED
    BY <1>1, <2>1, <2>3
<1>4. CASE Promote
  <2>1. at = "promote"
    BY <1>4 DEF Promote
  <2>2. CASE climb > 1 /\ PromoteInto(cur, InStage(cur, climb)) /\ UNCHANGED <<spread, turn, climb>>
    BY <1>1, <2>1, <2>2
  <2>3. CASE UNCHANGED <<order, terminal, ended, head, content, pin, health, releases>>
    BY <1>1, <2>3
  <2>4. QED
    BY <1>4, <2>2, <2>3 DEF Promote, orgVars
<1>5. CASE PoolCall
  BY <1>1, <1>5 DEF PoolCall, Pools
<1>6. CASE PoolCallFails
  <2>1. at \in Pools /\ UNCHANGED <<at, turn, climb>>
    BY <1>6 DEF PoolCallFails, Pools
  <2>2. (\E s \in todo : Call(s)) \/ UNCHANGED <<order, terminal, ended, head, content, pin, health, releases>>
    BY <1>6 DEF PoolCallFails, orgVars
  <2>3. QED
    BY <1>1, <2>1, <2>2
<1>7. CASE PromotesInPart
  BY <1>1, <1>7 DEF PromotesInPart
<1>8. CASE SkewSpaces
  <2> DEFINE G == [s \in Space |-> IF s \in Skewed THEN {"skew"} ELSE {}]
  <2>1. /\ head' = [s \in Space |-> IF s \in Skewed THEN head[s] \union {"skew"} ELSE head[s]]
        /\ UNCHANGED <<root, order, terminal, carries, spread, ended, content, pin, health, releases>>
    BY <1>8 DEF SkewSpaces
  <2>2. G \in [Space -> SUBSET {"skew", "edit"}] /\ head' = [s \in Space |-> head[s] \union G[s]]
    BY <2>1
  <2> HIDE DEF G
  <2>3. QED
    BY <1>1, <1>8, <2>1, <2>2
<1>9. CASE \E s \in Space : Edit(s)
  BY <1>1, <1>9, EditDoes DEF Inv
<1>10. QED
  BY <1>2, <1>3, <1>4, <1>5, <1>6, <1>7, <1>8, <1>9 DEF Next, Step

\* What a call of a pool does to the spaces.
LEMMA CallSpaces ==
  ASSUME Inv, at \in Pools, NEW s \in todo, Call(s)
  PROVE  /\ s \in Space /\ UNCHANGED <<root, carries, spread, ended, head>> /\ todo' = todo \ {s}
         /\ \A t \in Space : t # s => content'[t] = content[t] /\ health'[t] = health[t]
                                      /\ pin'[t] = pin[t] /\ releases'[t] = releases[t]
         /\ \A i \in Story : terminal'[i] <=> \/ terminal[i]
                                              \/ /\ at = "ship" /\ i = cur
                                                 /\ \A t \in InStage(i, LastStage[i]) : pin'[t] = i
         /\ at = "publish" => content'[s] = head[s] /\ UNCHANGED order
         /\ at = "ship" => /\ s \in InStage(cur, climb) /\ ended[cur][s] # {}
                           /\ content'[s] = ended[cur][s] /\ UNCHANGED order
                           /\ pin'[s] = cur
         /\ at \notin {"publish", "ship"} => /\ UNCHANGED <<content, pin, releases>>
                                             /\ health'[s] = Observation(at, s)
                                             /\ \A i \in Story : order'[i] =
                                                  IF order[i] = "moving" /\ terminal[i] /\ \A t \in InStage(i, LastStage[i]) :
                                                       pin[t] = i /\ health'[t] = "healthy"
                                                  THEN "completed" ELSE order[i]
<1>0. cur \in Story /\ s \in Space /\ todo' = todo \ {s}
  BY Current DEF Inv, Call
<1>1. CASE at = "publish" /\ Bundle(s, "none")
  <2>1. UNCHANGED <<root, order, carries, spread, ended, head>> /\ content'[s] = head[s]
        /\ \A t \in Space : t # s => content'[t] = content[t] /\ health'[t] = health[t] /\ pin'[t] = pin[t]
                                     /\ releases'[t] = releases[t]
    BY <1>0, <1>1, BundleKeeps DEF Inv
  <2>2. \A i \in Story : terminal'[i] <=> terminal[i]
    <3>1. "none" \notin Story
      OBVIOUS
    <3> QED BY <1>0, <1>1, <3>1, BundleKeeps DEF Inv
  <2>3. QED
    BY <1>0, <1>1, <2>1, <2>2
<1>2. CASE at = "ship" /\ Bundle(s, cur)
  <2>1. s \in InStage(cur, climb) /\ s \in OfStory(cur) /\ ended[cur][s] # {} /\ order[cur] # "none"
    BY <1>2 DEF Inv, PlaceInv, WalkInv, InStage, Landing
  <2>2. UNCHANGED <<root, order, carries, spread, ended, head>> /\ content'[s] = ended[cur][s] /\ pin'[s] = cur
        /\ \A t \in Space : t # s => content'[t] = content[t] /\ health'[t] = health[t] /\ pin'[t] = pin[t]
                                     /\ releases'[t] = releases[t]
    BY <1>0, <1>2, <2>1, BundleKeeps DEF Inv
  <2>3. \A i \in Story : terminal'[i] <=>
          terminal[i] \/ (i = cur /\ \A t \in InStage(i, LastStage[i]) : pin'[t] = i)
    BY <1>0, <1>2, <2>1, BundleKeeps DEF Inv
  <2>4. QED
    BY <1>0, <1>2, <2>1, <2>2, <2>3
<1>3. CASE at \notin {"publish", "ship"} /\ Observed(s, Observation(at, s))
  <2>1. Observation(at, s) \in Health
    BY Observations DEF Health
  <2>2. /\ UNCHANGED <<root, terminal, carries, spread, ended, head, content, pin, releases>>
        /\ health'[s] = Observation(at, s) /\ \A t \in Space : t # s => health'[t] = health[t]
        /\ \A i \in Story : order'[i] = IF order[i] = "moving" /\ terminal[i] /\ \A t \in InStage(i, LastStage[i]) :
                                              pin[t] = i /\ health'[t] = "healthy"
                                        THEN "completed" ELSE order[i]
    BY <1>0, <1>3, <2>1, ObservedKeeps DEF Inv
  <2>3. QED
    BY <1>0, <1>3, <2>2
<1>4. QED
  BY <1>1, <1>2, <1>3, CallDoes

-----------------------------------------------------------------------------
(* Class by class *)

\* Two stories have no space in common.
LEMMA OneStoryEach ==
  ASSUME Apart, NEW i \in Story, NEW k \in Story, NEW s, s \in OfStory(i), s \in OfStory(k)
  PROVE  i = k
<1>1. PICK j \in DOMAIN Stories : i = Stories[j]
  BY DEF Story
<1>2. PICK l \in DOMAIN Stories : k = Stories[l]
  BY DEF Story
<1>3. ComponentOf[i] = ComponentOf[k]
  BY DEF OfStory
<1>4. j = l
  BY <1>1, <1>2, <1>3 DEF Apart
<1>5. QED
  BY <1>1, <1>2, <1>4

\* No Release loses the change of a story of its space.
LEMMA ContentKeeps ==
  ASSUME Apart, Inv, [Next]_vars, NEW i \in Story, NEW t \in OfStory(i), i \in content[t]
  PROVE  i \in content'[t]
<1>0. cur \in Story /\ t \in Space /\ content[t] \subseteq head[t]
  BY Current DEF Inv, OrdersInv, OfStory, InStage
<1>1. CASE UNCHANGED content
  BY <1>1
<1>2. ASSUME at \in Pools, NEW s \in todo, Call(s) PROVE i \in content'[t]
  <2>1. CASE t # s \/ at \notin {"publish", "ship"}
    BY <1>0, <1>2, <2>1, CallSpaces
  <2>2. CASE t = s /\ at = "publish"
    BY <1>0, <1>2, <2>2, CallSpaces
  <2>3. CASE t = s /\ at = "ship"
    <3>1. s \in OfStory(cur) /\ ended[cur][s] # {} /\ content'[s] = ended[cur][s]
      BY <1>2, <2>3, CallSpaces DEF InStage
    <3>2. i = cur
      BY <1>0, <2>3, <3>1, OneStoryEach
    <3>3. QED
      BY <1>0, <2>3, <3>1, <3>2 DEF Inv, OrdersInv
  <2>4. QED
    BY <2>1, <2>2, <2>3
<1>3. CASE at = "promote" /\ \E S \in SUBSET InStage(cur, climb) : PromoteInto(cur, S)
  <2>1. UNCHANGED content
    BY <1>3 DEF PromoteInto
  <2>2. QED
    BY <2>1
<1>4. QED
  BY <1>1, <1>2, <1>3, SpacesSteps

\* Where a change is, every class before has it in its latest Release.
ClassInv ==
  \A i \in Story : \A s, t \in OfStory(i) :
    i \in head[s] /\ StageOf[t] < StageOf[s] => i \in content[t]

LEMMA ClassStep ==
  ASSUME Apart, Inv, ClassInv, [Next]_vars
  PROVE  ClassInv'
<1> SUFFICES ASSUME NEW i \in Story, NEW s \in OfStory(i), NEW t \in OfStory(i),
                    i \in head'[s], StageOf[t] < StageOf[s]
             PROVE  i \in content'[t]
  BY DEF ClassInv, OfStory
<1>0. cur \in Story /\ s \in Space /\ climb \in Nat /\ climb >= 1
  BY Current DEF Inv, OfStory
<1>1. CASE i \in head[s]
  BY <1>1, ContentKeeps DEF ClassInv
<1>2. CASE i \notin head[s]
  <2>1. ~UNCHANGED head
    BY <1>2
  <2>2. ~(at \in Pools /\ \E u \in todo : Call(u))
    BY <2>1, CallSpaces
  <2>3. ASSUME NEW G \in [Space -> SUBSET {"skew", "edit"}], head' = [u \in Space |-> head[u] \union G[u]]
        PROVE  FALSE
    <3>1. i \in G[s] /\ G[s] \subseteq {"skew", "edit"}
      BY <1>0, <1>2, <2>3
    <3>2. QED
      BY <3>1
  <2>4. at = "promote" /\ climb > 1 /\ UNCHANGED spread /\ \E S \in SUBSET InStage(cur, climb) : PromoteInto(cur, S)
    BY <2>1, <2>2, <2>3, SpacesSteps
  <2>5. PICK S \in SUBSET InStage(cur, climb) : PromoteInto(cur, S)
    BY <2>4
  <2>6. at \in Landing /\ carries[cur] /\ spread[cur]
    BY <1>0, <2>4, SpacesSteps DEF Landing
  <2>7. \A u \in Space : head'[u] = IF u \in S /\ ended[cur][u] = {} THEN head[u] \union {cur} ELSE head[u]
    BY <2>4, <2>5, <2>6, PromoteKeeps DEF Inv
  <2>8. i = cur /\ s \in S
    <3>1. head'[s] = IF s \in S /\ ended[cur][s] = {} THEN head[s] \union {cur} ELSE head[s]
      BY <1>0, <2>7
    <3> QED BY <1>0, <1>2, <3>1
  <2>9. StageOf[t] < climb
    BY <2>8 DEF InStage
  <2>10. QED
    BY <2>6, <2>8, <2>9, ContentKeeps DEF Inv, WalkInv
<1>3. QED
  BY <1>1, <1>2

LEMMA ClassInit == Init => ClassInv
<1> SUFFICES ASSUME Init PROVE ClassInv
  OBVIOUS
<1>1. \A i \in Story : \A s \in OfStory(i) : i \notin head[s]
  BY DEF Init, OfStory
<1>2. QED
  BY <1>1 DEF ClassInv

\* Class by class, over failures half way through a stage and phases that
\* publish in between: a change is in a class only when every deployment of
\* the class before runs it, as long as no two stories are of one component.
THEOREM ClassAfterClass == Apart => (Spec => []ClassByClass)
<1> SUFFICES ASSUME Apart PROVE Spec => []ClassByClass
  OBVIOUS
<1> DEFINE I == Inv /\ ClassInv
<1>1. Init => I
  BY InvInit, ClassInit
<1>2. I /\ [Next]_vars => I'
  BY InvStep, ClassStep
<1>3. I => ClassByClass
  <2> SUFFICES ASSUME I, NEW i \in Story, NEW s \in OfStory(i), NEW t \in OfStory(i),
                      i \in head[s], StageOf[t] = StageOf[s] - 1
               PROVE  i \in content[t]
    BY DEF ClassByClass
  <2>1. StageOf[t] < StageOf[s]
    BY Basics DEF OfStory
  <2>2. QED
    BY <2>1 DEF ClassInv
<1> HIDE DEF I
<1>4. Spec => []I
  BY <1>1, <1>2, PTL DEF Spec
<1>5. QED
  BY <1>3, <1>4, PTL

-----------------------------------------------------------------------------
(* Where the stories stand *)

\* What a run has told stands: every class through the story's stage runs its
\* change, healthy but for what the story degrades as long as its order is not
\* terminal: of one that is, the walk is skipped, whatever was reported.
Landed(i) ==
  \A s \in OfStory(i) : StageOf[s] <= LandedThrough[i] =>
    /\ i \in content[s]
    /\ order[i] = "moving" /\ ~terminal[i] => health[s] = IF s \in Degrade[i] THEN "degraded" ELSE "healthy"

Told(j) == (at \in Telling /\ j < turn) \/ Finished

LandedInv ==
  /\ \A j \in DOMAIN Stories : Told(j) => Landed(Stories[j])
  /\ \A i \in Story : terminal[i] =>
       \A s \in OfStory(i) : StageOf[s] <= LandedThrough[i] => i \in content[s]

\* What is terminal stays so, and comes to it by a Release of the story in hand.
LEMMA TerminalSteps ==
  ASSUME Inv, [Next]_vars, NEW i \in Story
  PROVE  /\ terminal[i] => terminal'[i]
         /\ terminal'[i] # terminal[i] => \A t \in InStage(i, LastStage[i]) : pin'[t] = i
<1>1. terminal[i] \in BOOLEAN /\ (Inv' => terminal'[i] \in BOOLEAN)
  BY DEF Inv, OrgTypeOK
<1>2. ASSUME at \in Pools, NEW s \in todo, Call(s)
      PROVE  terminal'[i] <=> terminal[i] \/ (at = "ship" /\ i = cur /\ \A t \in InStage(i, LastStage[i]) : pin'[t] = i)
  BY <1>2, CallSpaces
<1>3. (terminal'[i] <=> terminal[i]) => terminal'[i] = terminal[i]
  <2>1. terminal'[i] \in BOOLEAN
    BY <1>1, InvStep
  <2> QED BY <1>1, <2>1
<1> QED BY <1>1, <1>2, <1>3, SpacesSteps DEF PromoteInto

\* A terminal order was landed through its last stage, and so through all.
LEMMA TerminalStep ==
  ASSUME Apart, Inv, ClassInv, LandedInv, [Next]_vars,
         NEW i \in Story, terminal'[i], NEW s \in OfStory(i), StageOf[s] <= LandedThrough[i]
  PROVE  i \in content'[s]
<1>1. CASE terminal[i]
  BY <1>1, ContentKeeps DEF LandedInv
<1>2. CASE ~terminal[i]
  <2>1. \A t \in InStage(i, LastStage[i]) : pin'[t] = i
    BY <1>2, TerminalSteps
  <2>2. Inv' /\ ClassInv'
    BY InvStep, ClassStep
  <2>3. \A t \in InStage(i, LastStage[i]) : t \in OfStory(i) /\ t \in Space /\ StageOf[t] = LastStage[i]
    BY DEF InStage, OfStory
  <2>4. \A t \in InStage(i, LastStage[i]) : i \in content'[t] /\ i \in head'[t]
    BY <2>1, <2>2, <2>3 DEF Inv, OrdersInv
  <2>5. StageOf[s] \in Nat /\ LastStage[i] \in Nat /\ StageOf[s] <= LastStage[i]
    BY Basics DEF OfStory
  <2>6. CASE StageOf[s] = LastStage[i]
    BY <2>4, <2>6 DEF InStage
  <2>7. CASE StageOf[s] < LastStage[i]
    <3>1. PICK t \in InStage(i, LastStage[i]) : TRUE
      BY LastOfStory
    <3>2. \A x, y \in OfStory(i) : i \in head'[x] /\ StageOf[y] < StageOf[x] => i \in content'[y]
      BY <2>2 DEF ClassInv, OfStory
    <3> QED BY <2>3, <2>4, <2>7, <3>1, <3>2
  <2> QED BY <2>5, <2>6, <2>7
<1> QED BY <1>1, <1>2

\* On from the last of a story: what is told next is what was, and the story.
LEMMA StoryTold ==
  ASSUME Inv, at \in Telling, NextStory, NEW j \in DOMAIN Stories, Told(j)'
  PROVE  Told(j) \/ j = turn
<1>1. phases = {} /\ turn \in DOMAIN Stories
  BY DEF Inv, PlaceInv, RunTypeOK
<1>2. \/ turn = Len(Stories)
      \/ turn' = turn + 1 /\ at' = "stories"
  BY <1>1, NextDoes
<1>3. j \in Nat /\ turn \in Nat /\ j <= Len(Stories) /\ turn <= Len(Stories)
  BY <1>1, Basics
<1>4. CASE turn = Len(Stories)
  BY <1>3, <1>4 DEF Told
<1>5. CASE turn' = turn + 1 /\ at' = "stories"
  <2>1. j < turn + 1
    BY <1>5 DEF Told, Finished
  <2>2. QED
    BY <1>3, <2>1 DEF Told
<1>6. QED
  BY <1>2, <1>4, <1>5

\* A walk that is over: the story stands where it landed.
LEMMA WalkTold ==
  ASSUME Inv, at \in Landing, Walk, NEW j \in DOMAIN Stories, Told(j)',
         \A t \in OfStory(cur) : StageOf[t] <= climb => cur \in content[t] /\ health[t] = "healthy"
  PROVE  Told(j) \/ (j = turn /\ Landed(cur))
<1>1. climb <= LandedThrough[cur] /\ climb \in Nat /\ cur \in Story /\ at \in Telling
  BY Current DEF Inv, RunTypeOK, Telling
<1>2. CASE at' \in {"promote", "degrade"} /\ turn' = turn
  BY <1>1, <1>2 DEF Told, Finished
<1>3. CASE climb = LandedThrough[cur] /\ Degrade[cur] = {} /\ NextStory
  <2>1. Told(j) \/ j = turn
    BY <1>1, <1>3, StoryTold
  <2>2. Landed(cur)
    BY <1>3 DEF Landed
  <2>3. QED
    BY <2>1, <2>2
<1>4. QED
  BY <1>1, <1>2, <1>3, WalkDoes

\* On to the stories, or past phases that are not: nothing is told.
LEMMA GoOnTells ==
  ASSUME Inv, at \notin Telling \union {"off"}, GoOn(phases), UNCHANGED <<turn, ran>>, NEW j \in DOMAIN Stories
  PROVE  ~Told(j)'
<1>1. phases \in SUBSET {"releases", "livestatus", "stories"} /\ turn = 1 /\ ("stories" \in ran => "stories" \in phases)
  BY DEF Inv, PlaceInv, RunTypeOK
<1>2. (at' = "off" /\ phases = {}) \/ at' \in phases
  BY <1>1, GoOnDoes
<1>3. j \in Nat /\ j >= 1
  BY Basics
<1>4. QED
  BY <1>1, <1>2, <1>3 DEF Told, Finished

LEMMA ToldStep ==
  ASSUME Inv, LandedInv, Next, NEW j \in DOMAIN Stories, Told(j)'
  PROVE  Told(j) \/ (j = turn /\ Landed(cur) /\ UNCHANGED <<order, terminal, content, health>>)
<1>0. cur \in Story /\ \A t \in OfStory(cur) : StageOf[t] \in Nat /\ StageOf[t] >= 2
  BY Current, Basics DEF Inv
<1>1. ASSUME at' = "off", outcome' # "ok" PROVE FALSE
  BY <1>1 DEF Told, Finished, Telling, Landing
<1>2. CASE Up
  <2>1. at' \in {"releases", "livestatus", "stories"} /\ turn' = 1 /\ outcome' = "running"
    BY <1>2, UpDoes
  <2>2. j \in Nat /\ j >= 1
    BY Basics
  <2>3. QED
    BY <2>1, <2>2 DEF Told, Finished
<1>3. ASSUME at \notin Telling \union {"off"}, GoOn(phases), UNCHANGED <<turn, ran>> PROVE FALSE
  BY <1>3, GoOnTells
<1>4. CASE ReleasesPhase \/ LiveStatusPhase
  BY <1>4 DEF ReleasesPhase, LiveStatusPhase, BeginReport, Told, Finished, Telling, Landing
<1>5. CASE SkewSpaces
  BY <1>3, <1>5 DEF SkewSpaces, Telling, Landing
<1>6. ASSUME at \in Telling, at' \in Telling, turn' = turn PROVE Told(j)
  BY <1>6 DEF Told, Finished, Telling, Landing
<1>7. CASE MakeChange \/ ReleaseStage \/ Shipped
  BY <1>6, <1>7 DEF MakeChange, ReleaseStage, Shipped, BeginReport, Telling, Landing
<1>8. CASE EnsureOrder
  <2>1. at \in Telling
    BY <1>8 DEF EnsureOrder, Telling
  <2>2. CASE terminal[cur] /\ NextStory /\ UNCHANGED orgVars
    <3>1. Landed(cur)
      BY <1>0, <2>2 DEF LandedInv, Landed
    <3>2. QED
      BY <2>1, <2>2, <3>1, StoryTold DEF orgVars
  <2>3. CASE at' = "promote" /\ turn' = turn
    BY <1>6, <2>1, <2>3 DEF Telling, Landing
  <2>4. QED
    BY <1>8, <2>2, <2>3 DEF EnsureOrder
<1>9. CASE Promote
  <2>1. at \in Telling /\ at \in Landing
    BY <1>9 DEF Promote, Telling, Landing
  <2>2. CASE Stop("failed")
    BY <1>1, <2>2 DEF Stop
  <2>3. CASE climb = 1 /\ Walk /\ UNCHANGED <<order, terminal, content, health>>
    <3>1. \A t \in OfStory(cur) : ~(StageOf[t] <= climb)
      BY <1>0, <2>3
    <3>2. Told(j) \/ (j = turn /\ Landed(cur))
      BY <2>1, <2>3, <3>1, WalkTold
    <3>3. QED
      BY <2>3, <3>2
  <2>4. CASE at' = "stage" /\ turn' = turn
    BY <1>6, <2>1, <2>4 DEF Telling, Landing
  <2>5. QED
    BY <1>9, <2>2, <2>3, <2>4 DEF Promote
<1>10. CASE PoolCall \/ PoolCallFails \/ (\E s \in Space : Edit(s)) \/ (\E i \in Story : MovesOn(i))
  BY <1>10 DEF PoolCall, PoolCallFails, Edit, MovesOn, upVars, Told, Finished
<1>11. CASE PoolEnds
  <2>1. UNCHANGED <<order, terminal, content, health, ran>> /\ todo = {} /\ at \in Pools
    BY <1>11 DEF PoolEnds, orgVars, Pools
  <2>2. CASE Stop("failed")
    BY <1>1, <2>2 DEF Stop
  <2>3. CASE at' = "skew"
    BY <2>3 DEF Told, Finished, Telling, Landing
  <2>4. CASE at = "paint" /\ GoOn(phases) /\ UNCHANGED turn
    BY <1>3, <2>1, <2>4 DEF Telling, Landing
  <2>5. CASE ~failed /\ at = "settle" /\ Walk
    <3>1. climb \in Nat /\ at \in Landing
      BY <2>5, Current DEF Inv, Landing
    <3>2. \A t \in InStage(cur, climb) : cur \in content[t] /\ health[t] = "healthy"
      BY <2>1, <2>5 DEF Inv, WalkInv
    <3>3. \A t \in OfStory(cur) : StageOf[t] <= climb => cur \in content[t] /\ health[t] = "healthy"
      BY <1>0, <3>1, <3>2 DEF Inv, WalkInv, InStage
    <3>4. QED
      BY <2>1, <2>5, <3>1, <3>3, WalkTold
  <2>6. CASE ~failed /\ at = "degrade" /\ NextStory
    <3>1. Told(j) \/ j = turn
      BY <2>6, StoryTold DEF Telling, Landing
    <3>2. climb = LandedThrough[cur] /\ climb \in Nat
      BY <2>6, Current DEF Inv, PlaceInv
    <3>3. \A t \in InStage(cur, climb) : /\ cur \in content[t]
                                         /\ health[t] = IF t \in Degrade[cur] THEN "degraded" ELSE "healthy"
      BY <2>1, <2>6 DEF Inv, WalkInv
    <3>4. \A t \in OfStory(cur) : StageOf[t] < climb => cur \in content[t] /\ health[t] = "healthy"
      BY <2>6 DEF Inv, WalkInv, Landing
    <3>5. \A t \in Degrade[cur] : StageOf[t] = climb
      BY <1>0, <3>2, Basics DEF InStage
    <3>6. Landed(cur)
      BY <1>0, <3>2, <3>3, <3>4, <3>5 DEF Landed, InStage
    <3>7. QED
      BY <2>1, <3>1, <3>6
  <2>7. QED
    BY <1>11, <2>2, <2>3, <2>4, <2>5, <2>6 DEF PoolEnds
<1>12. CASE Interrupted \/ PromotesInPart
  BY <1>1, <1>12 DEF Interrupted, PromotesInPart, Stop
<1>13. \/ Up \/ ReleasesPhase \/ LiveStatusPhase \/ SkewSpaces \/ MakeChange \/ ReleaseStage \/ Shipped
       \/ EnsureOrder \/ Promote \/ PoolCall \/ PoolCallFails \/ PoolEnds \/ Interrupted \/ PromotesInPart
       \/ (\E s \in Space : Edit(s)) \/ (\E i \in Story : MovesOn(i))
  BY DEF Next, Step
<1>14. QED
  BY <1>2, <1>4, <1>5, <1>7, <1>8, <1>9, <1>10, <1>11, <1>12, <1>13

\* A story told stays as it was told, as long as the run tells others.
LEMMA ToldKeeps ==
  ASSUME Apart, Inv, ClassInv, LandedInv, [Next]_vars, NEW j \in DOMAIN Stories, Told(j)
  PROVE  Landed(Stories[j])'
<1> DEFINE i == Stories[j]
<1>0. i \in Story /\ cur \in Story /\ \A s \in OfStory(i) : s \in Space
  BY Current, Basics DEF Inv, OfStory
<1>1. Landed(i)
  BY DEF LandedInv
<1>2. at = "off" \/ (at \in Telling /\ i # cur)
  <2>1. ASSUME at \in Telling, j < turn PROVE i # cur
    <3>1. turn \in DOMAIN Stories /\ j # turn
      BY <2>1, Basics DEF Inv, RunTypeOK
    <3>2. QED
      BY <3>1 DEF Apart, cur
  <2>2. QED
    BY <2>1 DEF Told, Finished
<1> HIDE DEF i
<1>3. \A s \in OfStory(i) : s \notin OfStory(cur) \/ at = "off"
  BY <1>0, <1>2, OneStoryEach
<1>4. \A s \in OfStory(i) : StageOf[s] <= LandedThrough[i] => i \in content'[s]
  BY <1>0, <1>1, ContentKeeps DEF Landed
<1>t. terminal[i] => terminal'[i]
  BY <1>0, TerminalSteps
<1>5. /\ order'[i] = "moving" => order[i] = "moving"
      /\ \A s \in OfStory(i) : health'[s] = health[s]
  <2>1. CASE /\ UNCHANGED <<terminal, ended, head, content, pin, health, releases>>
             /\ \A k \in Story : order'[k] # order[k] => at = "order" /\ k = cur /\ order[k] = "none"
    BY <1>0, <1>2, <2>1
  <2>2. ASSUME at \in Pools, NEW s \in todo, Call(s)
        PROVE  /\ order'[i] = "moving" => order[i] = "moving"
               /\ \A t \in OfStory(i) : health'[t] = health[t]
    <3>1. at \in {"ship", "settle", "degrade"}
      BY <1>2, <2>2 DEF Pools, Telling, Landing
    <3>2. s \in OfStory(cur)
      <4>1. CASE at = "degrade"
        BY <1>0, <2>2, <4>1, Basics DEF Inv, PlaceInv, InStage
      <4>2. CASE at \in {"ship", "settle"}
        BY <2>2, <4>2 DEF Inv, PlaceInv, InStage
      <4>3. QED
        BY <3>1, <4>1, <4>2
    <3>3. \A t \in OfStory(i) : t # s
      BY <1>3, <3>1, <3>2
    <3>4. order'[i] = order[i] \/ order'[i] = "completed"
      BY <1>0, <2>2, <3>1, CallSpaces
    <3>5. QED
      BY <1>0, <2>2, <3>3, <3>4, CallSpaces
  <2>3. CASE UNCHANGED <<order, health>>
    BY <2>3
  <2>4. QED
    BY <2>1, <2>2, <2>3, SpacesSteps DEF PromoteInto
<1>6. Landed(i)'
  BY <1>1, <1>4, <1>t, <1>5 DEF Landed, OfStory
<1>7. QED
  BY <1>6 DEF i

LEMMA LandedStep ==
  ASSUME Apart, Inv, ClassInv, LandedInv, [Next]_vars
  PROVE  LandedInv'
<1>1. ASSUME NEW j \in DOMAIN Stories, Told(j)' PROVE Landed(Stories[j])'
  <2>1. CASE Told(j)
    BY <2>1, ToldKeeps
  <2>2. CASE ~Told(j)
    <3>1. ~UNCHANGED vars
      BY <1>1, <2>2 DEF vars, upVars, Told, Finished
    <3>2. j = turn /\ Landed(cur) /\ UNCHANGED <<order, terminal, content, health>>
      BY <1>1, <2>2, <3>1, ToldStep
    <3>3. QED
      BY <3>2 DEF Landed, OfStory, cur
  <2>3. QED
    BY <2>1, <2>2
<1>2. \A i \in Story : terminal'[i] =>
        \A s \in OfStory(i) : StageOf[s] <= LandedThrough[i] => i \in content'[s]
  BY TerminalStep
<1>3. QED
  BY <1>1, <1>2 DEF LandedInv, OfStory

LEMMA LandedInit == Init => LandedInv
<1> SUFFICES ASSUME Init PROVE LandedInv
  OBVIOUS
<1>1. \A j \in DOMAIN Stories : ~Told(j)
  BY DEF Init, Told, Finished, Telling, Landing
<1>2. \A i \in Story : ~terminal[i]
  BY DEF Init
<1>3. QED
  BY <1>1, <1>2 DEF LandedInv

\* "an interrupted run is resumed by running up again" (cmd/up.go): a run that
\* gets through the stories leaves each one released through its stage and no
\* further, whatever was cut short before, and healthy but for those it degrades
\* unless its order is terminal: only a story walked to its component's last
\* stage comes to that, and cut short before its report it never gets one.
THEOREM StoriesStandThen == Apart => (Spec => []StoriesStand)
<1> SUFFICES ASSUME Apart PROVE Spec => []StoriesStand
  OBVIOUS
<1> DEFINE I == Inv /\ ClassInv /\ LandedInv
<1>1. Init => I
  BY InvInit, ClassInit, LandedInit
<1>2. I /\ [Next]_vars => I'
  BY InvStep, ClassStep, LandedStep
<1>3. I => StoriesStand
  <2> SUFFICES ASSUME I, Finished, NEW i \in Story
               PROVE  /\ \A s \in OfStory(i) : StageOf[s] <= LandedThrough[i] <=> i \in content[s]
                      /\ terminal[i] => LandedThrough[i] = LastStage[i]
                      /\ order[i] = "moving" /\ ~terminal[i] => \A s \in OfStory(i) : StageOf[s] <= LandedThrough[i] =>
                           health[s] = IF s \in Degrade[i] THEN "degraded" ELSE "healthy"
    BY DEF StoriesStand
  <2>1. PICK j \in DOMAIN Stories : i = Stories[j]
    BY DEF Story
  <2>2. Landed(i)
    BY <2>1 DEF LandedInv, Told
  <2>3. \A s \in OfStory(i) : i \in content[s] => StageOf[s] <= LandedThrough[i]
    BY DEF Inv, OrdersInv, OfStory, InStage
  <2>4. terminal[i] => LandedThrough[i] = LastStage[i]
    BY DEF Inv, OrdersInv, TerminalInv
  <2>5. QED
    BY <2>2, <2>3, <2>4 DEF Landed
<1> HIDE DEF I
<1>4. Spec => []I
  BY <1>1, <1>2, PTL DEF Spec
<1>5. QED
  BY <1>3, <1>4, PTL

-----------------------------------------------------------------------------
(* What is published *)

\* A skewed space has a Release before it is skewed; what `releases` publishes
\* of the skewed has none.
SkewInv ==
  /\ \A s \in Skewed : "skew" \notin content[s]
  /\ \A s \in Skewed : "skew" \in head[s] => s \in Unreleased \/ content[s] # {}
  /\ at = "publish" => \A s \in todo \intersect Skewed : content[s] = {}
  /\ at = "publish" /\ ~failed => \A s \in Skewed \ Unreleased : s \in todo \/ content[s] # {}
  /\ at = "skew" => \A s \in Skewed \ Unreleased : content[s] # {}

\* What was released stays so.
LEMMA NotEmptied ==
  ASSUME Inv, [Next]_vars, NEW s \in Space, content[s] # {}
  PROVE  content'[s] # {}
<1>0. cur \in Story /\ head[s] # {}
  BY Current DEF Inv, OrdersInv
<1>1. ASSUME at \in Pools, NEW u \in todo, Call(u) PROVE content'[s] # {}
  BY <1>0, <1>1, CallSpaces DEF Pools
<1>2. QED
  BY <1>1, SpacesSteps DEF PromoteInto

\* How a step comes to a pool that publishes, and to skewing.
LEMMA ToPools ==
  ASSUME Inv, [Next]_vars
  PROVE  /\ at' \in {"publish", "ship"} =>
              \/ at' = at /\ UNCHANGED <<turn, climb, todo, failed, content>>
              \/ at' = at /\ UNCHANGED <<turn, climb>> /\ (failed => failed') /\ \E s \in todo : Call(s)
              \/ at' = at /\ UNCHANGED <<turn, climb, content>> /\ failed' /\ todo' \subseteq todo
              \/ at' = "publish" /\ todo' = ToPublish /\ UNCHANGED orgVars
              \/ at' = "ship" /\ todo' = {s \in InStage(cur, climb) : Pending(s)} /\ UNCHANGED <<orgVars, turn, climb>>
         /\ at' = "skew" => UNCHANGED content /\ (at = "skew" \/ (at = "publish" /\ todo = {} /\ ~failed))
<1> DEFINE Elsewhere == at' \notin {"publish", "ship", "skew"}
<1>0. turn \in DOMAIN Stories /\ cur \in Story /\ climb \in Nat /\ phases \in SUBSET {"releases", "livestatus", "stories"}
      /\ (at \in Telling => phases = {}) /\ (at \in Landing => climb <= LandedThrough[cur])
  BY Current DEF Inv, RunTypeOK, PlaceInv
<1>1. ASSUME GoOn(phases) PROVE Elsewhere
  BY <1>0, <1>1, GoOnDoes
<1>2. ASSUME NextStory, at \in Telling PROVE Elsewhere
  BY <1>0, <1>2, NextDoes
<1>3. ASSUME Walk, at \in Landing PROVE Elsewhere
  BY <1>0, <1>2, <1>3, WalkDoes DEF Telling
<1>4. CASE Up
  <2>1. at' \in {"releases", "livestatus", "stories"}
    BY <1>4, UpDoes
  <2>2. QED
    BY <2>1
<1>5. CASE ReleasesPhase \/ LiveStatusPhase \/ MakeChange \/ ReleaseStage \/ Shipped
  BY <1>5 DEF ReleasesPhase, LiveStatusPhase, MakeChange, ReleaseStage, Shipped, BeginReport
<1>6. CASE SkewSpaces
  BY <1>1, <1>6 DEF SkewSpaces
<1>7. CASE EnsureOrder
  <2>1. at \in Telling /\ (NextStory \/ at' = "promote")
    BY <1>7 DEF EnsureOrder, Telling
  <2>2. QED
    BY <1>2, <2>1
<1>8. CASE Promote
  <2>1. at \in Landing /\ (Stop("failed") \/ Walk \/ at' = "stage")
    BY <1>8 DEF Promote, Landing
  <2>2. QED
    BY <1>3, <2>1 DEF Stop
<1>9. CASE PoolCall
  BY <1>9 DEF PoolCall
<1>10. CASE PoolCallFails
  <2>1. failed' = TRUE /\ UNCHANGED <<at, turn, climb>> /\ at \in {"publish", "ship", "paint", "settle", "degrade"}
    BY <1>10 DEF PoolCallFails
  <2>2. PICK s \in todo : Call(s) \/ (todo' = todo \ {s} /\ UNCHANGED orgVars)
    BY <1>10 DEF PoolCallFails
  <2>3. QED
    BY <2>1, <2>2 DEF orgVars
<1>11. CASE PoolEnds
  <2>1. \/ Stop("failed") \/ (at = "publish" /\ at' = "skew" /\ ~failed) \/ GoOn(phases)
        \/ (at \in Landing /\ Walk) \/ (at \in Telling /\ NextStory)
    BY <1>11 DEF PoolEnds, Landing, Telling
  <2>2. todo = {} /\ UNCHANGED content
    BY <1>11 DEF PoolEnds, orgVars
  <2>3. QED
    BY <1>1, <1>2, <1>3, <2>1, <2>2 DEF Stop
<1>12. CASE Interrupted \/ PromotesInPart
  BY <1>12 DEF Interrupted, PromotesInPart, Stop
<1>13. CASE (\E s \in Space : Edit(s)) \/ (\E i \in Story : MovesOn(i)) \/ UNCHANGED vars
  BY <1>13 DEF Edit, MovesOn, upVars, vars, orgVars
<1>14. \/ Up \/ ReleasesPhase \/ LiveStatusPhase \/ SkewSpaces \/ MakeChange \/ ReleaseStage \/ Shipped
       \/ EnsureOrder \/ Promote \/ PoolCall \/ PoolCallFails \/ PoolEnds \/ Interrupted \/ PromotesInPart
       \/ (\E s \in Space : Edit(s)) \/ (\E i \in Story : MovesOn(i)) \/ UNCHANGED vars
  BY DEF Next, Step
<1>15. QED
  BY <1>4, <1>5, <1>6, <1>7, <1>8, <1>9, <1>10, <1>11, <1>12, <1>13, <1>14

\* No story reaches a skewed space, so none is published for it.
LEMMA UnreachedSkew ==
  ASSUME SkewsUnreached, Inv, NEW s \in Skewed, at = "ship"
  PROVE  s \notin todo
<1> SUFFICES ASSUME s \in todo PROVE FALSE
  OBVIOUS
<1>1. s \in OfStory(cur) /\ StageOf[s] = climb
  BY DEF Inv, PlaceInv, InStage
<1>2. climb <= LandedThrough[cur] /\ cur \in Story /\ climb \in Nat /\ LandedThrough[cur] \in Nat
  BY Current, Basics DEF Inv, RunTypeOK, Landing
<1>3. QED
  BY <1>1, <1>2 DEF SkewsUnreached

LEMMA SkewStep ==
  ASSUME SkewsUnreached, Inv, SkewInv, [Next]_vars
  PROVE  SkewInv'
<1>0. cur \in Story /\ \A s \in Skewed : s \in Space
  BY Current, SpacesAssumption DEF Inv
<1>1. ASSUME NEW s \in Skewed PROVE "skew" \notin content'[s]
  <2>1. ASSUME at \in Pools, NEW u \in todo, Call(u) PROVE "skew" \notin content'[s]
    <3>1. CASE s # u \/ at \notin {"publish", "ship"}
      BY <1>0, <2>1, <3>1, CallSpaces DEF SkewInv
    <3>2. CASE s = u /\ at = "ship"
      BY <3>2, UnreachedSkew
    <3>3. CASE s = u /\ at = "publish"
      <4>1. content[s] = {} /\ s \notin Unreleased
        BY <3>3 DEF SkewInv, Inv, PlaceInv
      <4>2. QED
        BY <2>1, <3>3, <4>1, CallSpaces DEF SkewInv
    <3>4. QED
      BY <3>1, <3>2, <3>3
  <2>2. CASE UNCHANGED content
    BY <2>2 DEF SkewInv
  <2>3. QED
    BY <2>1, <2>2, SpacesSteps DEF PromoteInto
<1>2. ASSUME NEW s \in Skewed, "skew" \in head'[s] PROVE s \in Unreleased \/ content'[s] # {}
  <2>1. CASE "skew" \in head[s]
    BY <1>0, <2>1, NotEmptied DEF SkewInv
  <2>2. CASE SkewSpaces
    <3>1. at = "skew"
      BY <2>2 DEF SkewSpaces
    <3>2. QED
      BY <1>0, <3>1, NotEmptied DEF SkewInv
  <2>3. CASE "skew" \notin head[s] /\ ~SkewSpaces
    <3>1. ASSUME NEW u \in Space, Edit(u) PROVE FALSE
      <4>1. head' = [head EXCEPT ![u] = @ \union {"edit"}]
        BY <3>1 DEF Edit
      <4>2. QED
        BY <1>0, <1>2, <2>3, <4>1 DEF Inv, OrgTypeOK
    <3>2. ASSUME at = "promote", climb > 1, UNCHANGED spread,
                 \E S \in SUBSET InStage(cur, climb) : PromoteInto(cur, S)
          PROVE  FALSE
      <4>1. carries[cur] /\ spread[cur]
        BY <3>2, SpacesSteps, Current DEF Inv, Landing
      <4>2. \A t \in Space : head'[t] = head[t] \/ head'[t] = head[t] \union {cur}
        BY <3>2, <4>1, PromoteKeeps DEF Inv
      <4>3. cur # "skew"
        BY <1>0
      <4>4. head'[s] = head[s] \/ head'[s] = head[s] \union {cur}
        BY <1>0, <4>2
      <4>5. "skew" \notin head[s] /\ "skew" \in head'[s]
        BY <1>2, <2>3
      <4>6. QED
        BY <4>3, <4>4, <4>5
    <3>3. ASSUME at \in Pools, NEW u \in todo, Call(u) PROVE FALSE
      BY <1>2, <2>3, <3>3, CallSpaces
    <3>4. CASE UNCHANGED head
      BY <1>2, <2>3, <3>4
    <3>5. QED
      BY <2>3, <3>1, <3>2, <3>3, <3>4, SpacesSteps
  <2>4. QED
    BY <2>1, <2>2, <2>3
<1>3. ASSUME at' = "publish"
      PROVE  /\ \A s \in todo' \intersect Skewed : content'[s] = {}
             /\ ~failed' => \A s \in Skewed \ Unreleased : s \in todo' \/ content'[s] # {}
  <2>1. CASE at' = at /\ UNCHANGED <<todo, failed, content>>
    BY <1>3, <2>1 DEF SkewInv
  <2>2. CASE at' = at /\ (failed => failed') /\ \E s \in todo : Call(s)
    <3>1. PICK u \in todo : Call(u)
      BY <2>2
    <3>2. /\ todo' = todo \ {u} /\ content'[u] = head[u] /\ u \in Space
          /\ \A t \in Space : t # u => content'[t] = content[t]
      BY <1>3, <2>2, <3>1, CallSpaces DEF Pools
    <3>3. head[u] # {}
      BY <3>2 DEF Inv, OrdersInv
    <3>4. \A s \in todo' \intersect Skewed : content'[s] = {}
      BY <1>0, <1>3, <2>2, <3>2 DEF SkewInv
    <3>5. ~failed' => \A s \in Skewed \ Unreleased : s \in todo' \/ content'[s] # {}
      BY <1>0, <1>3, <2>2, <3>2, <3>3 DEF SkewInv
    <3>6. QED
      BY <3>4, <3>5
  <2>3. CASE at' = at /\ UNCHANGED content /\ failed' /\ todo' \subseteq todo
    BY <1>3, <2>3 DEF SkewInv
  <2>4. CASE todo' = ToPublish /\ UNCHANGED orgVars
    <3>1. \A s \in Skewed \ Unreleased : content[s] = {} => Pending(s)
      BY <1>0 DEF Pending, Inv, OrdersInv
    <3>2. QED
      BY <1>0, <2>4, <3>1 DEF ToPublish, orgVars
  <2>5. QED
    BY <1>3, <2>1, <2>2, <2>3, <2>4, ToPools
<1>4. ASSUME at' = "skew" PROVE \A s \in Skewed \ Unreleased : content'[s] # {}
  <2>1. UNCHANGED content /\ (at = "skew" \/ (at = "publish" /\ todo = {} /\ ~failed))
    BY <1>4, ToPools
  <2>2. QED
    BY <2>1 DEF SkewInv
<1>5. QED
  BY <1>1, <1>2, <1>3, <1>4 DEF SkewInv

LEMMA SkewInit == Init => SkewInv
<1> SUFFICES ASSUME Init PROVE SkewInv
  OBVIOUS
<1>1. \A s \in Skewed : content[s] = {} /\ head[s] = {"seed"}
  BY SpacesAssumption DEF Init
<1>2. at = "off"
  BY DEF Init
<1>3. QED
  BY <1>1, <1>2 DEF SkewInv

\* "skewed spaces are published only once, or a re-run would fold the skew
\* into a fresh release and erase the story" (releases.go): in any order of
\* phases and failures a skew stays out of the Releases of its space, as long
\* as no story is walked into it.
THEOREM SkewsShow == SkewsUnreached => (Spec => []SkewShows)
<1> SUFFICES ASSUME SkewsUnreached PROVE Spec => []SkewShows
  OBVIOUS
<1> DEFINE I == Inv /\ SkewInv
<1>1. Init => I
  BY InvInit, SkewInit
<1>2. I /\ [Next]_vars => I'
  BY InvStep, SkewStep
<1>3. I => SkewShows
  BY DEF SkewInv, SkewShows
<1> HIDE DEF I
<1>4. Spec => []I
  BY <1>1, <1>2, PTL DEF Spec
<1>5. QED
  BY <1>3, <1>4, PTL

\* As long as nobody edits: what a pool is about to publish is not what the
\* latest Release bundles, and a space is where its story's order ended.
NewInv ==
  /\ at \in {"publish", "ship"} => \A s \in todo : Pending(s)
  /\ \A i \in Story : \A s \in OfStory(i) : ended[i][s] # {} => head[s] = ended[i][s]

LEMMA EndsStep ==
  ASSUME Apart, SkewsUnreached, "edit" \notin Env, Inv, NewInv, [Next]_vars,
         NEW i \in Story, NEW s \in OfStory(i), ended'[i][s] # {}
  PROVE  head'[s] = ended'[i][s]
<1>0. cur \in Story /\ s \in Space /\ climb \in Nat
  BY Current DEF Inv, OfStory
<1>1. CASE UNCHANGED <<head, ended>>
  BY <1>1 DEF NewInv
<1>2. CASE at \in Pools /\ \E u \in todo : Call(u)
  <2>1. UNCHANGED <<head, ended>>
    BY <1>2, CallSpaces
  <2>2. QED
    BY <1>1, <2>1
<1>3. ASSUME at = "promote", climb > 1, UNCHANGED spread, NEW S \in SUBSET InStage(cur, climb), PromoteInto(cur, S)
      PROVE  head'[s] = ended'[i][s]
  <2>1. carries[cur] /\ spread[cur]
    BY <1>0, <1>3, SpacesSteps DEF Landing
  <2>2. /\ head'[s] = IF s \in S /\ ended[cur][s] = {} THEN head[s] \union {cur} ELSE head[s]
        /\ ended'[i][s] = IF i = cur /\ s \in S /\ ended[cur][s] = {} THEN head'[s] ELSE ended[i][s]
    <3>1. /\ \A t \in Space : head'[t] = IF t \in S /\ ended[cur][t] = {} THEN head[t] \union {cur} ELSE head[t]
          /\ \A k \in Story, t \in Space :
               ended'[k][t] = IF k = cur /\ t \in S /\ ended[cur][t] = {} THEN head'[t] ELSE ended[k][t]
      BY <1>3, <2>1, PromoteKeeps DEF Inv
    <3>2. head'[s] = IF s \in S /\ ended[cur][s] = {} THEN head[s] \union {cur} ELSE head[s]
      BY <1>0, <3>1
    <3>3. ended'[i][s] = IF i = cur /\ s \in S /\ ended[cur][s] = {} THEN head'[s] ELSE ended[i][s]
      <4>1. \A k, t : k \in Story /\ t \in Space =>
              ended'[k][t] = IF k = cur /\ t \in S /\ ended[cur][t] = {} THEN head'[t] ELSE ended[k][t]
        BY <3>1
      <4>2. i \in Story /\ s \in Space
        BY <1>0
      <4>3. QED
        BY <4>1, <4>2, Zenon
    <3>4. QED
      BY <3>2, <3>3, Zenon
  <2>3. s \in S => i = cur
    BY <1>0, OneStoryEach DEF InStage
  <2>4. QED
    BY <2>2, <2>3 DEF NewInv
<1>4. CASE SkewSpaces
  <2>1. ended' = ended /\ head'[s] = IF s \in Skewed THEN head[s] \union {"skew"} ELSE head[s]
    BY <1>0, <1>4 DEF SkewSpaces
  <2>2. StageOf[s] <= LandedThrough[i]
    BY <1>0, <2>1 DEF Inv, OrdersInv
  <2>3. s \notin Skewed
    <3>1. ASSUME s \in Skewed PROVE StageOf[s] > LandedThrough[i]
      BY <3>1 DEF SkewsUnreached
    <3>2. StageOf[s] \in Nat /\ LandedThrough[i] \in Nat
      BY <1>0, Basics
    <3>3. QED
      BY <2>2, <3>1, <3>2
  <2>4. QED
    BY <2>1, <2>3 DEF NewInv
<1>5. ~\E u \in Space : Edit(u)
  BY DEF Edit, Happens
<1>6. QED
  BY <1>1, <1>2, <1>3, <1>4, <1>5, SpacesSteps

LEMMA PendingStep ==
  ASSUME Apart, "edit" \notin Env, Inv, NewInv, [Next]_vars, at' \in {"publish", "ship"},
         NEW s \in todo'
  PROVE  head'[s] # content'[s]
<1>0. cur \in Story /\ todo \subseteq Space
  BY Current DEF Inv
<1>1. UNCHANGED head \/ at \notin {"publish", "ship"}
  <2>1. ~\E u \in Space : Edit(u)
    BY DEF Edit, Happens
  <2>2. ASSUME at \in Pools, NEW u \in todo, Call(u) PROVE UNCHANGED head
    BY <2>2, CallSpaces
  <2>3. SkewSpaces => at = "skew"
    BY DEF SkewSpaces
  <2>4. QED
    BY <2>1, <2>2, <2>3, SpacesSteps
<1>2. CASE at' = at /\ UNCHANGED <<todo, failed, content>>
  BY <1>1, <1>2 DEF NewInv, Pending
<1>3. CASE at' = at /\ \E u \in todo : Call(u)
  <2>1. PICK u \in todo : Call(u)
    BY <1>3
  <2>2. todo' = todo \ {u} /\ \A t \in Space : t # u => content'[t] = content[t]
    BY <1>3, <2>1, CallSpaces DEF Pools
  <2>3. s \in todo /\ s # u /\ s \in Space
    BY <1>0, <2>2
  <2>4. QED
    BY <1>1, <1>3, <2>2, <2>3 DEF NewInv, Pending
<1>4. CASE at' = at /\ UNCHANGED content /\ todo' \subseteq todo
  BY <1>1, <1>4 DEF NewInv, Pending
<1>5. CASE todo' = ToPublish /\ UNCHANGED orgVars
  BY <1>5 DEF ToPublish, Pending, orgVars
<1>6. CASE todo' = {t \in InStage(cur, climb) : Pending(t)} /\ UNCHANGED orgVars
  BY <1>6 DEF Pending, orgVars
<1>7. QED
  BY <1>2, <1>3, <1>4, <1>5, <1>6, ToPools

\* "re-releases skip" (stories.go), in every phase and run: a Release is
\* published only where it bundles something its space's latest does not, as
\* long as no two stories share a component, none is walked into a skewed
\* space, and nobody edits a space while it is about to be published.
THEOREM ReReleasesSkip ==
  Apart /\ SkewsUnreached /\ "edit" \notin Env => (Spec => [][PublishesSomethingNew]_vars)
<1> SUFFICES ASSUME Apart, SkewsUnreached, "edit" \notin Env PROVE Spec => [][PublishesSomethingNew]_vars
  OBVIOUS
<1> DEFINE I == Inv /\ NewInv
<1>1. Init => I
  <2>1. ASSUME Init PROVE NewInv
    BY <2>1 DEF Init, NewInv, OfStory
  <2>2. QED
    BY <2>1, InvInit
<1>2. I /\ [Next]_vars => I'
  <2> SUFFICES ASSUME I, [Next]_vars PROVE NewInv'
    BY InvStep
  <2>1. \A i \in Story : \A s \in OfStory(i) : ended'[i][s] # {} => head'[s] = ended'[i][s]
    BY EndsStep
  <2>2. at' \in {"publish", "ship"} => \A s \in todo' : head'[s] # content'[s]
    BY PendingStep
  <2>3. QED
    BY <2>1, <2>2 DEF NewInv, Pending, OfStory
<1>3. I /\ [Next]_vars => [PublishesSomethingNew]_vars
  <2> SUFFICES ASSUME I, [Next]_vars, NEW s \in Space, releases'[s] # releases[s]
               PROVE  content'[s] # content[s]
    BY DEF PublishesSomethingNew
  <2>0. cur \in Story
    BY Current DEF Inv
  <2>1. ~UNCHANGED releases
    OBVIOUS
  <2>2. at \in Pools /\ \E u \in todo : Call(u)
    BY <2>1, SpacesSteps DEF PromoteInto
  <2>3. PICK u \in todo : Call(u)
    BY <2>2
  <2>4. s = u /\ at \in {"publish", "ship"}
    BY <2>1, <2>2, <2>3, CallSpaces
  <2>5. head[s] # content[s]
    BY <2>4 DEF NewInv, Pending
  <2>6. CASE at = "publish"
    BY <2>2, <2>3, <2>4, <2>5, <2>6, CallSpaces
  <2>7. CASE at = "ship"
    <3>1. s \in OfStory(cur) /\ ended[cur][s] # {} /\ content'[s] = ended[cur][s]
      BY <2>2, <2>3, <2>4, <2>7, CallSpaces DEF InStage
    <3>2. QED
      BY <2>0, <2>5, <3>1 DEF NewInv
  <2>8. QED
    BY <2>4, <2>6, <2>7
<1> HIDE DEF I
<1>4. Spec => []I
  BY <1>1, <1>2, PTL DEF Spec
<1>5. QED
  BY <1>3, <1>4, PTL DEF Spec

-----------------------------------------------------------------------------
(* Completed *)

\* A story that is to be walked through a last stage that has deployments.
WalkedThrough(i) == LandedThrough[i] = LastStage[i] /\ LastStage[i] > 1

\* Of such stories, those told are completed and the one in hand moves.
OrdersDone ==
  \A j \in DOMAIN Stories : WalkedThrough(Stories[j]) =>
    /\ Told(j) => order[Stories[j]] = "completed"
    /\ order[Stories[j]] = "moving" => at \in Landing /\ turn = j
    /\ order[Stories[j]] = "none" => \A s \in Space : ended[Stories[j]][s] = {}

\* And where it moves, nothing beyond the walk was promoted into, and every
\* Release of its stage is of its order, not reported on before all are out.
OnTheWay ==
  at \in Landing /\ WalkedThrough(cur) /\ order[cur] = "moving" =>
    /\ \A t \in OfStory(cur) : StageOf[t] > climb => ended[cur][t] = {}
    /\ at = "promote" => \A t \in InStage(cur, climb) : ended[cur][t] = {}
    /\ at = "stage" => \A t \in InStage(cur, climb) : cur \notin content[t]
    /\ at = "ship" => \A t \in InStage(cur, climb) \ todo : pin[t] = cur /\ health[t] # "healthy"
    /\ at = "settle" => \A t \in InStage(cur, climb) : pin[t] = cur
    /\ at = "settle" /\ climb = LastStage[cur] => todo # {}
    /\ at # "degrade"

CompletedInv == events = 0 => ~failed /\ outcome # "failed" /\ OrdersDone /\ OnTheWay

\* Steps that leave the orders alone and the story in hand in hand.
LEMMA SameOrders ==
  ASSUME OrdersDone, UNCHANGED <<order, ended>>,
         \A j \in DOMAIN Stories : Told(j)' => Told(j) \/ (WalkedThrough(Stories[j]) => order[Stories[j]] = "completed"),
         \A j \in DOMAIN Stories : WalkedThrough(Stories[j]) /\ order[Stories[j]] = "moving" => at' \in Landing /\ turn' = j
  PROVE  OrdersDone'
BY DEF OrdersDone, WalkedThrough

\* On from the bases or a stage: the walk goes on, or its order is completed.
LEMMA MovesToTheEnd ==
  ASSUME Inv, OrdersDone, at \in Landing, Walk, UNCHANGED <<order, ended, ran>>,
         WalkedThrough(cur) /\ order[cur] = "moving" =>
           /\ climb # LastStage[cur]
           /\ \A t \in OfStory(cur) : StageOf[t] > climb => ended[cur][t] = {}
  PROVE  OrdersDone' /\ OnTheWay'
<1>0. cur \in Story /\ climb \in Nat /\ climb <= LandedThrough[cur] /\ order[cur] # "none" /\ at \in Telling
      /\ order[cur] \in {"none", "moving", "completed"} /\ cur = Stories[turn] /\ turn \in DOMAIN Stories
      /\ phases = {}
  BY Current DEF Inv, RunTypeOK, PlaceInv, OrgTypeOK, Telling, cur
<1>1. \A j \in DOMAIN Stories : WalkedThrough(Stories[j]) /\ order[Stories[j]] = "moving" => j = turn
  BY DEF OrdersDone
<1>2. CASE climb' = climb + 1 /\ at' = "promote" /\ turn' = turn
  <2>1. \A j \in DOMAIN Stories : Told(j)' => Told(j)
    BY <1>0, <1>2 DEF Told, Finished
  <2>2. OrdersDone'
    BY <1>1, <1>2, <2>1, SameOrders DEF Landing
  <2>3. cur' = cur
    BY <1>2 DEF cur
  <2>4. \A t \in OfStory(cur) : StageOf[t] \in Nat
    BY <1>0, Basics
  <2>5. ASSUME WalkedThrough(cur), order[cur] = "moving"
        PROVE  /\ \A t \in OfStory(cur) : StageOf[t] > climb' => ended[cur][t] = {}
               /\ \A t \in InStage(cur, climb') : ended[cur][t] = {}
    <3>1. \A t \in OfStory(cur) : StageOf[t] > climb => ended[cur][t] = {}
      BY <2>5
    <3>2. \A t \in OfStory(cur) : StageOf[t] > climb' => StageOf[t] > climb
      BY <1>0, <1>2, <2>4
    <3>3. \A t \in InStage(cur, climb') : t \in OfStory(cur) /\ StageOf[t] > climb
      BY <1>0, <1>2, <2>4 DEF InStage
    <3>4. QED
      BY <3>1, <3>2, <3>3
  <2>6. OnTheWay'
    BY <1>2, <2>3, <2>5 DEF OnTheWay, WalkedThrough, OfStory, InStage
  <2>7. QED
    BY <2>2, <2>6
<1>3. CASE climb = LandedThrough[cur] /\ at' = "degrade" /\ turn' = turn
  <2>1. \A j \in DOMAIN Stories : Told(j)' => Told(j)
    BY <1>0, <1>3 DEF Told, Finished
  <2>2. OrdersDone'
    BY <1>1, <1>3, <2>1, SameOrders DEF Landing
  <2>3. cur' = cur /\ ~(WalkedThrough(cur) /\ order[cur] = "moving")
    BY <1>3 DEF cur, WalkedThrough
  <2>4. OnTheWay'
    BY <2>3 DEF OnTheWay, WalkedThrough
  <2>5. QED
    BY <2>2, <2>4
<1>4. CASE climb = LandedThrough[cur] /\ NextStory
  <2>1. ~(WalkedThrough(cur) /\ order[cur] = "moving")
    BY <1>4 DEF WalkedThrough
  <2>2. \A j \in DOMAIN Stories : Told(j)' => Told(j) \/ j = turn
    BY <1>0, <1>4, StoryTold
  <2>3. \A j \in DOMAIN Stories : ~(WalkedThrough(Stories[j]) /\ order[Stories[j]] = "moving")
    BY <1>0, <1>1, <2>1
  <2>4. \A j \in DOMAIN Stories : Told(j)' => Told(j) \/ (WalkedThrough(Stories[j]) => order[Stories[j]] = "completed")
    BY <1>0, <2>1, <2>2
  <2>5. OrdersDone'
    BY <2>3, <2>4, SameOrders
  <2>6. at' \notin Landing
    BY <1>0, <1>4, NextDoes DEF Landing
  <2>7. OnTheWay'
    BY <2>6 DEF OnTheWay
  <2>8. QED
    BY <2>5, <2>7
<1>5. QED
  BY <1>0, <1>2, <1>3, <1>4, WalkDoes

\* A run in a phase other than the stories: no whole story moves.
LEMMA QuietCompletes ==
  ASSUME OrdersDone, at \notin Landing, at' \notin Landing, UNCHANGED <<order, ended>>,
         \A j \in DOMAIN Stories : Told(j)' => Told(j)
  PROVE  OrdersDone' /\ OnTheWay'
<1>1. \A j \in DOMAIN Stories : ~(WalkedThrough(Stories[j]) /\ order[Stories[j]] = "moving")
  BY DEF OrdersDone
<1>2. OrdersDone'
  BY <1>1, SameOrders
<1>3. QED
  BY <1>2 DEF OnTheWay

LEMMA EnsureCompletes ==
  ASSUME Apart, Inv, OrdersDone, EnsureOrder
  PROVE  OrdersDone' /\ OnTheWay'
<1>0. cur \in Story /\ cur = Stories[turn] /\ turn \in DOMAIN Stories /\ at = "order" /\ climb' = 1 /\ at \in Telling
      /\ phases = {} /\ at \notin Landing /\ ran' = ran
  BY Current DEF Inv, RunTypeOK, PlaceInv, EnsureOrder, Telling, Landing, cur
<1>1. \A j \in DOMAIN Stories : ~(WalkedThrough(Stories[j]) /\ order[Stories[j]] = "moving")
  BY <1>0 DEF OrdersDone
<1>2. CASE terminal[cur] /\ NextStory /\ UNCHANGED orgVars
  <2>1. \A j \in DOMAIN Stories : Told(j)' => Told(j) \/ j = turn
    BY <1>0, <1>2, StoryTold
  <2>2. UNCHANGED <<order, ended>> /\ order[cur] \in {"none", "moving", "completed"} /\ order[cur] # "none"
    BY <1>0, <1>2 DEF orgVars, Inv, OrgTypeOK, OrdersInv, TerminalInv
  <2>3. \A j \in DOMAIN Stories : Told(j)' => Told(j) \/ (WalkedThrough(Stories[j]) => order[Stories[j]] = "completed")
    BY <1>0, <1>1, <2>1, <2>2
  <2>4. OrdersDone'
    BY <1>1, <2>2, <2>3, SameOrders
  <2>5. at' \notin Landing
    BY <1>0, <1>2, NextDoes DEF Landing
  <2>6. QED
    BY <2>4, <2>5 DEF OnTheWay
<1>3. CASE order[cur] = "moving" /\ ~terminal[cur] /\ at' = "promote" /\ UNCHANGED <<orgVars, phases, turn, outcome>>
  <2>1. UNCHANGED <<order, ended>> /\ cur' = cur /\ \A j \in DOMAIN Stories : Told(j)' => Told(j)
    BY <1>0, <1>3 DEF orgVars, cur, Told, Finished
  <2>2. OrdersDone'
    BY <1>1, <2>1, SameOrders
  <2>3. ~WalkedThrough(cur)
    BY <1>0, <1>1, <1>3
  <2>4. QED
    BY <2>1, <2>2, <2>3 DEF OnTheWay, WalkedThrough
<1>4. CASE /\ order[cur] = "none"
           /\ order' = [order EXCEPT ![cur] = "moving"]
           /\ at' = "promote"
           /\ UNCHANGED <<ended, turn>>
  <2>1. order'[cur] = "moving" /\ \A i \in Story : i # cur => order'[i] = order[i]
    BY <1>0, <1>4 DEF Inv, OrgTypeOK
  <2>2. \A j \in DOMAIN Stories : j # turn => Stories[j] # cur /\ Stories[j] \in Story
    BY <1>0, Basics DEF Apart
  <2>3. cur' = cur /\ \A j \in DOMAIN Stories : Told(j)' => Told(j) /\ j # turn
    <3>1. turn \in Nat
      BY Current DEF Inv
    <3>2. QED
      BY <1>0, <1>4, <3>1 DEF cur, Told, Finished
  <2>4. OrdersDone'
    <3> SUFFICES ASSUME NEW j \in DOMAIN Stories, WalkedThrough(Stories[j])
                 PROVE  /\ Told(j)' => order'[Stories[j]] = "completed"
                        /\ order'[Stories[j]] = "moving" => at' \in Landing /\ turn' = j
                        /\ order'[Stories[j]] = "none" => \A s \in Space : ended'[Stories[j]][s] = {}
      BY DEF OrdersDone, WalkedThrough
    <3>1. CASE j = turn
      BY <1>0, <1>4, <2>1, <2>3, <3>1 DEF Landing
    <3>2. CASE j # turn
      <4>1. order'[Stories[j]] = order[Stories[j]]
        BY <2>1, <2>2, <3>2
      <4>2. QED
        BY <1>1, <1>4, <2>3, <4>1 DEF OrdersDone
    <3>3. QED
      BY <3>1, <3>2
  <2>5. WalkedThrough(cur) => \A t \in Space : ended[cur][t] = {}
    BY <1>0, <1>4 DEF OrdersDone
  <2>6. OnTheWay'
    BY <1>4, <2>3, <2>5 DEF OnTheWay, WalkedThrough, OfStory, InStage
  <2>7. QED
    BY <2>4, <2>6
<1>5. QED
  BY <1>2, <1>3, <1>4 DEF EnsureOrder

LEMMA PromoteCompletes ==
  ASSUME Inv, OrdersDone, OnTheWay, Promote
  PROVE  OrdersDone' /\ OnTheWay' /\ outcome' # "failed"
<1>0. cur \in Story /\ climb \in Nat /\ climb >= 1 /\ at = "promote" /\ at \in Landing /\ at \in Telling
      /\ phases = {} /\ outcome = "running" /\ ran' = ran /\ turn \in DOMAIN Stories
  BY Current DEF Promote, Landing, Telling, Inv, PlaceInv, RunTypeOK
<1>1. GatesHold(cur, climb)
  BY <1>0, OpenGates
<1>2. CASE climb = 1 /\ Walk /\ UNCHANGED <<root, order, terminal, carries, ended, head, content, pin, health, releases>>
  <2>1. WalkedThrough(cur) => climb # LastStage[cur]
    BY <1>2 DEF WalkedThrough
  <2>2. OrdersDone' /\ OnTheWay'
    BY <1>0, <1>2, <2>1, MovesToTheEnd DEF OnTheWay
  <2>3. outcome' = outcome \/ outcome' = "ok"
    BY <1>0, <1>2, WalkDoes, NextDoes DEF Inv, RunTypeOK
  <2>4. QED
    BY <1>0, <2>2, <2>3
<1>3. CASE /\ climb > 1
           /\ PromoteInto(cur, InStage(cur, climb))
           /\ at' = "stage"
           /\ UNCHANGED <<spread, phases, turn, climb, todo, outcome>>
  <2>1. carries[cur] /\ spread[cur]
    BY <1>0, <1>3, SpacesSteps DEF Inv, PlaceInv, OrdersInv
  <2>2. /\ UNCHANGED <<order, content>>
        /\ \A i \in Story, t \in Space :
             ended'[i][t] = IF i = cur /\ t \in InStage(cur, climb) /\ ended[cur][t] = {} THEN head'[t] ELSE ended[i][t]
    BY <1>0, <1>3, <2>1, PromoteKeeps DEF Inv
  <2>3. cur' = cur /\ \A j \in DOMAIN Stories : Told(j)' => Told(j)
    BY <1>0, <1>3 DEF cur, Told, Finished
  <2>4. order[cur] # "none"
    BY <1>0 DEF Inv, PlaceInv
  <2>5. OrdersDone'
    <3> SUFFICES ASSUME NEW j \in DOMAIN Stories, WalkedThrough(Stories[j])
                 PROVE  /\ Told(j)' => order'[Stories[j]] = "completed"
                        /\ order'[Stories[j]] = "moving" => at' \in Landing /\ turn' = j
                        /\ order'[Stories[j]] = "none" => \A s \in Space : ended'[Stories[j]][s] = {}
      BY DEF OrdersDone, WalkedThrough
    <3>1. Told(j)' => order'[Stories[j]] = "completed"
      BY <2>2, <2>3 DEF OrdersDone
    <3>2. order'[Stories[j]] = "moving" => at' \in Landing /\ turn' = j
      BY <1>3, <2>2 DEF OrdersDone, Landing
    <3>3. ASSUME order'[Stories[j]] = "none", NEW s \in Space PROVE ended'[Stories[j]][s] = {}
      <4>1. Stories[j] # cur /\ Stories[j] \in Story /\ ended[Stories[j]][s] = {}
        BY <2>2, <2>4, <3>3, Basics DEF OrdersDone
      <4>2. ended'[Stories[j]][s] = ended[Stories[j]][s]
        BY <2>2, <4>1
      <4>3. QED
        BY <4>1, <4>2
    <3>4. QED
      BY <3>1, <3>2, <3>3
  <2>6. ASSUME WalkedThrough(cur), order[cur] = "moving"
        PROVE  /\ \A t \in OfStory(cur) : StageOf[t] > climb => ended'[cur][t] = {}
               /\ \A t \in InStage(cur, climb) : cur \notin content[t]
    <3>1. \A t \in OfStory(cur) : StageOf[t] > climb => ended[cur][t] = {}
      BY <1>0, <2>6 DEF OnTheWay
    <3>2. ASSUME NEW t \in OfStory(cur), StageOf[t] > climb PROVE ended'[cur][t] = {}
      <4>1. t \in Space /\ t \notin InStage(cur, climb)
        BY <1>0, <3>2 DEF OfStory, InStage
      <4>2. ended'[cur][t] = ended[cur][t]
        BY <1>0, <2>2, <4>1
      <4>3. QED
        BY <3>1, <3>2, <4>2
    <3>3. ASSUME NEW t \in InStage(cur, climb) PROVE cur \notin content[t]
      <4>1. t \in Space /\ ended[cur][t] = {}
        BY <1>0, <2>6 DEF OnTheWay, InStage, OfStory
      <4>2. cur \notin head[t]
        BY <1>0, <4>1 DEF Inv, OrdersInv
      <4>3. QED
        BY <4>1, <4>2 DEF Inv, OrdersInv
    <3>4. QED
      BY <3>2, <3>3
  <2>7. OnTheWay'
    BY <1>3, <2>2, <2>3, <2>6 DEF OnTheWay, WalkedThrough, OfStory, InStage
  <2>8. QED
    BY <1>0, <1>3, <2>5, <2>7
<1>4. QED
  BY <1>1, <1>2, <1>3 DEF Promote

LEMMA StageCompletes ==
  ASSUME Inv, OrdersDone, OnTheWay, ReleaseStage \/ Shipped
  PROVE  OrdersDone' /\ OnTheWay'
<1>0. /\ cur \in Story /\ climb \in Nat /\ at \in {"stage", "ship"} /\ at' \in {"ship", "settle"}
      /\ UNCHANGED <<order, ended, content, head, pin, health, turn, climb, ran, outcome>> /\ cur' = cur
  BY Current DEF ReleaseStage, Shipped, BeginReport, orgVars, cur, Inv
<1>1. \A j \in DOMAIN Stories : Told(j)' => Told(j)
  BY <1>0 DEF Told, Finished, Telling, Landing
<1>2. OrdersDone'
  BY <1>0, <1>1, SameOrders DEF OrdersDone, Landing
<1>3. CASE ReleaseStage
  <2>1. at = "stage" /\ at' = "ship" /\ todo' = {t \in InStage(cur, climb) : Pending(t)}
    BY <1>3 DEF ReleaseStage
  <2>2. ASSUME WalkedThrough(cur), order[cur] = "moving", NEW t \in InStage(cur, climb) PROVE t \in todo'
    <3>1. cur \notin content[t] /\ ended[cur][t] # {} /\ t \in Space
      BY <2>1, <2>2 DEF OnTheWay, Inv, WalkInv, Landing, InStage, OfStory
    <3>2. cur \in head[t]
      BY <1>0, <3>1 DEF Inv, OrdersInv
    <3>3. QED
      BY <2>1, <3>1, <3>2 DEF Pending
  <2>3. OnTheWay'
    BY <1>0, <2>1, <2>2 DEF OnTheWay, WalkedThrough, OfStory, InStage, Landing
  <2>4. QED
    BY <1>2, <2>3
<1>4. CASE Shipped
  <2>1. at = "ship" /\ ~failed /\ todo = {} /\ at' = "settle" /\ todo' = ToReport("settle")
    BY <1>4 DEF Shipped, BeginReport
  <2>2. ASSUME WalkedThrough(cur), order[cur] = "moving", climb = LastStage[cur] PROVE todo' # {}
    <3>1. PICK t \in OfStory(cur) : StageOf[t] = LastStage[cur]
      <4>1. LastStage[cur] \in 2 .. LastStage[cur]
        BY <1>0, <2>2 DEF WalkedThrough
      <4>2. {StageOf[t] : t \in {x \in Space : ComponentOf[x] = ComponentOf[cur]}} = 2 .. LastStage[cur]
        BY <1>0
      <4>3. QED
        BY <4>1, <4>2 DEF OfStory
    <3>2. t \in InStage(cur, climb)
      BY <2>2, <3>1 DEF InStage
    <3>3. health[t] # "healthy" /\ cur \in content[t]
      BY <2>1, <2>2, <3>2 DEF OnTheWay, Inv, WalkInv, Landing
    <3>4. t \in todo'
      BY <2>1, <3>2, <3>3 DEF ToReport, Wanted, Observation
    <3>5. QED
      BY <3>4
  <2>3. OnTheWay'
    BY <1>0, <2>1, <2>2 DEF OnTheWay, WalkedThrough, OfStory, InStage, Landing
  <2>4. QED
    BY <1>2, <2>3
<1>5. QED
  BY <1>3, <1>4

LEMMA CallCompletes ==
  ASSUME Inv, OrdersDone, OnTheWay, ~failed, PoolCall, Inv'
  PROVE  OrdersDone' /\ OnTheWay'
<1>0. /\ cur \in Story /\ climb \in Nat /\ at \in Pools /\ UNCHANGED <<at, turn, climb, ran, outcome, failed>> /\ cur' = cur
      /\ \A j \in DOMAIN Stories : Stories[j] \in Story
  BY Current, Basics DEF PoolCall, Pools, cur, Inv
<1>1. PICK s \in todo : Call(s)
  BY DEF PoolCall
<1>2. \A j \in DOMAIN Stories : Told(j)' => Told(j)
  BY <1>0 DEF Told, Finished
<1>3. ended' = ended /\ todo' = todo \ {s} /\ s \in Space
  BY <1>0, <1>1, CallSpaces
<1>4. \A i \in Story : order'[i] = order[i] \/ (order[i] = "moving" /\ order'[i] = "completed")
  BY <1>0, <1>1, CallSpaces
<1>5. OrdersDone'
  <2> SUFFICES ASSUME NEW j \in DOMAIN Stories, WalkedThrough(Stories[j])
               PROVE  /\ Told(j)' => order'[Stories[j]] = "completed"
                      /\ order'[Stories[j]] = "moving" => at' \in Landing /\ turn' = j
                      /\ order'[Stories[j]] = "none" => \A t \in Space : ended'[Stories[j]][t] = {}
    BY DEF OrdersDone, WalkedThrough
  <2>1. /\ Told(j) => order[Stories[j]] = "completed"
        /\ order[Stories[j]] = "moving" => at \in Landing /\ turn = j
        /\ order[Stories[j]] = "none" => \A t \in Space : ended[Stories[j]][t] = {}
    BY DEF OrdersDone
  <2>2. \/ order'[Stories[j]] = order[Stories[j]]
        \/ order[Stories[j]] = "moving" /\ order'[Stories[j]] = "completed"
    BY <1>0, <1>4
  <2> QED BY <1>0, <1>2, <1>3, <2>1, <2>2
<1>6. ASSUME at \in Landing, WalkedThrough(cur), order'[cur] = "moving"
      PROVE  /\ at = "ship" => \A t \in InStage(cur, climb) \ todo' : pin'[t] = cur /\ health'[t] # "healthy"
             /\ at = "settle" => \A t \in InStage(cur, climb) : pin'[t] = cur
             /\ at = "settle" /\ climb = LastStage[cur] => todo' # {}
             /\ at # "degrade" /\ at # "promote" /\ at # "stage"
             /\ \A t \in OfStory(cur) : StageOf[t] > climb => ended'[cur][t] = {}
  <2>0. order[cur] = "moving" /\ \A t \in InStage(cur, climb) : t \in Space
    BY <1>0, <1>4, <1>6 DEF InStage, OfStory
  <2>1. CASE at = "ship"
    <3>1. \A t \in Space : t # s => pin'[t] = pin[t] /\ health'[t] = health[t]
      BY <1>0, <1>1, CallSpaces
    <3>2. pin'[s] = cur /\ health'[s] # "healthy"
      <4>1. Bundle(s, cur)
        BY <1>1, <2>1 DEF Call
      <4>2. s \in Space
        BY <1>3
      <4>3. pin'[s] = cur /\ health'[s] = "none"
        BY <4>1, <4>2 DEF Bundle, Inv, OrgTypeOK
      <4>4. QED
        BY <4>3
    <3>3. QED
      BY <1>3, <1>6, <2>0, <2>1, <3>1, <3>2 DEF OnTheWay
  <2>2. CASE at = "settle"
    <3>1. UNCHANGED pin
      BY <1>0, <1>1, <2>2, CallSpaces
    <3>2. \A t \in InStage(cur, climb) : pin[t] = cur
      BY <1>6, <2>0, <2>2 DEF OnTheWay
    <3>3. ASSUME climb = LastStage[cur], todo' = {} PROVE FALSE
      <4>1. \A t \in InStage(cur, climb) : health'[t] = "healthy"
        <5>1. InStage(cur, climb)' = InStage(cur, climb)
          BY <1>0 DEF InStage, OfStory
        <5>2. at' = "settle" /\ ~failed'
          BY <1>0, <2>2
        <5>3. QED
          BY <3>3, <5>1, <5>2 DEF Inv, WalkInv
      <4>t. terminal[cur]
        <5>1. s \in InStage(cur, climb)
          BY <1>1, <2>2 DEF Inv, PlaceInv
        <5> QED BY <1>0, <3>2, <3>3, <5>1 DEF Inv, OrdersInv, TerminalInv
      <4>2. order'[cur] = "completed"
        BY <1>0, <1>1, <2>0, <2>2, <3>2, <3>3, <4>1, <4>t, CallSpaces
      <4>3. QED
        BY <1>6, <4>2
    <3>4. QED
      BY <1>3, <1>6, <2>0, <2>2, <3>1, <3>2, <3>3 DEF OnTheWay
  <2>3. at # "degrade"
    BY <1>6, <2>0 DEF OnTheWay
  <2>4. QED
    BY <1>0, <1>6, <2>1, <2>2, <2>3 DEF Pools, Landing
<1>7. OnTheWay'
  BY <1>0, <1>6 DEF OnTheWay, WalkedThrough, OfStory, InStage
<1>8. QED
  BY <1>5, <1>7

LEMMA EndsComplete ==
  ASSUME Inv, OrdersDone, OnTheWay, ~failed, PoolEnds
  PROVE  OrdersDone' /\ OnTheWay' /\ outcome' # "failed"
<1>0. UNCHANGED <<order, ended, content, head, pin, health, ran>> /\ todo = {} /\ at \in Pools /\ outcome = "running"
      /\ cur \in Story /\ climb \in Nat /\ turn \in DOMAIN Stories /\ climb >= 1
      /\ phases \in SUBSET {"releases", "livestatus", "stories"}
  BY Current DEF PoolEnds, orgVars, Pools, Inv, PlaceInv, RunTypeOK
<1>1. CASE at = "publish" /\ at' = "skew" /\ outcome' = outcome
  <2>1. \A j \in DOMAIN Stories : ~Told(j)'
    BY <1>1 DEF Told, Finished, Telling, Landing
  <2>2. QED
    BY <1>0, <1>1, <2>1, QuietCompletes DEF Landing
<1>2. CASE at = "paint" /\ GoOn(phases) /\ UNCHANGED <<turn, climb, todo>>
  <2>1. \A j \in DOMAIN Stories : ~Told(j)'
    BY <1>0, <1>2, GoOnTells DEF Telling, Landing
  <2>2. at' \notin Landing /\ (outcome' = outcome \/ outcome' = "ok")
    BY <1>0, <1>2, GoOnDoes DEF Landing
  <2>3. QED
    BY <1>0, <1>2, <2>1, <2>2, QuietCompletes DEF Landing
<1>3. CASE at = "settle" /\ Walk
  <2>1. at \in Landing /\ phases = {}
    BY <1>3 DEF Landing, Telling, Inv, PlaceInv
  <2>2. WalkedThrough(cur) /\ order[cur] = "moving" =>
          /\ climb # LastStage[cur]
          /\ \A t \in OfStory(cur) : StageOf[t] > climb => ended[cur][t] = {}
    BY <1>0, <1>3, <2>1 DEF OnTheWay
  <2>3. OrdersDone' /\ OnTheWay'
    BY <1>0, <1>3, <2>1, <2>2, MovesToTheEnd
  <2>4. outcome' = outcome \/ outcome' = "ok"
    BY <1>0, <1>3, <2>1, WalkDoes, NextDoes DEF Inv, RunTypeOK
  <2>5. QED
    BY <1>0, <2>3, <2>4
<1>4. CASE at = "degrade" /\ NextStory
  <2>1. at \in Landing /\ at \in Telling /\ phases = {} /\ cur = Stories[turn] /\ order[cur] # "none"
    BY <1>4 DEF Landing, Telling, Inv, PlaceInv, cur
  <2>2. WalkedThrough(cur) => order[cur] = "completed"
    <3>1. order[cur] \in {"none", "moving", "completed"}
      BY <1>0 DEF Inv, OrgTypeOK
    <3>2. QED
      BY <1>4, <2>1, <3>1 DEF OnTheWay
  <2>3. \A j \in DOMAIN Stories : ~(WalkedThrough(Stories[j]) /\ order[Stories[j]] = "moving")
    BY <2>1, <2>2 DEF OrdersDone
  <2>4. \A j \in DOMAIN Stories : Told(j)' => Told(j) \/ j = turn
    BY <1>4, <2>1, StoryTold
  <2>5. \A j \in DOMAIN Stories : Told(j)' => Told(j) \/ (WalkedThrough(Stories[j]) => order[Stories[j]] = "completed")
    BY <2>1, <2>2, <2>4
  <2>6. OrdersDone'
    BY <1>0, <2>3, <2>5, SameOrders
  <2>7. at' \notin Landing /\ outcome' # "failed"
    BY <1>0, <1>4, <2>1, NextDoes DEF Landing
  <2>8. QED
    BY <2>6, <2>7 DEF OnTheWay
<1>5. QED
  BY <1>1, <1>2, <1>3, <1>4 DEF PoolEnds

LEMMA CompletedStep ==
  ASSUME Apart, Inv, CompletedInv, [Next]_vars
  PROVE  CompletedInv'
<1> SUFFICES ASSUME events' = 0
             PROVE  ~failed' /\ outcome' # "failed" /\ OrdersDone' /\ OnTheWay'
  BY DEF CompletedInv
<1>0. Inv'
  BY InvStep
<1>1. events = 0 /\ (Up \/ Step \/ UNCHANGED vars)
  <2>1. events \in Nat /\ ~Interrupted /\ ~PoolCallFails /\ ~PromotesInPart
        /\ ~(\E s \in Space : Edit(s)) /\ ~(\E i \in Story : MovesOn(i))
    BY DEF Interrupted, PoolCallFails, PromotesInPart, Edit, MovesOn, Happens, Inv, RunTypeOK
  <2>2. Up \/ Step \/ UNCHANGED vars
    BY <2>1 DEF Next
  <2>3. events' = events
    <3>1. CASE Up
      BY <3>1, UpDoes
    <3>2. CASE ~Up
      BY <2>2, <3>2 DEF Step, vars, ReleasesPhase, SkewSpaces, LiveStatusPhase, MakeChange, EnsureOrder, Promote,
                        ReleaseStage, Shipped, PoolCall, PoolEnds
    <3>3. QED
      BY <3>1, <3>2
  <2>4. QED
    BY <2>2, <2>3
<1>2. ~failed /\ outcome # "failed" /\ OrdersDone /\ OnTheWay
  BY <1>1 DEF CompletedInv
<1>3. CASE Up
  <2>1. at = "off" /\ at' \in {"releases", "livestatus", "stories"} /\ turn' = 1 /\ outcome' = "running"
        /\ failed' = FALSE /\ UNCHANGED orgVars
    BY <1>3, UpDoes
  <2>2. \A j \in DOMAIN Stories : ~Told(j)'
    BY <2>1, Basics DEF Told, Finished
  <2>3. QED
    BY <1>2, <2>1, <2>2, QuietCompletes DEF orgVars, Landing
<1>4. CASE ReleasesPhase \/ LiveStatusPhase \/ MakeChange
  <2>1. UNCHANGED <<order, ended, failed, outcome, turn>> /\ at \in {"releases", "livestatus", "stories"}
        /\ at' \in {"publish", "paint", "order"} /\ (at' = "order" => at = "stories")
    BY <1>4 DEF ReleasesPhase, LiveStatusPhase, MakeChange, BeginReport, orgVars
  <2>2. \A j \in DOMAIN Stories : Told(j)' => Told(j)
    BY <2>1 DEF Told, Finished, Telling, Landing
  <2>3. QED
    BY <1>2, <2>1, <2>2, QuietCompletes DEF Landing
<1>5. CASE SkewSpaces
  <2>1. at = "skew" /\ GoOn(phases) /\ UNCHANGED <<order, ended, failed, turn, ran>>
    BY <1>5 DEF SkewSpaces
  <2>2. \A j \in DOMAIN Stories : ~Told(j)'
    BY <2>1, GoOnTells DEF Telling, Landing
  <2>3. at' \notin Landing /\ (outcome' = outcome \/ outcome' = "ok")
    BY <2>1, GoOnDoes DEF Landing, Inv, RunTypeOK
  <2>4. QED
    BY <1>2, <2>1, <2>2, <2>3, QuietCompletes DEF Landing
<1>6. CASE EnsureOrder
  <2>1. outcome' = outcome \/ outcome' = "ok"
    BY <1>6, NextDoes DEF EnsureOrder, Inv, RunTypeOK, PlaceInv, Telling
  <2>2. failed' = failed
    BY <1>6 DEF EnsureOrder
  <2>3. QED
    BY <1>2, <1>6, <2>1, <2>2, EnsureCompletes
<1>7. CASE Promote
  BY <1>2, <1>7, PromoteCompletes DEF Promote
<1>8. CASE ReleaseStage \/ Shipped
  BY <1>2, <1>8, StageCompletes DEF ReleaseStage, Shipped
<1>9. CASE PoolCall
  BY <1>0, <1>2, <1>9, CallCompletes DEF PoolCall
<1>10. CASE PoolEnds
  BY <1>2, <1>10, EndsComplete DEF PoolEnds
<1>11. CASE UNCHANGED vars
  BY <1>2, <1>11 DEF vars, orgVars, upVars, OrdersDone, OnTheWay, Told, Finished, WalkedThrough, cur, InStage, OfStory
<1>12. QED
  BY <1>1, <1>3, <1>4, <1>5, <1>6, <1>7, <1>8, <1>9, <1>10, <1>11 DEF Step

\* "one walked through its last stage and reported healthy reads Completed"
\* (docs/DATA-MODEL.md): so does every story landed through its last stage
\* once a run gets through, as long as no run was cut short and no call failed
\* and every story's component is deployed somewhere.
THEOREM WalkedIsCompleted ==
  Apart /\ Deployed => (Spec => []UndisturbedWalkCompletes)
<1> SUFFICES ASSUME Apart, \A i \in Story : LastStage[i] > 1 PROVE Spec => []UndisturbedWalkCompletes
  BY DEF Deployed
<1> DEFINE I == Inv /\ CompletedInv
<1>1. Init => I
  <2> SUFFICES ASSUME Init PROVE CompletedInv
    BY InvInit
  <2>1. OrdersDone
    BY Basics DEF Init, OrdersDone, Told, Finished, Telling, Landing
  <2>2. QED
    BY <2>1 DEF Init, CompletedInv, OnTheWay, Landing
<1>2. I /\ [Next]_vars => I'
  BY InvStep, CompletedStep
<1>3. I => UndisturbedWalkCompletes
  <2> SUFFICES ASSUME I, events = 0, Finished, NEW i \in Story, LandedThrough[i] = LastStage[i]
               PROVE  order[i] = "completed"
    BY DEF UndisturbedWalkCompletes, WalkedReadsCompleted
  <2>1. PICK j \in DOMAIN Stories : i = Stories[j]
    BY DEF Story
  <2>2. QED
    BY <2>1 DEF CompletedInv, OrdersDone, WalkedThrough, Told
<1> HIDE DEF I
<1>4. Spec => []I
  BY <1>1, <1>2, PTL DEF Spec
<1>5. QED
  BY <1>3, <1>4, PTL

-----------------------------------------------------------------------------
(* What the stories promise *)

\* Every Release of the last stage is of the order and healthy.
Arrived(i) == \A t \in InStage(i, LastStage[i]) : pin[t] = i /\ health[t] = "healthy"

\* A story's order that is yet to be named has promoted nothing; one that moves
\* has not arrived, so that a report completes its own story's at most; and the
\* change of one that has completed runs everywhere.
OrderPromised(i) ==
  /\ order[i] = "none" => \A s \in Space : ended[i][s] = {}
  /\ order[i] = "moving" => ~Arrived(i)
  /\ order[i] = "completed" => \A s \in OfStory(i) : i \in content[s]

\* The walk in hand is of an order that moves, until its last stage settles.
Onward ==
  /\ at \in {"promote", "stage", "ship"} => order[cur] = "moving"
  /\ at = "settle" => order[cur] = "moving" \/ climb = LastStage[cur]

PromiseInv == (\A i \in Story : OrderPromised(i)) /\ Onward

\* The steps that touch an order or what a space has.
LEMMA OrderSteps ==
  ASSUME Inv, [Next]_vars
  PROVE  \/ UNCHANGED <<order, ended, head, content, pin, health>>
         \/ EnsureOrder /\ UNCHANGED <<spread, ended, head, content, pin, health>>
         \/ at \in Pools /\ UNCHANGED <<at, turn, climb>> /\ \E s \in todo : Call(s)
         \/ at = "promote" /\ climb > 1 /\ UNCHANGED <<order, spread, content, pin, health>>
            /\ \E S \in SUBSET InStage(cur, climb) : PromoteInto(cur, S)
         \/ UNCHANGED <<order, spread, ended, content, pin, health>>
            /\ \E G \in [Space -> SUBSET {"skew", "edit"}] : head' = [s \in Space |-> head[s] \union G[s]]
<1>1. CASE EnsureOrder
  BY <1>1 DEF EnsureOrder, orgVars
<1>2. CASE UNCHANGED <<terminal, ended, head, content, pin, health, releases>> /\ ~EnsureOrder
  <2>1. CASE \/ UNCHANGED vars \/ Up \/ ReleasesPhase \/ LiveStatusPhase \/ ReleaseStage \/ Shipped
             \/ PoolEnds \/ Interrupted \/ MakeChange \/ \E i \in Story : MovesOn(i)
    <3>1. CASE Up
      BY <1>2, <3>1, UpDoes DEF orgVars
    <3>2. CASE ~Up
      BY <1>2, <2>1, <3>2 DEF vars, orgVars, ReleasesPhase, LiveStatusPhase, ReleaseStage, Shipped, PoolEnds,
                              Interrupted, MakeChange, MovesOn
    <3> QED BY <3>1, <3>2
  <2>2. CASE Promote \/ PromotesInPart \/ SkewSpaces \/ \E s \in Space : Edit(s)
    BY <1>2, <2>2 DEF Promote, PromotesInPart, PromoteInto, SkewSpaces, Edit, orgVars
  <2>3. CASE PoolCall
    BY <2>3 DEF PoolCall, Pools
  <2>4. CASE PoolCallFails
    BY <1>2, <2>4 DEF PoolCallFails, Pools, orgVars
  <2> QED BY <1>2, <2>1, <2>2, <2>3, <2>4 DEF Next, Step
<1>3. CASE at = "promote" /\ climb > 1 /\ UNCHANGED <<spread, turn, climb>>
           /\ \E S \in SUBSET InStage(cur, climb) : PromoteInto(cur, S)
  BY <1>3 DEF PromoteInto
<1> QED BY <1>1, <1>2, <1>3, SpacesSteps

LEMMA LastClasses ==
  ASSUME Deployed, NEW i \in Story
  PROVE  \E t \in InStage(i, LastStage[i]) : t \in OfStory(i)
<1>1. LastStage[i] \in 2 .. LastStage[i]
  BY Basics DEF Deployed
<1>2. LastStage[i] \in {StageOf[s] : s \in {t \in Space : ComponentOf[t] = ComponentOf[i]}}
  BY <1>1
<1> QED BY <1>2 DEF InStage, OfStory

\* What is reported completes the order of one story at most, of the space
\* reported on.
LEMMA ReportCompletes ==
  ASSUME Deployed, Inv, PromiseInv, at \in Pools, at \notin {"publish", "ship"}, NEW s \in todo, Call(s)
  PROVE  \A i \in Story :
           /\ order'[i] # order[i] => /\ order[i] = "moving" /\ order'[i] = "completed"
                                      /\ s \in InStage(i, LastStage[i])
                                      /\ \A t \in InStage(i, LastStage[i]) : i \in content[t]
           /\ order'[i] = "moving" => order[i] = "moving" /\ ~(Arrived(i)')
<1> SUFFICES ASSUME NEW i \in Story
             PROVE  /\ order'[i] # order[i] => /\ order[i] = "moving" /\ order'[i] = "completed"
                                               /\ s \in InStage(i, LastStage[i])
                                               /\ \A t \in InStage(i, LastStage[i]) : i \in content[t]
                    /\ order'[i] = "moving" => order[i] = "moving" /\ ~(Arrived(i)')
  OBVIOUS
<1>1. order'[i] = IF order[i] = "moving" /\ terminal[i] /\ \A t \in InStage(i, LastStage[i]) : pin[t] = i /\ health'[t] = "healthy"
                  THEN "completed" ELSE order[i]
  BY CallSpaces
<1>2. pin' = pin /\ \A t \in Space : t # s => health'[t] = health[t]
  BY CallSpaces
<1>3. Arrived(i)' <=> \A t \in InStage(i, LastStage[i]) : pin[t] = i /\ health'[t] = "healthy"
  BY <1>2 DEF Arrived, InStage, OfStory
<1>4. \A t \in InStage(i, LastStage[i]) : t \in Space
  BY DEF InStage, OfStory
<1>5. ASSUME order'[i] # order[i]
      PROVE  order[i] = "moving" /\ order'[i] = "completed" /\ s \in InStage(i, LastStage[i])
             /\ \A t \in InStage(i, LastStage[i]) : i \in content[t]
  <2>1. order[i] = "moving" /\ order'[i] = "completed"
        /\ \A t \in InStage(i, LastStage[i]) : pin[t] = i /\ health'[t] = "healthy"
    BY <1>1, <1>5
  <2>2. s \in InStage(i, LastStage[i])
    <3>1. ~Arrived(i)
      BY <2>1 DEF PromiseInv, OrderPromised
    <3>2. PICK t \in InStage(i, LastStage[i]) : ~(pin[t] = i /\ health[t] = "healthy")
      BY <3>1 DEF Arrived
    <3>3. t = s
      BY <1>2, <1>4, <2>1, <3>2
    <3> QED BY <3>2, <3>3
  <2>3. \A t \in InStage(i, LastStage[i]) : i \in content[t]
    BY <1>4, <2>1 DEF Inv, OrdersInv
  <2> QED BY <2>1, <2>2, <2>3
<1>6. order'[i] = "moving" => order[i] = "moving" /\ ~(Arrived(i)')
  <2>1. (\A t \in InStage(i, LastStage[i]) : pin[t] = i) => terminal[i]
    BY LastClasses DEF Inv, OrdersInv, TerminalInv
  <2> QED BY <1>1, <1>3, <2>1
<1> QED BY <1>5, <1>6

\* A Release that is published has not been reported on.
LEMMA NotReported ==
  ASSUME Inv, at \in {"publish", "ship"}, NEW s \in todo, Call(s)
  PROVE  health'[s] = "none" /\ UNCHANGED order
<1>1. s \in Space
  BY Current DEF Inv
<1> QED BY <1>1 DEF Call, Bundle, Inv, OrgTypeOK

\* The orders stand as PromiseInv says, whatever the step.
LEMMA OrdersPromised ==
  ASSUME Apart, Deployed, Inv, Inv', ClassInv, PromiseInv, [Next]_vars, NEW i \in Story
  PROVE  OrderPromised(i)'
<1> SUFFICES /\ order'[i] = "none" => \A s \in Space : ended'[i][s] = {}
             /\ order'[i] = "moving" => ~(Arrived(i)')
             /\ order'[i] = "completed" => \A s \in OfStory(i) : i \in content'[s]
  BY DEF OrderPromised, OfStory
<1>0. /\ cur \in Story /\ \A t \in InStage(i, LastStage[i]) : t \in Space
      /\ order[i] \in {"none", "moving", "completed"}
  BY Current DEF Inv, OrgTypeOK, InStage, OfStory
<1>a. /\ order[i] = "none" => \A s \in Space : ended[i][s] = {}
      /\ order[i] = "moving" => ~Arrived(i)
      /\ order[i] = "completed" => \A s \in OfStory(i) : i \in content'[s]
  BY ContentKeeps DEF PromiseInv, OrderPromised
<1>b. (UNCHANGED <<pin, health>>) => (Arrived(i)' <=> Arrived(i))
  BY DEF Arrived, InStage, OfStory
<1>1. CASE UNCHANGED <<order, pin, health>> /\ (order[i] = "none" => \A s \in Space : ended'[i][s] = {})
  BY <1>1, <1>a, <1>b
<1>2. CASE UNCHANGED <<order, ended, pin, health>>
  BY <1>1, <1>2, <1>a
<1>3. CASE EnsureOrder /\ UNCHANGED <<spread, ended, head, content, pin, health>>
  <2>1. order'[i] # order[i] => i = cur /\ order[i] = "none" /\ order'[i] = "moving"
    BY <1>0, <1>3 DEF EnsureOrder, orgVars, Inv, OrgTypeOK
  <2>2. CASE order'[i] = order[i]
    BY <1>3, <1>a, <1>b, <2>2
  <2>3. CASE order'[i] # order[i]
    <3>1. PICK t \in InStage(i, LastStage[i]) : t \in OfStory(i)
      BY LastClasses
    <3>2. ended[i][t] = {} /\ t \in Space
      BY <1>0, <1>a, <2>1, <2>3, <3>1
    <3>3. pin[t] # i
      BY <3>2 DEF Inv, OrdersInv
    <3>4. ~Arrived(i)
      BY <3>1, <3>3 DEF Arrived
    <3> QED BY <1>3, <1>b, <2>1, <2>3, <3>4
  <2> QED BY <2>2, <2>3
<1>4. ASSUME at \in Pools, NEW s \in todo, Call(s)
      PROVE  /\ order'[i] = "none" => \A t \in Space : ended'[i][t] = {}
             /\ order'[i] = "moving" => ~(Arrived(i)')
             /\ order'[i] = "completed" => \A t \in OfStory(i) : i \in content'[t]
  <2>0. ended' = ended
    BY <1>4, CallSpaces
  <2>1. CASE at \in {"publish", "ship"}
    <3>1. order' = order /\ health'[s] = "none"
      BY <1>4, <2>1, NotReported
    <3>2. \A t \in Space : t # s => pin'[t] = pin[t] /\ health'[t] = health[t]
      BY <1>4, CallSpaces
    <3>3. Arrived(i)' => Arrived(i)
      <4>1. Arrived(i)' <=> \A t \in InStage(i, LastStage[i]) : pin'[t] = i /\ health'[t] = "healthy"
        BY DEF Arrived, InStage, OfStory
      <4>2. ASSUME \A t \in InStage(i, LastStage[i]) : pin'[t] = i /\ health'[t] = "healthy",
                   NEW t \in InStage(i, LastStage[i])
            PROVE  pin[t] = i /\ health[t] = "healthy"
        BY <1>0, <3>1, <3>2, <4>2
      <4> QED BY <4>1, <4>2 DEF Arrived
    <3> QED BY <1>a, <2>0, <3>1, <3>3
  <2>2. CASE at \notin {"publish", "ship"}
    <3>1. /\ order'[i] # order[i] => /\ order[i] = "moving" /\ order'[i] = "completed"
                                     /\ s \in InStage(i, LastStage[i])
                                     /\ \A t \in InStage(i, LastStage[i]) : i \in content[t]
          /\ order'[i] = "moving" => order[i] = "moving" /\ ~(Arrived(i)')
      BY <1>4, <2>2, ReportCompletes
    <3>2. CASE order'[i] = order[i]
      BY <1>a, <2>0, <3>1, <3>2
    <3>3. CASE order'[i] # order[i]
      <4>1. PICK t \in InStage(i, LastStage[i]) : t \in OfStory(i)
        BY LastClasses
      <4>2. i \in head[t] /\ StageOf[t] = LastStage[i]
        BY <1>0, <3>1, <3>3, <4>1 DEF Inv, OrdersInv, InStage
      <4>3. ASSUME NEW u \in OfStory(i) PROVE i \in content[u]
        <5>1. u \in Space /\ StageOf[u] \in Nat /\ StageOf[u] <= LastStage[i] /\ LastStage[i] \in Nat
          BY Basics
        <5>2. CASE StageOf[u] = LastStage[i]
          BY <3>1, <3>3, <5>2 DEF InStage
        <5>3. CASE StageOf[u] < LastStage[i]
          BY <4>1, <4>2, <5>3 DEF ClassInv
        <5> QED BY <5>1, <5>2, <5>3
      <4>4. \A u \in OfStory(i) : i \in content'[u]
        BY <4>3, ContentKeeps
      <4> QED BY <3>1, <3>3, <4>4
    <3> QED BY <3>2, <3>3
  <2> QED BY <2>1, <2>2
<1>5. ASSUME at = "promote", NEW S \in SUBSET InStage(cur, climb), PromoteInto(cur, S),
             UNCHANGED <<order, spread, content, pin, health>>
      PROVE  order[i] = "none" => \A s \in Space : ended'[i][s] = {}
  <2>1. order[cur] = "moving"
    BY <1>5 DEF PromiseInv, Onward
  <2>2. i # cur => ended'[i] = ended[i]
    BY <1>0, <1>5 DEF PromoteInto, Inv, OrgTypeOK
  <2> QED BY <1>a, <2>1, <2>2
<1>6. CASE \/ UNCHANGED <<order, ended, head, content, pin, health>>
           \/ UNCHANGED <<order, spread, ended, content, pin, health>>
  BY <1>2, <1>6
<1>7. CASE at = "promote" /\ UNCHANGED <<order, spread, content, pin, health>>
           /\ \E S \in SUBSET InStage(cur, climb) : PromoteInto(cur, S)
  BY <1>1, <1>5, <1>7
<1> QED BY <1>3, <1>4, <1>6, <1>7, OrderSteps
LEMMA WalksMove ==
  ASSUME Inv, at \in Landing, Walk, UNCHANGED order, order[cur] = "moving" \/ climb = LastStage[cur]
  PROVE  Onward'
<1>0. /\ cur \in Story /\ climb \in Nat /\ climb <= LandedThrough[cur] /\ phases = {} /\ turn \in DOMAIN Stories
      /\ LandedThrough[cur] <= LastStage[cur] /\ LastStage[cur] \in Nat /\ LandedThrough[cur] \in Nat
  BY Current, Basics DEF Inv, RunTypeOK, PlaceInv, Telling, Landing
<1>1. CASE climb < LandedThrough[cur] /\ climb' = climb + 1 /\ at' = "promote"
           /\ UNCHANGED <<phases, turn, todo, outcome>>
  <2>1. order[cur] = "moving" /\ cur' = cur
    BY <1>0, <1>1 DEF cur
  <2> QED BY <1>1, <2>1 DEF Onward
<1>2. CASE at' = "degrade"
  BY <1>2 DEF Onward
<1>3. CASE NextStory
  <2>1. at' \in {"off", "stories"}
    BY <1>0, <1>3, NextDoes
  <2> QED BY <2>1 DEF Onward
<1> QED BY <1>0, <1>1, <1>2, <1>3, WalkDoes

LEMMA OnwardStep ==
  ASSUME Deployed, Inv, PromiseInv, [Next]_vars
  PROVE  Onward'
<1>0. cur \in Story /\ climb \in Nat /\ Onward /\ phases \subseteq {"releases", "livestatus", "stories"}
      /\ turn \in DOMAIN Stories /\ (at \in Telling => phases = {})
  BY Current DEF Inv, RunTypeOK, PlaceInv, PromiseInv, Onward
<1>1. CASE at' \notin {"promote", "stage", "ship", "settle"}
  BY <1>1 DEF Onward
<1>2. CASE UNCHANGED <<at, turn, climb, order>>
  BY <1>0, <1>2 DEF Onward, cur
<1>3. CASE UNCHANGED vars \/ (\E s \in Space : Edit(s)) \/ \E i \in Story : MovesOn(i)
  BY <1>2, <1>3 DEF vars, orgVars, upVars, Edit, MovesOn
<1>4. CASE Up
  <2>1. at' \in {"releases", "livestatus", "stories"}
    BY <1>4, UpDoes
  <2> QED BY <1>1, <2>1
<1>5. CASE ReleasesPhase \/ LiveStatusPhase \/ MakeChange \/ Interrupted \/ PromotesInPart
  BY <1>1, <1>5 DEF ReleasesPhase, LiveStatusPhase, BeginReport, MakeChange, Interrupted, PromotesInPart, Stop
<1>6. CASE SkewSpaces
  <2>1. at' \in {"off", "releases", "livestatus", "stories"}
    BY <1>0, <1>6, GoOnDoes DEF SkewSpaces
  <2> QED BY <1>1, <2>1
<1>7. CASE EnsureOrder
  <2>1. CASE NextStory
    <3>1. at' \in {"off", "stories"}
      BY <1>0, <1>7, <2>1, NextDoes DEF EnsureOrder, Telling
    <3> QED BY <1>1, <3>1
  <2>2. CASE at' = "promote" /\ order'[cur] = "moving" /\ turn' = turn
    BY <2>2 DEF Onward, cur
  <2>3. order' = [order EXCEPT ![cur] = "moving"] => order'[cur] = "moving"
    BY <1>0 DEF Inv, OrgTypeOK
  <2> QED BY <1>7, <2>1, <2>2, <2>3 DEF EnsureOrder, orgVars
<1>8. CASE Promote
  <2>1. at = "promote" /\ at \in Landing /\ order[cur] = "moving"
    BY <1>0, <1>8 DEF Promote, Onward, Landing
  <2>2. CASE Stop("failed")
    BY <1>1, <2>2 DEF Stop
  <2>3. CASE Walk /\ UNCHANGED order
    BY <2>1, <2>3, WalksMove
  <2>4. CASE UNCHANGED order /\ at' = "stage" /\ turn' = turn
    BY <2>1, <2>4 DEF Onward, cur
  <2> QED BY <1>8, <2>2, <2>3, <2>4 DEF Promote, PromoteInto
<1>9. CASE ReleaseStage \/ Shipped
  <2>1. at \in {"stage", "ship"} /\ at' \in {"ship", "settle"} /\ UNCHANGED <<order, turn, climb>>
    BY <1>9 DEF ReleaseStage, Shipped, BeginReport, orgVars
  <2> QED BY <1>0, <2>1 DEF Onward, cur
<1>10. ASSUME at \in Pools, UNCHANGED <<at, turn, climb>>, NEW s \in todo, Call(s)
       PROVE  Onward'
  <2>1. CASE at \in {"publish", "ship"}
    BY <1>2, <1>10, <2>1, NotReported
  <2>2. CASE at = "settle"
    <3>1. cur' = cur /\ s \in InStage(cur, climb)
      BY <1>10, <2>2 DEF cur, Inv, PlaceInv
    <3>2. CASE climb = LastStage[cur]
      BY <1>10, <2>2, <3>1, <3>2 DEF Onward
    <3>3. CASE climb # LastStage[cur]
      <4>1. order[cur] = "moving" /\ s \notin InStage(cur, LastStage[cur])
        BY <1>0, <2>2, <3>1, <3>3 DEF Onward, InStage
      <4>2. order'[cur] = order[cur]
        BY <1>0, <1>10, <2>2, <4>1, ReportCompletes
      <4> QED BY <1>10, <2>2, <3>1, <4>1, <4>2 DEF Onward
    <3> QED BY <3>2, <3>3
  <2> QED BY <1>1, <1>10, <2>1, <2>2 DEF Pools
<1>11. CASE PoolCall \/ PoolCallFails
  <2>1. at \in Pools /\ UNCHANGED <<at, turn, climb>>
    BY <1>11 DEF PoolCall, PoolCallFails, Pools
  <2>2. CASE UNCHANGED order
    BY <1>2, <2>1, <2>2
  <2>3. CASE \E s \in todo : Call(s)
    BY <1>10, <2>1, <2>3
  <2> QED BY <1>11, <2>2, <2>3 DEF PoolCall, PoolCallFails, orgVars
<1>12. CASE PoolEnds
  <2>0. UNCHANGED order
    BY <1>12 DEF PoolEnds, orgVars
  <2>1. CASE at = "settle" /\ Walk
    BY <1>0, <2>0, <2>1, WalksMove DEF Onward, Landing
  <2>2. CASE GoOn(phases)
    <3>1. at' \in {"off", "releases", "livestatus", "stories"}
      BY <1>0, <2>2, GoOnDoes
    <3> QED BY <1>1, <3>1
  <2>3. CASE at = "degrade" /\ NextStory
    <3>1. at' \in {"off", "stories"}
      BY <1>0, <2>3, NextDoes DEF Telling, Landing
    <3> QED BY <1>1, <3>1
  <2> QED BY <1>1, <1>12, <2>1, <2>2, <2>3 DEF PoolEnds, Stop
<1> QED BY <1>3, <1>4, <1>5, <1>6, <1>7, <1>8, <1>9, <1>11, <1>12 DEF Next, Step

LEMMA PromiseStep ==
  ASSUME Apart, Deployed, Inv, Inv', ClassInv, PromiseInv, [Next]_vars
  PROVE  PromiseInv'
BY OrdersPromised, OnwardStep DEF PromiseInv

LEMMA PromiseInit == Init => PromiseInv
BY DEF Init, PromiseInv, OrderPromised, Onward

\* What a change has reached and where it runs, as StoryWalk has them.
Reached == [i \in Story |-> {s \in Space : i \in head[s]}]
Running == [i \in Story |-> {s \in Space : i \in content[s]}]

LEMMA PromiseSteps ==
  ASSUME NEW i \in Story
  PROVE  /\ Promise!Name(i) => Promise!Next
         /\ Promise!IntoBases(i) => Promise!Next
         /\ \A k \in 2 .. LastStage[i] : \A S \in SUBSET InStage(i, k) : Promise!IntoClass(i, k, S) => Promise!Next
         /\ \A s \in Space : Promise!Release(i, s) => Promise!Next
         /\ Promise!Complete(i) => Promise!Next
<1>1. \A k : Promise!InClass(i, k) = InStage(i, k)
  BY DEF Promise!InClass, InStage, OfStory
<1> QED BY <1>1 DEF Promise!Next

\* A step that is none of a story's.
LEMMA SamePromise ==
  ASSUME UNCHANGED <<order, spread>>, Reached' = Reached, Running' = Running
  PROVE  UNCHANGED Promise!vars
BY DEF Promise!vars, Reached, Running

LEMMA PromiseStarts == Init => Promise!Init
<1> SUFFICES ASSUME Init PROVE Promise!Init
  OBVIOUS
<1>1. \A i \in Story : {s \in Space : i \in head[s]} = {} /\ {s \in Space : i \in content[s]} = {}
  BY DEF Init
<1> QED BY <1>1 DEF Promise!Init, Init

LEMMA Kept ==
  /\ UNCHANGED head => Reached' = Reached
  /\ UNCHANGED content => Running' = Running
BY DEF Reached, Running

\* Promoted into some of a class, of which those it was not yet in are new.
LEMMA PromotesAsPromised ==
  ASSUME Inv, PromiseInv, at = "promote", climb > 1, UNCHANGED <<order, spread, content>>,
         NEW S \in SUBSET InStage(cur, climb), PromoteInto(cur, S)
  PROVE  Promise!Next
<1>0. /\ cur \in Story /\ climb \in Nat /\ climb <= LastStage[cur] /\ climb <= LandedThrough[cur]
      /\ LastStage[cur] \in Nat
      /\ order[cur] = "moving" /\ carries[cur] /\ spread[cur] /\ at \in Landing
  BY Current, Basics DEF Inv, RunTypeOK, PromiseInv, Onward, PlaceInv, OrdersInv, Landing
<1>i. PICK i \in Story : i = cur
  BY <1>0
<1>k. PICK k \in Nat : k = climb
  BY <1>0
<1>1. \A t \in Space : head'[t] = IF t \in S /\ ended[cur][t] = {} THEN head[t] \union {cur} ELSE head[t]
  BY <1>0, PromoteKeeps DEF Inv
<1>f. PICK F : F = {t \in S : ended[i][t] = {}}
  OBVIOUS
<1>2. F \in SUBSET InStage(i, k) /\ F \subseteq Space
  BY <1>i, <1>k, <1>f DEF InStage, OfStory
<1>3. \A j \in Story, t \in Space : j \in head'[t] <=> j \in head[t] \/ (j = i /\ t \in F)
  <2> TAKE j \in Story, t \in Space
  <2>1. CASE t \in F
    <3>1. head'[t] = head[t] \union {i}
      BY <1>1, <1>2, <1>i, <1>f, <2>1
    <3> QED BY <2>1, <3>1
  <2>2. CASE t \notin F
    <3>1. head'[t] = head[t]
      BY <1>1, <1>i, <1>f, <2>2
    <3> QED BY <2>2, <3>1
  <2> QED BY <2>1, <2>2
<1>4. \A j \in Story : {t \in Space : j \in head'[t]} =
        IF j = i THEN {t \in Space : j \in head[t]} \union F ELSE {t \in Space : j \in head[t]}
  BY <1>2, <1>3
<1>5. Reached' = [Reached EXCEPT ![i] = @ \union F]
  <2>1. Reached' = [j \in Story |-> IF j = i THEN Reached[j] \union F ELSE Reached[j]]
    BY <1>4 DEF Reached
  <2> QED BY <2>1, Zenon DEF Reached
<1>6. InStage(i, k - 1) \subseteq Running[i]
  <2> SUFFICES ASSUME NEW t \in InStage(i, k - 1) PROVE t \in Running[i]
    OBVIOUS
  <2>1. t \in OfStory(cur) /\ StageOf[t] < climb /\ t \in Space
    BY <1>i, <1>k DEF InStage, OfStory
  <2>2. i \in content[t]
    BY <1>0, <1>i, <2>1 DEF Inv, WalkInv
  <2> QED BY <2>1, <2>2 DEF Running
<1>7. Promise!IntoClass(i, k, F)
  <2>1. Promise!InClass(i, k - 1) \subseteq Running[i]
    BY <1>6 DEF Promise!InClass, InStage, OfStory
  <2>2. order[i] = "moving" /\ spread[i] /\ k <= LandedThrough[i]
    BY <1>0, <1>i, <1>k
  <2>3. Running' = Running /\ UNCHANGED <<order, spread>>
    BY Kept
  <2> QED BY <1>5, <2>1, <2>2, <2>3 DEF Promise!IntoClass, Promise!Moving, Reached, Running
<1>8. k \in 2 .. LastStage[i]
  <2>1. climb \in 2 .. LastStage[cur]
    BY <1>0
  <2> QED BY <1>i, <1>k, <2>1, Zenon
<1> QED BY <1>2, <1>7, <1>8, PromiseSteps

\* A Release of a space is one of its story, if what it brings is new.
LEMMA ReleasesAsPromised ==
  ASSUME Apart, Inv, PromiseInv, [Next]_vars, at \in {"publish", "ship"}, NEW s \in todo, Call(s)
  PROVE  Promise!Next \/ UNCHANGED Promise!vars
<1>0. /\ s \in Space /\ UNCHANGED <<order, spread, head>> /\ at \in Pools
      /\ \A t \in Space : t # s => content'[t] = content[t]
  BY NotReported, CallSpaces DEF Pools
<1>1. content'[s] \subseteq head[s]
  BY <1>0, CallSpaces, Current DEF Inv, OrdersInv
<1>2. \A i \in Story, t \in Space : i \in content[t] => i \in content'[t]
  BY ContentKeeps DEF Inv, OrdersInv
<1>3. CASE \A i \in Story : i \in content'[s] => i \in content[s]
  <2>1. \A i \in Story : {t \in Space : i \in content'[t]} = {t \in Space : i \in content[t]}
    BY <1>0, <1>2, <1>3
  <2>2. Running' = Running
    BY <2>1 DEF Running
  <2> QED BY <1>0, <2>2, Kept, SamePromise
<1>4. ASSUME NEW i \in Story, i \in content'[s], i \notin content[s]
      PROVE  Promise!Next
  <2>0. i \in head[s]
    BY <1>1, <1>4
  <2>1. s \in OfStory(i) /\ ended[i][s] # {}
    <3>1. \A j \in Story, t \in Space : j \in head[t] => t \in OfStory(j) /\ ended[j][t] # {}
      BY DEF Inv, OrdersInv
    <3>2. s \in Space
      BY <1>0
    <3> QED BY <2>0, <3>1, <3>2
  <2>2. order[i] = "moving"
    <3>1. OrderPromised(i) /\ order[i] \in {"none", "moving", "completed"}
      BY DEF PromiseInv, Inv, OrgTypeOK
    <3> QED BY <1>0, <1>4, <2>1, <3>1 DEF OrderPromised
  <2>3. \A j \in Story : j # i => (j \in content'[s] <=> j \in content[s])
    <3> SUFFICES ASSUME NEW j \in Story, j # i PROVE j \notin head[s]
      BY <1>0, <1>1 DEF Inv, OrdersInv
    <3> QED BY <1>0, <2>1, OneStoryEach DEF Inv, OrdersInv
  <2>4. \A j \in Story : {t \in Space : j \in content'[t]} =
          IF j = i THEN {t \in Space : j \in content[t]} \union {s} ELSE {t \in Space : j \in content[t]}
    BY <1>0, <1>4, <2>3
  <2>5. Running' = [Running EXCEPT ![i] = @ \union {s}]
    <3>1. Running' = [j \in Story |-> IF j = i THEN Running[j] \union {s} ELSE Running[j]]
      BY <2>4 DEF Running
    <3> QED BY <3>1, Zenon DEF Running
  <2>6. s \in Reached[i] /\ Reached' = Reached
    BY <1>0, <2>0, Kept DEF Reached
  <2>7. Promise!Release(i, s)
    BY <1>0, <2>2, <2>5, <2>6 DEF Promise!Release, Promise!Moving, Reached, Running
  <2> QED BY <1>0, <2>7, PromiseSteps
<1> QED BY <1>3, <1>4

\* A report completes an order that is everywhere, or none.
LEMMA CompletesAsPromised ==
  ASSUME Apart, Deployed, Inv, Inv', PromiseInv, at \in Pools, at \notin {"publish", "ship"}, NEW s \in todo, Call(s)
  PROVE  Promise!Next \/ UNCHANGED Promise!vars
<1>0. s \in Space /\ UNCHANGED <<spread, head, content>>
  BY CallSpaces
<1>1. Reached' = Reached /\ Running' = Running
  BY <1>0, Kept
<1>2. CASE \A i \in Story : order'[i] = order[i]
  <2>1. order' = order
    BY <1>2 DEF Inv, OrgTypeOK
  <2> QED BY <1>0, <1>1, <2>1, SamePromise
<1>3. ASSUME NEW i \in Story, order'[i] # order[i]
      PROVE  Promise!Next
  <2>1. /\ order[i] = "moving" /\ order'[i] = "completed" /\ s \in InStage(i, LastStage[i])
        /\ \A t \in InStage(i, LastStage[i]) : i \in content[t]
    BY <1>3, ReportCompletes
  <2>2. \A j \in Story : j # i => order'[j] = order[j]
    <3> SUFFICES ASSUME NEW j \in Story, order'[j] # order[j] PROVE j = i
      OBVIOUS
    <3>1. s \in OfStory(j) /\ s \in OfStory(i)
      BY <2>1, ReportCompletes DEF InStage
    <3> QED BY <3>1, OneStoryEach
  <2>3. order' = [order EXCEPT ![i] = "completed"]
    BY <2>1, <2>2 DEF Inv, OrgTypeOK
  <2>4. Promise!InClass(i, LastStage[i]) \subseteq Running[i]
    BY <2>1 DEF Promise!InClass, InStage, OfStory, Running
  <2>5. Promise!Complete(i)
    BY <1>0, <1>1, <2>1, <2>3, <2>4 DEF Promise!Complete, Promise!Moving, Reached, Running
  <2> QED BY <2>5, PromiseSteps
<1> QED BY <1>2, <1>3

\* The steps that name an order or promote into the bases.
LEMMA NamesAsPromised ==
  ASSUME Inv, UNCHANGED <<head, content>>, PromiseInv, [Next]_vars, UNCHANGED order \/ EnsureOrder
  PROVE  Promise!Next \/ UNCHANGED Promise!vars
<1>0. cur \in Story /\ Reached' = Reached /\ Running' = Running
  BY Current, Kept DEF Inv
<1>1. CASE UNCHANGED <<order, spread>>
  BY <1>0, <1>1, SamePromise
<1>2. CASE EnsureOrder
  <2>1. UNCHANGED spread
    BY <1>2 DEF EnsureOrder, orgVars
  <2>2. CASE order[cur] = "none" /\ order' = [order EXCEPT ![cur] = "moving"]
    <3>1. Promise!Name(cur)
      BY <1>0, <2>1, <2>2 DEF Promise!Name, Reached, Running
    <3> QED BY <1>0, <3>1, PromiseSteps
  <2> QED BY <1>1, <1>2, <2>1, <2>2 DEF EnsureOrder, orgVars
<1>3. CASE Promote /\ UNCHANGED order
  <2>1. order[cur] = "moving"
    BY <1>3 DEF Promote, PromiseInv, Onward
  <2>2. CASE spread' = [spread EXCEPT ![cur] = TRUE]
    <3>1. Promise!IntoBases(cur)
      BY <1>0, <1>3, <2>1, <2>2 DEF Promise!IntoBases, Promise!Moving, Reached, Running
    <3> QED BY <1>0, <3>1, PromiseSteps
  <2> QED BY <1>1, <1>3, <2>2 DEF Promote, orgVars
<1>4. CASE ~EnsureOrder /\ ~Promote
  <2>1. UNCHANGED spread
    <3>1. CASE Up
      BY <3>1, UpDoes DEF orgVars
    <3>2. CASE PoolCall \/ PoolCallFails
      BY <3>2 DEF PoolCall, PoolCallFails, Call, Bundle, Observed, orgVars
    <3>3. CASE ~Up /\ ~PoolCall /\ ~PoolCallFails
      BY <1>4, <3>3 DEF Next, Step, vars, orgVars, ReleasesPhase, LiveStatusPhase, ReleaseStage, Shipped, PoolEnds,
                        Interrupted, MakeChange, MovesOn, Edit, SkewSpaces, PromotesInPart
    <3> QED BY <3>1, <3>2, <3>3
  <2> QED BY <1>1, <1>4, <2>1
<1> QED BY <1>2, <1>3, <1>4

LEMMA EveryStepIsPromised ==
  ASSUME Apart, Deployed, Inv, Inv', PromiseInv, [Next]_vars
  PROVE  Promise!Next \/ UNCHANGED Promise!vars
<1>1. CASE UNCHANGED <<order, ended, head, content, pin, health>>
           \/ (EnsureOrder /\ UNCHANGED <<spread, ended, head, content, pin, health>>)
  BY <1>1, NamesAsPromised
<1>2. CASE at \in Pools /\ \E s \in todo : Call(s)
  BY <1>2, ReleasesAsPromised, CompletesAsPromised
<1>3. CASE at = "promote" /\ climb > 1 /\ UNCHANGED <<order, spread, content, pin, health>>
           /\ \E S \in SUBSET InStage(cur, climb) : PromoteInto(cur, S)
  BY <1>3, PromotesAsPromised
<1>4. ASSUME UNCHANGED <<order, spread, ended, content, pin, health>>,
             NEW G \in [Space -> SUBSET {"skew", "edit"}], head' = [s \in Space |-> head[s] \union G[s]]
      PROVE  UNCHANGED Promise!vars
  <2>1. \A i \in Story, s \in Space : i \in head'[s] <=> i \in head[s]
    <3> SUFFICES ASSUME NEW i \in Story, NEW s \in Space PROVE i \in head'[s] <=> i \in head[s]
      OBVIOUS
    <3>1. head'[s] = head[s] \union G[s] /\ i \notin G[s]
      BY <1>4
    <3> QED BY <3>1
  <2>2. Reached' = Reached
    BY <2>1 DEF Reached
  <2> QED BY <1>4, <2>2, Kept, SamePromise
<1> QED BY <1>1, <1>2, <1>3, <1>4, OrderSteps

\* Whatever phases are run, cut short, failed half way and run again, beside
\* edits and later values (releases.go, livestatus.go, stories.go), every story
\* goes as StoryWalk says: from class to class, never taken back, and at rest
\* once its order has completed; as long as no two stories are of one component
\* and each is deployed in a class.
THEOREM StoriesKeepTheirPromise == Apart /\ Deployed => (Spec => KeepsItsPromise)
<1> SUFFICES ASSUME Apart, Deployed PROVE Spec => KeepsItsPromise
  OBVIOUS
<1> DEFINE I == Inv /\ ClassInv /\ PromiseInv
<1>1. Init => I
  BY InvInit, ClassInit, PromiseInit
<1>2. I /\ [Next]_vars => I'
  BY InvStep, ClassStep, PromiseStep
<1>3. I /\ I' /\ [Next]_vars => [Promise!Next]_(Promise!vars)
  BY EveryStepIsPromised
<1> HIDE DEF I
<1> QED BY <1>1, <1>2, <1>3, PromiseStarts, PTL DEF Spec, KeepsItsPromise, Promise!Spec
=============================================================================

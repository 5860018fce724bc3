---------------------------- MODULE MCDemoLife ------------------------------
(* Small instances of DemoLife: one demo, as it is written first and as it   *)
(* is edited, on two machines with two versions of the tool.                 *)
EXTENDS DemoLife

\* The order math/rand gives a list of spaces: any one order will do.
InOrder(S, seed) == SetToSeq(S)

Everywhere == [classes |-> {}, regions |-> {}, departments |-> {}]
Where(classes, departments, maxIndex) ==
  [classes |-> classes, regions |-> {}, departments |-> departments, maxIndex |-> maxIndex, exclude |-> Everywhere]

Dns == [name |-> "dns", dir |-> "dns", department |-> "", placement |-> <<>>, external |-> <<>>, liveStatus |-> "none"]
Api == [name |-> "api", dir |-> "web", department |-> "pay",
        placement |-> <<Where({"all"}, {"pay"}, 1)>>,
        external |-> <<[kind |-> "rds", name |-> "db"]>>, liveStatus |-> ""]

\* A dev and a prod cluster, prod the department's; dns runs on both and api
\* on prod.
Shop ==
  [name |-> "shop", regions |-> <<"us", "eu">>, classes |-> <<"dev", "prod">>, departments |-> <<"pay">>,
   rules |-> <<[class |-> "dev", department |-> "", count |-> [us |-> 1]],
               [class |-> "prod", department |-> "pay", count |-> [default |-> 1, eu |-> 0]]>>,
   list |-> <<>>, catalog |-> <<Dns>>, workloads |-> <<Api>>,
   skews |-> <<>>, changeOrders |-> <<[component |-> "api", landedThrough |-> "prod"]>>,
   prerequisites |-> [prod |-> {"Released"}],
   degraded |-> 0, outOfSync |-> 0, progressing |-> 0, unreleased |-> 0, seed |-> 1,
   agents |-> <<[name |-> "amy", component |-> "api", rollout |-> TRUE, change |-> 1]>>, reviewed |-> <<"api">>]

Unit(name, file) == [name |-> name, file |-> file]
Specs == [dns |-> [units |-> <<Unit("zone", "zone.yaml")>>], web |-> [units |-> <<Unit("web", "web.yaml")>>]]
Texts == (<<"dns", "zone.yaml">> :> "zone") @@ (<<"web", "web.yaml">> :> "web") @@ (<<"external", "rds">> :> "rds")

First == [scenario |-> Shop, specs |-> Specs, files |-> Texts]

\* web's manifest changed, and a unit added.
Edited ==
  [First EXCEPT !.specs.web.units = Append(@, Unit("jobs", "jobs.yaml")),
                !.files = (<<"web", "jobs.yaml">> :> "jobs") @@ (<<"web", "web.yaml">> :> "web2") @@ @]

\* dns dropped, a listed cluster more, half of the deployments unreleased, the
\* order through dev only and another agent; the second prod cluster is beyond
\* api's maxIndex.
Moved ==
  [First EXCEPT !.scenario.catalog = <<>>,
     !.scenario.list = <<[name |-> "", class |-> "prod", region |-> "us", department |-> "pay", index |-> 0],
                         [name |-> "lab", class |-> "dev", region |-> "eu", department |-> "pay", index |-> 3]>>,
     !.scenario.workloads[1].placement = <<Where({}, {"pay"}, 1), Where({"dev"}, {}, 0)>>,
     !.scenario.unreleased = 50, !.scenario.changeOrders[1].landedThrough = "dev",
     !.scenario.agents = <<[name |-> "bob", component |-> "", rollout |-> FALSE, change |-> 1]>>]

\* Refused by Load, by Expand, and by install itself.
Twice == [First EXCEPT !.scenario.workloads[1].external[1].name = "web"]
Clash == [First EXCEPT !.scenario.list = <<[name |-> "", class |-> "dev", region |-> "us", department |-> "shared", index |-> 1]>>]
Ahead == [First EXCEPT !.specs.web.units = Append(@, Unit("jobs", "jobs.yaml"))]

AllDrafts == [first |-> First, edited |-> Edited, moved |-> Moved, twice |-> Twice, clash |-> Clash, ahead |-> Ahead]

OldAndNew ==
  (1 :> <<[query |-> "q1", look |-> "l1"], [query |-> "q2", look |-> "l1"]>>)
    @@ (2 :> <<[query |-> "q1", look |-> "l2"], [query |-> "q3", look |-> "l1"]>>)
OwnTool == [m1 |-> 1, m2 |-> 2]

Everything == {{}}
SomePhases == {{}, {"bases", "deployments"}, {"views"}}
=============================================================================

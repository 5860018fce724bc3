----------------------------- MODULE MCDemoOrg -----------------------------
(* Small instances of DemoOrg. *)
EXTENDS DemoOrg, TLC

CONSTANTS c1, c2, k1, k2, k3, u1, u2, dev, prod

\* One component of two units on all three clusters, one of one unit on one.
Classes == (k1 :> dev) @@ (k2 :> dev) @@ (k3 :> prod)
Places == (c1 :> {k1, k2, k3}) @@ (c2 :> {k1})
UnitsOf == (c1 :> {u1, u2}) @@ (c2 :> {u1})
Slugs == {{}, {Root(c1)}, {ClusterSpace(k1), Home}, {ClassBase(c1, dev), Deployment(c1, k3)}}
PlacesOne == c1 :> {k1, k2}
UnitsOne == c1 :> {u1}
NoSlugs == {{}}
=============================================================================

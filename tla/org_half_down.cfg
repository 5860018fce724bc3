SPECIFICATION Spec
CONSTANTS
  c1 = c1
  c2 = c2
  k1 = k1
  k2 = k2
  k3 = k3
  u1 = u1
  u2 = u2
  dev = dev
  prod = prod
  Component = {c1}
  Cluster = {k1, k2, k3}
  ClassOf <- Classes
  Placement <- PlacesOne
  Units <- UnitsOne
  Varying = {c1}
  Taken <- NoSlugs
  Env = {"crash", "fault"}
  MaxRuns = 4
  MaxEvents = 2
INVARIANTS UpVaries
CHECK_DEADLOCK FALSE

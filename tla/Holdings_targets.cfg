\* Two requests that replace the targets.  When both requests are over the system stops.
SPECIFICATION FairSpec
CONSTANTS
  None = None
  Requests = {r1, r2}
  k1 = k1
  k2 = k2
  Keys = {k1, k2}
  Values = {1, 2}
  Items <- MCItems
  TargetSets <- MCTargetSets
  Kinds = {"targets"}
CHECK_DEADLOCK FALSE
INVARIANTS OneDistribution

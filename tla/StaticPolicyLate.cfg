SPECIFICATION Spec
CONSTANTS
  r1 = r1  g1 = g1  g2 = g2  p1 = p1  p2 = p2  b1 = b1  b2 = b2  None = None
  Pages = {r1}  Jobs <- TwoJobs
  Texts <- SmallTexts
  RuntimeOf <- OneRuntime  PathsOf <- SmallPaths
  Handles = {p1, p2}
  Binders = {b1, b2}  PolicyOf <- SmallPolicies  RoutesOf <- SmallRoutes
  Scenarios <- LateScenario
CHECK_DEADLOCK FALSE
INVARIANTS OnlyManagedWorkWaits

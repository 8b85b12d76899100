SPECIFICATION Spec
CONSTANTS
  h1 = h1  h2 = h2  h3 = h3  u = u  p1 = p1  p2 = p2  p3 = p3  r1 = r1  r2 = r2  sub = sub
  None = None  Invalid = Invalid  Above = Above  Root = Root
  Processes = {h1, h2, h3, u}  Bound = {h1, h2, h3}
  Publishers = {p1, p2, p3}
  ProcessOf <- OnePerProcess
  Limits <- RivalLimits
  Routes = {r1, r2}  DirOf <- SubdirOf
  Artifacts <- OneSize  RecordLen = 2
  MaxWord = 5  MaxPublications = 3  MaxCrashes = 1
CHECK_DEADLOCK FALSE
INVARIANTS CacheExact WithinLimits OnePolicyGoverns

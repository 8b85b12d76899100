SPECIFICATION SiteSpec
CONSTANTS
  None = None  a1 = a1  a2 = a2  v1 = v1  v2 = v2
  Methods = {get, post}  Functions = {f1, f2}
  Limit = 2  Chunks = {1, 2}
  Sites <- SmallSites  Urls <- SmallUrls
  Assets = {a1, a2}  PathsOf <- SmallPaths  Releases = {v1, v2}
  PlainFields <- SmallPlain  Negotiating <- SmallNegotiating  Conditional <- SmallConditional
  MaxChanges = 2
CHECK_DEADLOCK FALSE
INVARIANTS LastRegistrationServes RedirectsAreSafe AdapterErrorsStand OwnerOutlivesWork
  RoutesReachTheirHandlers ServedFromOneRoot ResponsesConform VerdictsAreTrue
PROPERTIES OwnerIsReleased

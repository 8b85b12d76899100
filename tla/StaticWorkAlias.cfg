SPECIFICATION Spec
CONSTANTS
  c1 = c1  c2 = c2  c3 = c3  k1 = k1  k2 = k2  None = None
  Callers = {c1, c2}
  Keys = {k1, k2}
  EntryKey <- AliasEntry
  PublishedKey <- AliasPublished
  Managed = TRUE
  RenderLimit = 1  SubscriptionLimit = 2  WaiterLimit = 2
  Regenerate = 2
  MaxEvents = 1  MaxAborts = 1
INVARIANTS PermitsAreExact
PROPERTIES KeepsPromise

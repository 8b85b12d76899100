SPECIFICATION Spec
CONSTANTS
  c1 = c1  c2 = c2  c3 = c3  k1 = k1  k2 = k2  None = None
  Callers = {c1, c2, c3}
  Keys = {k1}
  EntryKey <- SameEntry
  PublishedKey <- SameEntry
  Managed = TRUE
  RenderLimit = 1  SubscriptionLimit = 2  WaiterLimit = 3
  Regenerate = 1
  MaxEvents = 1  MaxAborts = 0
SYMMETRY AllCallers
INVARIANTS AcceptedWorkIsCompleted

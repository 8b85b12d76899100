SPECIFICATION Spec
CONSTANTS
  c1 = c1  c2 = c2  c3 = c3  k1 = k1  k2 = k2  None = None
  Callers = {c1, c2, c3}
  Keys = {k1}
  EntryKey <- SameEntry
  PublishedKey <- SameEntry
  Managed = FALSE
  RenderLimit = 0  SubscriptionLimit = 0  WaiterLimit = 0
  Regenerate = 0
  MaxEvents = 0  MaxAborts = 1
SYMMETRY AllCallers
INVARIANTS SingleFlight NoOrphanedWaiter NoMissedAbandonment

SPECIFICATION FairSpec
CONSTANTS
  c1 = c1  c2 = c2  c3 = c3  k1 = k1  k2 = k2  None = None
  Callers = {c1, c2}
  Keys = {k1}
  EntryKey <- SameEntry
  PublishedKey <- SameEntry
  Managed = TRUE
  RenderLimit = 1  SubscriptionLimit = 1  WaiterLimit = 2
  Regenerate = 1
  MaxEvents = 1  MaxAborts = 0
INVARIANTS NoMissedRequest RefusedTemplateIsDropped
PROPERTIES CallsReturn RefreshResumes

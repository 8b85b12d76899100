SPECIFICATION FairSpec
CONSTANTS
  None = None  Runtime = main
  Scopes = {main, nested}
  Requests = {q1, q2}
  MaxHandles = 2
CHECK_DEADLOCK FALSE
INVARIANTS HandlesStayUsable NoLostRetirement
PROPERTIES RetiredAreCollected

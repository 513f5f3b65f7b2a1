\* A decision that races the deadline.
CONSTANTS
  r1 = r1
  r2 = r2
  Requests = {r1}
  Keys = {"HIGH"}
  Tier <- MCTier
  Timeout = 1
  Cooldown = 2
  BatchLowRisk = FALSE
  MaxTime = 2
SPECIFICATION Spec
INVARIANTS ResultTellsStatus
CHECK_DEADLOCK FALSE

\* Two calls of any tier, LOW ones batched.  A CRITICAL request takes the
\* steps of a HIGH one.
CONSTANTS
  r1 = r1
  r2 = r2
  Requests = {r1, r2}
  Keys = {"LOW", "MEDIUM", "HIGH"}
  Tier <- MCTier
  Timeout = 1
  Cooldown = 2
  BatchLowRisk = TRUE
  MaxTime = 2
SPECIFICATION FairSpec
INVARIANTS RecordsTellStatus DecidedOnce ProceedsOnlyIfApproved
PROPERTIES WokenByDecision CheckEnds
CHECK_DEADLOCK FALSE

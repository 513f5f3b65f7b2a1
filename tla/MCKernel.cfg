\* Nested spawns and kills; the scheduler is only touched between ticks.
CONSTANTS
  Ids = {1, 2, 3}
  MaxAgents = 3
  NumPriorities = 1
  Slice <- MCSlice
  None = None
  MaxTicks = 2
  MaxDepth = 2
  HostCalls = {"terminate"}
  AgentCalls = {}
SPECIFICATION FairSpec
INVARIANTS ResourcesMatch EveryAgentThinks
 

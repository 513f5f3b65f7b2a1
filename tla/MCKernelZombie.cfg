\* An agent that terminates its own process and yields.
CONSTANTS
  Ids = {1, 2}
  MaxAgents = 2
  NumPriorities = 1
  Slice <- MCSlice
  None = None
  MaxTicks = 2
  MaxDepth = 1
  HostCalls = {}
  AgentCalls = {"terminate"}
SPECIFICATION Spec
PROPERTIES TerminatedIsCollected

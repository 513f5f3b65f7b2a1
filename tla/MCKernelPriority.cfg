\* Two priority levels; the host uses every scheduler operation between ticks.
CONSTANTS
  Ids = {1, 2}
  MaxAgents = 2
  NumPriorities = 2
  Slice <- MCSlice
  None = None
  MaxTicks = 3
  MaxDepth = 2
  HostCalls = {"block", "unblock", "terminate", "reprioritize"}
  AgentCalls = {}
SPECIFICATION Spec
INVARIANTS NoAgentIsLost

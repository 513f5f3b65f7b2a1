\* Two levels of supervisors, every pair of strategies; two agents under the
\* monitors.
CONSTANTS
  Specs <- MCSpecs
  Root = "root"
  Children <- MCChildren
  Type <- MCType
  MaxRestarts <- MCMaxRestarts
  Window = 1
  Numbers = {0, 1}
  MaxExits = 3
  None = None
  Monitored = {"a", "b"}
  Threads = {"first", "second"}
  Interval = 2
  MaxEventTick = 3
  MaxDriftCalls = 2
  Unknown = None
  Parties = {"a", "b"}
  Policies <- MCPolicies
  Limits <- MCLimits
  MaxAgents = 2
  MaxKernelTick = 2
  WithinTicks = 1
  MaxCheckTick = 4
SPECIFICATION PartSpec
INVARIANTS NoOrphans ChecksKeepUp TickIsFresh 
PROPERTIES TreeRecovers StrategyKept
CHECK_DEADLOCK FALSE

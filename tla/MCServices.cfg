\* One storage, one capability manager, one MCP client, each on its own.
\* All of them end when their bounds are reached.
CONSTANTS
  a = a
  b = b
  None = None
  Agents = {a}
  Regions = {"region"}
  Host = b
  Keys = {1, 2}
  Values = {"object", "text"}
  Written = {"object"}
  AgentCapacity = 1
  RegionCapacity = 1
  Capacities = {2}
  AccessLists = {{}, {a}}
  Lifetimes <- MCLifetimes
  MaxTick = 1
  MaxWrites = 2
  Json <- MCJson
  Checkpoints = {1}
  Holders = {a, b}
  Kernel = "kernel"
  PlainTypes = {"TOOL"}
  Patterns = {"one"}
  Resources = {"x", "y"}
  Covers <- MCCovers
  Policy <- MCPolicy
  Expiries = {1}
  Never = None
  MaxCaps = 3
  MaxCapTick = 1
SPECIFICATION PartSpec
INVARIANTS
  WithinLimits
  NoAmplification

  
  
CHECK_DEADLOCK FALSE

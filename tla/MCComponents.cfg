\* One small instance of each component.
CONSTANTS
  a = a
  b = b
  c = c
  Capabilities = {"NETWORK"}
  Environ = {"PATH", "HOME", "OTHER"}
  Suspicious = {"OTHER"}
  Timeouts = {TRUE, FALSE}
  MaxStarts = 2
  Platforms <- MCPlatforms
  Agents = {a, b}
  Everyone = "everyone"
  Kinds = {"STATUS"}
  Lifetimes = {0, 1}
  Capacity = 2
  Topics = {"topic"}
  MaxSent = 3
  MaxNow = 1
  Signers = {a}
  Threads = {c}
  MaxKeys = 2
  MaxChanges = 1
  MaxCalls = 2
  NodeIds = {a, b, c}
  Latency = 1
  Bandwidth = 1
  Lossy = FALSE
  PacketTtl = 2
  Payloads = {"payload"}
  MaxWires = 2
  MaxPackets = 1
  MaxNetTime = 1
  Users = {"kernel", "agent"}
  FileNames = {a, b}
  MaxDepth = 2
  MaxSize = 1
  MaxFiles = 2
  Keys = {a}
  Tools = {c}
  Lifetime = 1
  MaxChain = 3
  MaxClock = 1
  MaxPosition = 2
  Speed = 1
  MaxTicks = 1
  MaxJobs = 3
  Sources = {"x", "y", "z"}
  Broken = {"z"}
  ClassOf <- MCClassOf
  Scores = {0, 1}
  MaxPopulation = 3
  Elite = 67
  MaxBorn = 4
  MaxCycles = 1
  Callers = {"kernel", a}
  StoreKeys = {a}
  Limits = {1}
  Window = 1
  Managed = {"task_queue"}
  Requests <- ToolRequests
  MaxTick = 1
  MaxToolCalls = 3
  Residents = {a, b}
  NumNodes = 3
  MaxMail = 1
SPECIFICATION PartSpec
INVARIANTS NothingVanishes  PlacedOnceAndSettled TreeIsCounted
   DevicesKeepOrder  ResultIsTrue
PROPERTIES DeliveredWithReason FittestSurvive
CHECK_DEADLOCK FALSE

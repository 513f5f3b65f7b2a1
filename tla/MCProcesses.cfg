\* Three processes with slices 1, 1, 2 on two priority levels; everything may time
\* out and fail in an isolated process; a team of two workers.
CONSTANTS
  a = a
  b = b
  c = c
  Ids = {a, b, c}
  NumPriorities = 2
  Slice <- MCSlice
  None = None
  MaxTicks = 3
  MaxAsked = 3
  Timeouts = {"start", "tick", "syscall", "stop"}
  CanCrash = TRUE
SPECIFICATION PartSpec
INVARIANTS QueueDiscipline NoOrphan
PROPERTIES NoOvertaking NobodyStarves RepliesMatch CallsReturn 
CHECK_DEADLOCK FALSE

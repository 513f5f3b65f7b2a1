\* A tick_done that comes late.
CONSTANTS
  MaxTicks = 2
  MaxAsked = 0
  Timeouts = {"tick"}
  CanCrash = FALSE
SPECIFICATION IsolatedSpec
PROPERTIES OkAlwaysMeansFinished
